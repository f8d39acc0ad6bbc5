---------------------------- MODULE ServerProofs ----------------------------
(***************************************************************************)
(* Proofs about ForkServer and PollServer, for any number of clients, any  *)
(* lines, any backlog and any size of the process table.                   *)
(*                                                                         *)
(* Fork server: a connection is in one place at a time, in the backlog, in *)
(* the parent's hands, with a child, or over.  Held says so; with it the   *)
(* parent's fork and its exit leave no connection behind.                  *)
(*                                                                         *)
(* Poll server: those who arrived are, in their order, served, in the      *)
(* table, in the backlog.  OrderAt says so, TableInv what the scan does    *)
(* to the table.                                                           *)
(***************************************************************************)
EXTENDS PollServer, ForkServer, FiniteSetTheorems, SequenceTheorems, TLAPS

-----------------------------------------------------------------------------
(***************************************************************************)
(* A dialogue: what its steps keep, whichever server runs dostuff.         *)
(*                                                                         *)
(* What was read is the first lines the client typed, one for each         *)
(* question, as long as the connection is open.  A read that finds the end *)
(* of the connection leaves dostuff with a number of before, but then the  *)
(* client never types the lines that are missing.                          *)
(***************************************************************************)

\* buff is long enough for a number as wide as the first k lines.
Fits(bu, ty, k) == \A j \in 1 .. k : Width(ty[j]) + 1 <= bu.len

Gone(cn, ty, k) == cn \notin {"none", "open"} /\ Len(ty) < k

\* The result of the first three lines.
Shows(sh, ty) ==
  /\ Len(ty) >= 3
  /\ sh.value = Apply(ty[1], ty[2], ty[3])
  /\ \A j \in 1 .. 3 : Width(ty[j]) <= sh.room

DialogOf(cn, ak, pe, ty, st, bu, ar, sh) ==
  /\ sh = NoResult => Len(pe) + ak <= 1
  /\ cn = "none" => st = "none"
  /\ st \in {"none", "menu"} => ak = 0 /\ pe = <<>> /\ ty = <<>>
  /\ st \in {"op", "a", "b"} /\ cn = "open" => Len(pe) + ak = 1
  /\ pe # <<>> => Len(ty) >= 1 /\ pe[1] = ty[Len(ty)]
  /\ st \in {"a", "b"} => ar.op \in 1 .. 3
  /\ st = "op" => Len(ty) = Len(pe)
  /\ st = "a" => \/ Gone(cn, ty, 1)
                 \/ Len(ty) = Len(pe) + 1 /\ ar.op = ty[1] /\ Fits(bu, ty, 1)
  /\ st = "b" => \/ Gone(cn, ty, 2)
                 \/ /\ Len(ty) = Len(pe) + 2 /\ Fits(bu, ty, 2)
                    /\ ar.op = ty[1] /\ ar.a = ty[2]
  /\ st \in {"none", "menu", "op", "a", "b"} => sh = NoResult
  /\ sh # NoResult => Gone(cn, ty, 3) \/ Shows(sh, ty)

Dialog(c) == DialogOf(conn[c], asked[c], pending[c], typed[c], stage[c],
                      buff[c], args[c], shown[c])

CalcInv == CalcTypeOK /\ \A c \in Clients : Dialog(c)

LEMMA WidthIsNat == ASSUME NEW n \in Int PROVE Width(n) \in Nat
<1>1. ASSUME NEW m \in Int PROVE Digits(m) \in Nat
  <2>1. IsFiniteSet(1 .. 9)
    <3>1. 1 \in Int /\ 9 \in Int
      OBVIOUS
    <3> QED
      BY <3>1, FS_Interval
  <2>2. {k \in 1 .. 9 : 10 ^ k <= m} \subseteq 1 .. 9
    OBVIOUS
  <2>3. IsFiniteSet({k \in 1 .. 9 : 10 ^ k <= m})
    BY <2>1, <2>2, FS_Subset
  <2>4. Cardinality({k \in 1 .. 9 : 10 ^ k <= m}) \in Nat
    BY <2>3, FS_CardinalityType
  <2> QED
    BY <2>4 DEF Digits
<1>2. Digits(n) \in Nat /\ Digits(-n) \in Nat
  BY <1>1
<1> QED
  BY <1>2 DEF Width

LEMMA QuotientIsInt ==
  ASSUME NEW a \in Int, NEW b \in Int, b # 0 PROVE Quotient(a, b) \in Int
<1>1. Abs(a) \in Int /\ Abs(b) \in Nat \ {0}
  BY DEF Abs
<1>2. Abs(a) \div Abs(b) \in Int
  BY <1>1
<1> QED
  BY <1>2 DEF Quotient

LEMMA ApplyIsInt ==
  ASSUME NEW op \in 1 .. 3, NEW a \in Int, NEW b \in Int, ~(op = 3 /\ b = 0)
  PROVE  Apply(op, a, b) \in Int
<1>1. CASE op = 1
  BY <1>1 DEF Apply
<1>2. CASE op = 2
  BY <1>2 DEF Apply
<1>3. CASE op = 3
  BY <1>3, QuotientIsInt DEF Apply
<1> QED
  BY <1>1, <1>2, <1>3

\* A dialogue is in step, and shows results of its own.
LEMMA CalcInvImplies == ASSUME CalcInv PROVE InStep /\ OwnResult
<1> USE DEF CalcInv, Dialog, DialogOf
<1>1. InStep
  BY DEF InStep
<1>2. OwnResult
  <2> SUFFICES ASSUME NEW c \in Clients, shown[c] # NoResult, Len(typed[c]) >= 3
               PROVE  LET result == Apply(typed[c][1], typed[c][2], typed[c][3]) IN
                        /\ shown[c].value = result
                        /\ (\E m \in 1 .. 3 : Width(typed[c][m]) >= Width(result))
                             => shown[c].room >= Width(result)
    BY DEF OwnResult
  <2> DEFINE result == Apply(typed[c][1], typed[c][2], typed[c][3])
  <2>1. typed[c] \in Seq(Lines) /\ Len(typed[c]) \in Nat
    BY LenProperties DEF CalcTypeOK
  <2>2. Shows(shown[c], typed[c])
    BY <2>1 DEF Gone
  <2>3. shown[c].value = result
    BY <2>2 DEF Shows
  <2>4. shown[c].value \in Int /\ shown[c].room \in Int
    BY DEF CalcTypeOK
  <2>5. Width(result) \in Nat
    BY <2>3, <2>4, WidthIsNat
  <2>6. ASSUME NEW m \in 1 .. 3, Width(typed[c][m]) >= Width(result)
        PROVE  shown[c].room >= Width(result)
    <3>1. typed[c][m] \in Int
      <4>1. m \in 1 .. Len(typed[c])
        BY <2>1
      <4> QED
        BY <2>1, <4>1, ElementOfSeq, CalcAssumption
    <3>2. Width(typed[c][m]) \in Nat /\ Width(typed[c][m]) <= shown[c].room
      BY <2>2, <3>1, WidthIsNat DEF Shows
    <3> QED
      BY <2>4, <2>5, <2>6, <3>2
  <2> QED
    BY <2>3, <2>6
<1> QED
  BY <1>1, <1>2

-----------------------------------------------------------------------------
(* What a step does to a dialogue, on the values of one client. *)

\* The types of those values.
ValuesOK(cn, ak, pe, ty, st, bu, ar, sh) ==
  /\ cn \in ConnState /\ ak \in Nat /\ pe \in Seq(Lines) /\ ty \in Seq(Lines)
  /\ st \in Stage /\ bu \in Buffer /\ ar \in [op : 0 .. 3, a : Int]
  /\ sh \in [value : Int, room : Int]

\* What Write(c, n, next) does to conn, asked and stage.
Wrote(cn, ak, cn2, ak2, st2, n, next) ==
  \/ cn = "open" /\ cn2 = "open" /\ ak2 = ak + n /\ st2 = next
  \/ /\ cn \in {"closed", "broken"} /\ cn2 \in {"closed", "broken"} /\ ak2 = ak
     /\ st2 \in {next, "died"}

\* What Read(c) does to pending and buff.
HasTaken(cn, pe, bu, pe2, bu2) ==
  \/ pe = <<>> /\ cn # "open" /\ pe2 = <<>> /\ bu2 = bu
  \/ pe # <<>> /\ pe2 = Tail(pe) /\ bu2 = Overlay(bu, pe[1])

LEMMA TypedKeeps ==
  ASSUME NEW cn, NEW ak, NEW pe, NEW ty, NEW st, NEW bu, NEW ar, NEW sh,
         NEW line \in Lines,
         ValuesOK(cn, ak, pe, ty, st, bu, ar, sh),
         DialogOf(cn, ak, pe, ty, st, bu, ar, sh),
         cn = "open", ak > 0, sh = NoResult
  PROVE  DialogOf(cn, ak - 1, Append(pe, line), Append(ty, line), st, bu, ar, sh)
<1> DEFINE pe2 == Append(pe, line)  ty2 == Append(ty, line)
<1>1. /\ pe = <<>> /\ Len(pe) = 0 /\ ak = 1
      /\ Len(ty) \in Nat /\ st \notin {"none", "menu"}
  <2>1. pe \in Seq(Lines) /\ ty \in Seq(Lines) /\ ak \in Nat
    BY DEF ValuesOK
  <2>2. Len(pe) \in Nat /\ Len(ty) \in Nat
    BY <2>1, LenProperties
  <2>3. Len(pe) + ak <= 1 /\ (st \in {"none", "menu"} => ak = 0)
    BY DEF DialogOf
  <2>4. Len(pe) = 0 /\ ak = 1
    BY <2>1, <2>2, <2>3
  <2>5. pe = <<>>
    BY <2>1, <2>4, EmptySeq
  <2> QED
    BY <2>2, <2>3, <2>4, <2>5
<1>2. /\ Len(pe2) = 1 /\ pe2[1] = line /\ pe2 # <<>>
      /\ Len(ty2) = Len(ty) + 1 /\ ty2[Len(ty2)] = line
      /\ \A j \in 1 .. Len(ty) : ty2[j] = ty[j]
  BY <1>1, AppendProperties, LenProperties, EmptySeq DEF ValuesOK
<1> HIDE DEF pe2, ty2
<1>3. \A k \in Nat : k <= Len(ty) /\ Fits(bu, ty, k) => Fits(bu, ty2, k)
  <2> SUFFICES ASSUME NEW k \in Nat, k <= Len(ty), Fits(bu, ty, k), NEW j \in 1 .. k
               PROVE  Width(ty2[j]) + 1 <= bu.len
    BY DEF Fits
  <2>1. ty2[j] = ty[j] /\ Width(ty[j]) + 1 <= bu.len
    BY <1>1, <1>2 DEF Fits
  <2> QED
    BY <2>1
<1>4. Shows(sh, ty) => Shows(sh, ty2)
  <2> SUFFICES ASSUME Shows(sh, ty) PROVE Shows(sh, ty2)
    OBVIOUS
  <2>1. Len(ty) >= 3
    BY DEF Shows
  <2>2. ty2[1] = ty[1] /\ ty2[2] = ty[2] /\ ty2[3] = ty[3]
    BY <1>1, <1>2, <2>1
  <2>3. \A j \in 1 .. 3 : Width(ty2[j]) <= sh.room
    <3> SUFFICES ASSUME NEW j \in 1 .. 3 PROVE Width(ty2[j]) <= sh.room
      OBVIOUS
    <3>1. ty2[j] = ty[j] /\ Width(ty[j]) <= sh.room
      BY <1>1, <1>2, <2>1 DEF Shows
    <3> QED
      BY <3>1
  <2> QED
    BY <1>1, <1>2, <2>1, <2>2, <2>3 DEF Shows
<1>5. st = "a" => Len(ty) = 1 /\ ar.op = ty[1] /\ Fits(bu, ty, 1)
  BY <1>1 DEF DialogOf, Gone
<1>6. st = "b" => /\ Len(ty) = 2 /\ Fits(bu, ty, 2)
                  /\ ar.op = ty[1] /\ ar.a = ty[2]
  BY <1>1 DEF DialogOf, Gone
<1>7. st = "a" => Len(ty2) = Len(pe2) + 1 /\ ar.op = ty2[1] /\ Fits(bu, ty2, 1)
  <2> SUFFICES ASSUME st = "a"
               PROVE  Len(ty2) = Len(pe2) + 1 /\ ar.op = ty2[1] /\ Fits(bu, ty2, 1)
    OBVIOUS
  <2>0. Len(ty) = 1 /\ ar.op = ty[1] /\ Fits(bu, ty, 1)
    BY <1>5
  <2>1. ty2[1] = ty[1] /\ Len(ty2) = Len(pe2) + 1
    BY <1>2, <2>0
  <2>2. Fits(bu, ty2, 1)
    BY <1>3, <2>0
  <2> QED
    BY <1>5, <2>1, <2>2
<1>8. st = "b" => /\ Len(ty2) = Len(pe2) + 2 /\ Fits(bu, ty2, 2)
                  /\ ar.op = ty2[1] /\ ar.a = ty2[2]
  <2> SUFFICES ASSUME st = "b"
               PROVE  /\ Len(ty2) = Len(pe2) + 2 /\ Fits(bu, ty2, 2)
                      /\ ar.op = ty2[1] /\ ar.a = ty2[2]
    OBVIOUS
  <2>0. Len(ty) = 2 /\ Fits(bu, ty, 2) /\ ar.op = ty[1] /\ ar.a = ty[2]
    BY <1>6
  <2>1. ty2[1] = ty[1] /\ ty2[2] = ty[2] /\ Len(ty2) = Len(pe2) + 2
    BY <1>2, <2>0
  <2>2. Fits(bu, ty2, 2)
    BY <1>3, <2>0
  <2> QED
    BY <1>6, <2>1, <2>2
<1>9. sh # NoResult => Shows(sh, ty2)
  BY <1>4 DEF DialogOf, Gone
<1>10. DialogOf(cn, ak - 1, pe2, ty2, st, bu, ar, sh)
  BY <1>1, <1>2, <1>7, <1>8, <1>9 DEF DialogOf
<1> QED
  BY <1>10 DEF pe2, ty2

\* A line in reply to the result.
LEMMA UnreadKeeps ==
  ASSUME NEW cn, NEW ak, NEW ak2, NEW pe, NEW ty, NEW st, NEW bu, NEW ar, NEW sh,
         DialogOf(cn, ak, pe, ty, st, bu, ar, sh), sh # NoResult
  PROVE  DialogOf(cn, ak2, pe, ty, st, bu, ar, sh)
BY DEF DialogOf

LEMMA LeavingKeeps ==
  ASSUME NEW cn, NEW ak, NEW pe, NEW ty, NEW st, NEW bu, NEW ar, NEW sh,
         NEW cn2 \in {"closed", "broken", "over"},
         DialogOf(cn, ak, pe, ty, st, bu, ar, sh), cn # "none"
  PROVE  DialogOf(cn2, ak, pe, ty, st, bu, ar, sh)
BY DEF DialogOf, Gone

LEMMA GreetKeeps ==
  ASSUME NEW cn, NEW ak, NEW pe, NEW ty, NEW bu, NEW ar, NEW sh,
         NEW cn2, NEW ak2, NEW st2, NEW bu2,
         ValuesOK(cn, ak, pe, ty, "menu", bu, ar, sh),
         DialogOf(cn, ak, pe, ty, "menu", bu, ar, sh),
         Wrote(cn, ak, cn2, ak2, st2, 1, "op")
  PROVE  DialogOf(cn2, ak2, pe, ty, st2, bu2, ar, sh)
<1>1. pe = <<>> /\ ty = <<>> /\ ak = 0 /\ Len(pe) = 0 /\ Len(ty) = 0 /\ sh = NoResult
  BY EmptySeq DEF ValuesOK, DialogOf
<1> QED
  BY <1>1 DEF Wrote, DialogOf

\* Nothing of the dialogue waits after a read, which took the line that was
\* typed last, or found the end of the connection.
TookLast(cn, ak, pe, ty, bu, pe2, bu2) ==
  /\ pe2 = <<>> /\ Len(pe2) = 0 /\ bu2 \in Buffer
  /\ Len(ty) \in Nat /\ Len(pe) \in Nat /\ Len(pe) <= 1
  /\ ak \in {0, 1} /\ cn # "none" /\ (cn = "open" => ak = 0)
  /\ \/ pe = <<>> /\ Len(pe) = 0 /\ cn # "open" /\ bu2 = bu
     \/ /\ pe # <<>> /\ Len(pe) = 1 /\ Len(ty) >= 1
        /\ bu2.value = ty[Len(ty)]
        /\ bu2.len >= Width(ty[Len(ty)]) + 1 /\ bu2.len >= bu.len

LEMMA TakenFacts ==
  ASSUME NEW cn, NEW ak, NEW pe, NEW ty, NEW st \in {"op", "a", "b"},
         NEW bu, NEW ar, NEW sh, NEW pe2, NEW bu2,
         ValuesOK(cn, ak, pe, ty, st, bu, ar, sh),
         DialogOf(cn, ak, pe, ty, st, bu, ar, sh),
         HasTaken(cn, pe, bu, pe2, bu2)
  PROVE  TookLast(cn, ak, pe, ty, bu, pe2, bu2)
<1> USE DEF TookLast
<1>1. /\ ak \in Nat /\ pe \in Seq(Lines) /\ ty \in Seq(Lines) /\ bu \in Buffer
  BY DEF ValuesOK
<1>2. /\ Len(pe) \in Nat /\ Len(ty) \in Nat /\ Len(<<>>) = 0
      /\ (pe # <<>> => Len(pe) \in Nat \ {0})
  BY <1>1, LenProperties, EmptySeq
<1>3. /\ Len(pe) + ak <= 1 /\ cn # "none" /\ (cn = "open" => Len(pe) + ak = 1)
      /\ (pe # <<>> => Len(ty) >= 1 /\ pe[1] = ty[Len(ty)])
  BY DEF DialogOf
<1>4. CASE pe = <<>>
  <2>1. cn # "open" /\ pe2 = <<>> /\ bu2 = bu /\ Len(pe) = 0
    BY <1>2, <1>4 DEF HasTaken
  <2> QED
    BY <1>1, <1>2, <1>3, <1>4, <2>1
<1>5. CASE pe # <<>>
  <2>1. Len(pe) = 1 /\ ak = 0
    <3>1. ak \in Nat /\ Len(pe) \in Nat \ {0} /\ Len(pe) + ak <= 1
      BY <1>1, <1>2, <1>3, <1>5
    <3> QED
      BY <3>1
  <2>2. pe2 = Tail(pe) /\ bu2 = Overlay(bu, pe[1])
    BY <1>5 DEF HasTaken
  <2>3. Tail(pe) \in Seq(Lines) /\ Len(Tail(pe)) = 0
    BY <1>1, <1>5, <2>1, HeadTailProperties
  <2>4. pe2 = <<>>
    BY <2>2, <2>3, EmptySeq
  <2>5. pe[1] = ty[Len(ty)] /\ pe[1] \in Int /\ Len(ty) >= 1
    <3>1. pe[1] \in Lines
      BY <1>1, <2>1, ElementOfSeq, SMTT(30)
    <3> QED
      BY <1>3, <1>5, <3>1, CalcAssumption
  <2>6. Width(pe[1]) \in Nat
    BY <2>5, WidthIsNat
  <2>7. /\ bu2 \in Buffer /\ bu2.value = pe[1]
        /\ bu2.len >= Width(pe[1]) + 1 /\ bu2.len >= bu.len
    <3> DEFINE n == Width(pe[1]) + 1
    <3>1. bu2 = [value |-> pe[1], len |-> IF bu.len > n THEN bu.len ELSE n]
      BY <2>2 DEF Overlay
    <3>2. bu.len \in Nat /\ n \in Nat
      BY <1>1, <2>6 DEF Buffer
    <3> HIDE DEF n
    <3>3. bu2 \in Buffer /\ bu2.value = pe[1] /\ bu2.len >= n /\ bu2.len >= bu.len
      BY <2>5, <3>1, <3>2 DEF Buffer
    <3> QED
      BY <3>3 DEF n
  <2> QED
    BY <1>2, <1>3, <1>5, <2>1, <2>2, <2>3, <2>4, <2>5, <2>7
<1> QED
  BY <1>4, <1>5

LEMMA RefusalKeeps ==
  ASSUME NEW cn, NEW ak, NEW pe, NEW ty, NEW bu, NEW ar, NEW sh,
         NEW pe2, NEW bu2,
         ValuesOK(cn, ak, pe, ty, "op", bu, ar, sh),
         DialogOf(cn, ak, pe, ty, "op", bu, ar, sh),
         HasTaken(cn, pe, bu, pe2, bu2)
  PROVE  DialogOf(cn, ak, pe2, ty, "returned", bu2, ar, sh)
<1>1. TookLast(cn, ak, pe, ty, bu, pe2, bu2)
  BY TakenFacts
<1> USE DEF TookLast
<1>2. sh = NoResult /\ Len(ty) = Len(pe)
  BY DEF DialogOf
<1> QED
  BY <1>1, <1>2 DEF DialogOf

LEMMA OperationKeeps ==
  ASSUME NEW cn, NEW ak, NEW pe, NEW ty, NEW bu, NEW ar, NEW sh,
         NEW pe2, NEW bu2,
         NEW cn2, NEW ak2, NEW st2,
         ValuesOK(cn, ak, pe, ty, "op", bu, ar, sh),
         DialogOf(cn, ak, pe, ty, "op", bu, ar, sh),
         HasTaken(cn, pe, bu, pe2, bu2),
         bu2.value \in 1 .. 3, Wrote(cn, ak, cn2, ak2, st2, 1, "a")
  PROVE  DialogOf(cn2, ak2, pe2, ty, st2, bu2, [op |-> bu2.value, a |-> 0], sh)
<1> DEFINE ar2 == [op |-> bu2.value, a |-> 0]
<1>1. TookLast(cn, ak, pe, ty, bu, pe2, bu2)
  BY TakenFacts
<1> USE DEF TookLast
<1>2. sh = NoResult /\ Len(ty) = Len(pe)
  BY DEF DialogOf
<1>3. ar2.op = bu2.value
  OBVIOUS
<1> HIDE DEF ar2
<1>4. /\ Len(pe2) + ak2 <= 1 /\ cn2 # "none" /\ (cn2 = "open" => Len(pe2) + ak2 = 1)
      /\ st2 \in {"a", "died"} /\ (cn # "open" => cn2 \in {"closed", "broken"})
  BY <1>1 DEF Wrote
<1>5. \/ Gone(cn2, ty, 1)
      \/ Len(ty) = Len(pe2) + 1 /\ ar2.op = ty[1] /\ Fits(bu2, ty, 1)
  <2>1. CASE pe = <<>>
    BY <1>1, <1>2, <1>4, <2>1 DEF Gone
  <2>2. CASE pe # <<>>
    <3>1. Len(ty) = 1 /\ bu2.value = ty[1] /\ bu2.len >= Width(ty[1]) + 1
      BY <1>1, <1>2, <2>2
    <3>2. \A j \in 1 .. 1 : j = 1
      OBVIOUS
    <3>3. Fits(bu2, ty, 1)
      <4>1. bu2.len \in Nat /\ Width(ty[1]) \in Nat
        <5>1. ty[1] \in Int
          <6>1. ty \in Seq(Lines)
            BY DEF ValuesOK
          <6>2. 1 \in 1 .. Len(ty)
            BY <3>1
          <6>3. ty[1] \in Lines
            BY <6>1, <6>2, ElementOfSeq
          <6> QED
            BY <6>3, CalcAssumption
        <5>2. bu2 \in Buffer
          BY <1>1
        <5> QED
          BY <5>1, <5>2, WidthIsNat DEF Buffer
      <4> QED
        BY <3>1, <3>2, <4>1 DEF Fits
    <3> QED
      BY <1>1, <1>3, <3>1, <3>3
  <2> QED
    BY <2>1, <2>2
<1>6. DialogOf(cn2, ak2, pe2, ty, st2, bu2, ar2, sh)
  BY <1>1, <1>2, <1>3, <1>4, <1>5 DEF DialogOf
<1> QED
  BY <1>6 DEF ar2

LEMMA FirstKeeps ==
  ASSUME NEW cn, NEW ak, NEW pe, NEW ty, NEW bu, NEW ar, NEW sh,
         NEW pe2, NEW bu2, NEW cn2, NEW ak2, NEW st2,
         ValuesOK(cn, ak, pe, ty, "a", bu, ar, sh),
         DialogOf(cn, ak, pe, ty, "a", bu, ar, sh),
         HasTaken(cn, pe, bu, pe2, bu2),
         Wrote(cn, ak, cn2, ak2, st2, 1, "b")
  PROVE  DialogOf(cn2, ak2, pe2, ty, st2, bu2, [ar EXCEPT !.a = bu2.value], sh)
<1> DEFINE ar2 == [ar EXCEPT !.a = bu2.value]
<1>1. TookLast(cn, ak, pe, ty, bu, pe2, bu2)
  BY TakenFacts
<1> USE DEF TookLast
<1>2. sh = NoResult /\ ar.op \in 1 .. 3
  BY DEF DialogOf
<1>3. ar2.op = ar.op /\ ar2.a = bu2.value
  BY DEF ValuesOK
<1> HIDE DEF ar2
<1>4. /\ Len(pe2) + ak2 <= 1 /\ cn2 # "none" /\ (cn2 = "open" => Len(pe2) + ak2 = 1)
      /\ st2 \in {"b", "died"} /\ (cn # "open" => cn2 \in {"closed", "broken"})
  BY <1>1 DEF Wrote
<1>5. \/ Gone(cn, ty, 1)
      \/ Len(ty) = Len(pe) + 1 /\ ar.op = ty[1] /\ Fits(bu, ty, 1)
  BY DEF DialogOf
<1>6. \/ Gone(cn2, ty, 2)
      \/ /\ Len(ty) = Len(pe2) + 2 /\ Fits(bu2, ty, 2)
         /\ ar2.op = ty[1] /\ ar2.a = ty[2]
  <2>1. CASE Len(ty) < 2
    <3>1. cn # "open"
      BY <1>1, <1>5, <2>1 DEF Gone
    <3> QED
      BY <1>4, <2>1, <3>1 DEF Gone
  <2>2. CASE Len(ty) >= 2
    <3>0. Len(ty) = Len(pe) + 1 /\ ar.op = ty[1] /\ Fits(bu, ty, 1)
      BY <1>1, <1>5, <2>2 DEF Gone
    <3>1. Len(ty) = 2 /\ Len(pe) = 1 /\ ar.op = ty[1] /\ Fits(bu, ty, 1)
      <4>1. Len(ty) = Len(pe) + 1
        BY <3>0
      <4>2. CASE pe = <<>>
        <5>1. Len(pe) = 0
          BY <1>1, <4>2
        <5> QED
          BY <2>2, <4>1, <5>1
      <4>3. CASE pe # <<>>
        <5>1. Len(pe) = 1
          BY <1>1, <4>3
        <5> QED
          BY <3>0, <4>1, <5>1
      <4> QED
        BY <4>2, <4>3
    <3>2. bu2.value = ty[2] /\ bu2.len >= Width(ty[2]) + 1 /\ bu2.len >= bu.len
      BY <1>1, <3>1
    <3>3. Fits(bu2, ty, 2)
      <4> SUFFICES ASSUME NEW j \in 1 .. 2 PROVE Width(ty[j]) + 1 <= bu2.len
        BY DEF Fits
      <4>1. bu.len \in Nat /\ bu2.len \in Nat
        BY <1>1 DEF ValuesOK, Buffer
      <4>2. ty[1] \in Int /\ ty[2] \in Int
        <5>1. ty \in Seq(Lines)
          BY DEF ValuesOK
        <5>2. 1 \in 1 .. Len(ty) /\ 2 \in 1 .. Len(ty)
          BY <3>1
        <5>3. ty[1] \in Lines /\ ty[2] \in Lines
          BY <5>1, <5>2, ElementOfSeq
        <5> QED
          BY <5>3, CalcAssumption
      <4>3. Width(ty[1]) \in Nat /\ Width(ty[2]) \in Nat
        BY <4>2, WidthIsNat
      <4>4. Width(ty[1]) + 1 <= bu.len
        BY <3>1 DEF Fits
      <4>5. CASE j = 1
        BY <3>2, <4>1, <4>3, <4>4, <4>5
      <4>6. CASE j = 2
        BY <3>2, <4>1, <4>3, <4>6
      <4> QED
        BY <4>5, <4>6
    <3> QED
      BY <1>1, <1>3, <3>1, <3>2, <3>3
  <2> QED
    BY <1>1, <2>1, <2>2
<1>7. DialogOf(cn2, ak2, pe2, ty, st2, bu2, ar2, sh)
  BY <1>1, <1>2, <1>3, <1>4, <1>6 DEF DialogOf
<1> QED
  BY <1>7 DEF ar2

LEMMA DivisionKeeps ==
  ASSUME NEW cn, NEW ak, NEW pe, NEW ty, NEW bu, NEW ar, NEW sh,
         NEW pe2, NEW bu2,
         ValuesOK(cn, ak, pe, ty, "b", bu, ar, sh),
         DialogOf(cn, ak, pe, ty, "b", bu, ar, sh),
         HasTaken(cn, pe, bu, pe2, bu2)
  PROVE  DialogOf(cn, ak, pe2, ty, "died", bu2, ar, sh)
<1>1. TookLast(cn, ak, pe, ty, bu, pe2, bu2)
  BY TakenFacts
<1>2. sh = NoResult
  BY DEF DialogOf
<1> QED
  BY <1>1, <1>2 DEF DialogOf, TookLast

LEMMA ThirdLine ==
  ASSUME NEW all \in Nat, NEW waiting \in Nat,
         all = waiting + 2, all >= 3, waiting <= 1
  PROVE  waiting = 1 /\ all = 3
OBVIOUS

LEMMA SecondKeeps ==
  ASSUME NEW cn, NEW ak, NEW pe, NEW ty, NEW bu, NEW ar, NEW sh,
         NEW pe2, NEW bu2, NEW cn2, NEW ak2, NEW st2,
         ValuesOK(cn, ak, pe, ty, "b", bu, ar, sh),
         DialogOf(cn, ak, pe, ty, "b", bu, ar, sh),
         HasTaken(cn, pe, bu, pe2, bu2),
         NEW n \in Nat, Wrote(cn, ak, cn2, ak2, st2, n, "sent")
  PROVE  DialogOf(cn2, ak2, pe2, ty, st2, bu2, ar,
                  [value |-> Apply(ar.op, ar.a, bu2.value), room |-> bu2.len - 1])
<1> DEFINE sh2 == [value |-> Apply(ar.op, ar.a, bu2.value), room |-> bu2.len - 1]
<1>1. TookLast(cn, ak, pe, ty, bu, pe2, bu2)
  BY TakenFacts
<1> USE DEF TookLast
<1>2. sh2.value = Apply(ar.op, ar.a, bu2.value) /\ sh2.room = bu2.len - 1
  OBVIOUS
<1> HIDE DEF sh2
<1>3. /\ cn # "open" => Len(pe2) + ak2 <= 1 /\ cn2 \in {"closed", "broken"}
      /\ cn = "open" => cn2 = "open"
      /\ cn2 # "none" /\ st2 \in {"sent", "died"}
  BY <1>1 DEF Wrote
<1>4. \/ Gone(cn, ty, 2)
      \/ /\ Len(ty) = Len(pe) + 2 /\ Fits(bu, ty, 2)
         /\ ar.op = ty[1] /\ ar.a = ty[2]
  BY DEF DialogOf
<1>5. Gone(cn2, ty, 3) \/ Shows(sh2, ty)
  <2>1. CASE Len(ty) < 3
    <3>1. cn # "open"
      <4>1. CASE pe = <<>>
        BY <1>1, <4>1
      <4>2. CASE pe # <<>> /\ ~Gone(cn, ty, 2)
        <5>1. Len(ty) = Len(pe) + 2 /\ Len(pe) = 1
          BY <1>1, <1>4, <4>2
        <5> QED
          BY <2>1, <5>1
      <4>3. CASE Gone(cn, ty, 2)
        BY <4>3 DEF Gone
      <4> QED
        BY <4>1, <4>2, <4>3
    <3> QED
      BY <1>3, <2>1, <3>1 DEF Gone
  <2>2. CASE Len(ty) >= 3
    <3>1. /\ Len(ty) = Len(pe) + 2 /\ Fits(bu, ty, 2)
          /\ ar.op = ty[1] /\ ar.a = ty[2]
      BY <1>1, <1>4, <2>2 DEF Gone
    <3>2. Len(pe) <= 1 /\ Len(pe) \in Nat /\ Len(ty) \in Nat
      BY <1>1
    <3>3. Len(pe) = 1 /\ Len(ty) = 3
      <4>1. Len(ty) = Len(pe) + 2
        BY <3>1
      <4> QED
        BY <2>2, <3>2, <4>1, ThirdLine
    <3>4. bu2.value = ty[3] /\ bu2.len >= Width(ty[3]) + 1 /\ bu2.len >= bu.len
      BY <1>1, <3>3
    <3>5. bu.len \in Nat /\ bu2.len \in Nat
      BY <1>1 DEF ValuesOK, Buffer
    <3>6. \A j \in 1 .. 3 : Width(ty[j]) \in Nat
      <4> SUFFICES ASSUME NEW j \in 1 .. 3 PROVE Width(ty[j]) \in Nat
        OBVIOUS
      <4>1. ty \in Seq(Lines)
        BY DEF ValuesOK
      <4>2. j \in 1 .. Len(ty)
        BY <3>3
      <4>3. ty[j] \in Int
        BY <4>1, <4>2, ElementOfSeq, CalcAssumption
      <4> QED
        BY <4>3, WidthIsNat
    <3>7. \A j \in 1 .. 2 : Width(ty[j]) + 1 <= bu.len
      BY <3>1 DEF Fits
    <3>8. \A j \in 1 .. 3 : Width(ty[j]) <= sh2.room
      <4> SUFFICES ASSUME NEW j \in 1 .. 3 PROVE Width(ty[j]) <= sh2.room
        OBVIOUS
      <4>1. CASE j = 3
        BY <1>2, <3>4, <3>5, <3>6, <4>1
      <4>2. CASE j \in 1 .. 2
        BY <1>2, <3>4, <3>5, <3>6, <3>7, <4>2
      <4> QED
        BY <4>1, <4>2
    <3>9. sh2.value = Apply(ty[1], ty[2], ty[3])
      BY <1>2, <3>1, <3>4
    <3> QED
      BY <2>2, <3>8, <3>9 DEF Shows
  <2> QED
    BY <1>1, <2>1, <2>2
<1>6. sh2 = NoResult => Len(pe2) + ak2 <= 1
  <2>1. CASE cn # "open"
    BY <1>3, <2>1
  <2>2. CASE cn = "open"
    <3>1. bu2.len >= Width(ty[Len(ty)]) + 1 /\ pe # <<>> /\ Len(ty) >= 1
      BY <1>1, <2>2
    <3>2. Width(ty[Len(ty)]) \in Nat
      <4>1. ty \in Seq(Lines) /\ Len(ty) \in 1 .. Len(ty)
        BY <1>1, <3>1 DEF ValuesOK
      <4>2. ty[Len(ty)] \in Int
        BY <4>1, ElementOfSeq, CalcAssumption
      <4> QED
        BY <4>2, WidthIsNat
    <3>3. bu2.len \in Nat
      BY <1>1 DEF Buffer
    <3>4. sh2.room # -1
      BY <1>2, <3>1, <3>2, <3>3
    <3> QED
      BY <3>4 DEF NoResult
  <2> QED
    BY <2>1, <2>2
<1>7. DialogOf(cn2, ak2, pe2, ty, st2, bu2, ar, sh2)
  BY <1>1, <1>3, <1>5, <1>6 DEF DialogOf
<1> QED
  BY <1>7 DEF sh2

LEMMA NothingKeeps ==
  ASSUME NEW cn, NEW ak \in Nat, NEW pe, NEW ty, NEW bu, NEW ar, NEW sh,
         NEW cn2, NEW ak2, NEW st2,
         DialogOf(cn, ak, pe, ty, "sent", bu, ar, sh),
         Wrote(cn, ak, cn2, ak2, st2, 0, "returned")
  PROVE  DialogOf(cn2, ak2, pe, ty, st2, bu, ar, sh)
<1>1. /\ ak2 = ak /\ cn2 # "none" /\ st2 \in {"returned", "died"}
      /\ cn # "open" => cn2 \in {"closed", "broken"}
      /\ cn = "open" => cn2 = "open"
  BY DEF Wrote
<1>2. Gone(cn, ty, 3) => Gone(cn2, ty, 3)
  BY <1>1 DEF Gone
<1> QED
  BY <1>1, <1>2 DEF DialogOf

-----------------------------------------------------------------------------
(* The actions. *)

Values(c) == ValuesOK(conn[c], asked[c], pending[c], typed[c], stage[c],
                      buff[c], args[c], shown[c])

Only(c) ==
  \A d \in Clients : d # c =>
    /\ conn'[d] = conn[d] /\ asked'[d] = asked[d] /\ pending'[d] = pending[d]
    /\ typed'[d] = typed[d] /\ stage'[d] = stage[d] /\ buff'[d] = buff[d]
    /\ args'[d] = args[d] /\ shown'[d] = shown[d]

LEMMA CalcValues ==
  ASSUME CalcInv, NEW c \in Clients
  PROVE  Values(c) /\ Dialog(c)
<1>1. Dialog(c)
  BY DEF CalcInv
<1>2. Values(c)
  BY DEF CalcInv, CalcTypeOK, Values, ValuesOK
<1> QED
  BY <1>1, <1>2

LEMMA OneMoves ==
  ASSUME CalcInv, NEW c \in Clients, CalcTypeOK', Only(c), Dialog(c)'
  PROVE  CalcInv'
<1> SUFFICES ASSUME NEW d \in Clients PROVE Dialog(d)'
  BY DEF CalcInv
<1>1. CASE d = c
  BY <1>1
<1>2. CASE d # c
  BY <1>2 DEF Only, Dialog, CalcInv
<1> QED
  BY <1>1, <1>2

\* A user types, leaves or dies.
LEMMA UserKeeps ==
  ASSUME CalcInv, NEW c \in Clients, User(c) PROVE CalcInv'
<1>1. Values(c) /\ Dialog(c) /\ CalcTypeOK
  BY CalcValues DEF CalcInv
<1>2. ASSUME NEW line \in Lines, Answer(c, line), shown[c] = NoResult PROVE CalcInv'
  <2>1. Append(pending[c], line) \in Seq(Lines) /\ Append(typed[c], line) \in Seq(Lines)
    BY <1>1, AppendProperties DEF Values, ValuesOK
  <2>2. asked[c] \in Nat /\ asked[c] > 0 /\ conn[c] = "open"
    BY <1>1, <1>2 DEF Answer, CalcTypeOK
  <2>3. /\ asked' = [asked EXCEPT ![c] = asked[c] - 1]
        /\ pending' = [pending EXCEPT ![c] = Append(pending[c], line)]
        /\ typed' = [typed EXCEPT ![c] = Append(typed[c], line)]
        /\ UNCHANGED <<conn, stage, buff, args, shown>>
    BY <1>1, <1>2 DEF Answer, CalcTypeOK, stuffVars
  <2>4. CalcTypeOK'
    BY <1>1, <2>1, <2>2, <2>3 DEF CalcTypeOK
  <2>5. Only(c)
    BY <1>1, <2>3 DEF CalcTypeOK, Only
  <2>6. DialogOf(conn[c], asked[c] - 1, Append(pending[c], line), Append(typed[c], line),
                 stage[c], buff[c], args[c], shown[c])
    BY <1>1, <1>2, <2>2, TypedKeeps DEF Values, Dialog
  <2>7. Dialog(c)'
    BY <1>1, <2>3, <2>6 DEF Dialog, CalcTypeOK
  <2> QED
    BY <2>4, <2>5, <2>7, OneMoves
<1>4. ASSUME NEW line \in Lines, Answer(c, line), shown[c] # NoResult PROVE CalcInv'
  <2>1. asked[c] \in Nat /\ asked[c] > 0
    BY <1>1, <1>4 DEF Answer, CalcTypeOK
  <2>2. /\ asked' = [asked EXCEPT ![c] = asked[c] - 1]
        /\ UNCHANGED <<conn, pending, typed, stage, buff, args, shown>>
    BY <1>1, <1>4 DEF Answer, CalcTypeOK, stuffVars
  <2>3. CalcTypeOK'
    BY <1>1, <2>1, <2>2 DEF CalcTypeOK
  <2>4. Only(c)
    BY <1>1, <2>2 DEF CalcTypeOK, Only
  <2>5. DialogOf(conn[c], asked[c] - 1, pending[c], typed[c],
                 stage[c], buff[c], args[c], shown[c])
    BY <1>1, <1>4, UnreadKeeps DEF Dialog
  <2>6. Dialog(c)'
    BY <1>1, <2>2, <2>5 DEF Dialog, CalcTypeOK
  <2> QED
    BY <2>3, <2>4, <2>6, OneMoves
<1>3. CASE Quit(c) \/ Crash(c)
  <2>1. PICK cn2 \in {"closed", "broken"} : conn' = [conn EXCEPT ![c] = cn2]
    BY <1>3 DEF Quit, Crash
  <2>2. conn[c] = "open" /\ UNCHANGED <<asked, pending, typed, stuffVars>>
    BY <1>3 DEF Quit, Crash
  <2>3. CalcTypeOK'
    BY <1>1, <2>1, <2>2 DEF CalcTypeOK, stuffVars, ConnState
  <2>4. Only(c)
    BY <1>1, <2>1, <2>2 DEF CalcTypeOK, stuffVars, Only
  <2>5. DialogOf(cn2, asked[c], pending[c], typed[c], stage[c], buff[c], args[c], shown[c])
    BY <1>1, <2>2, LeavingKeeps DEF Dialog
  <2>6. Dialog(c)'
    BY <1>1, <2>1, <2>2, <2>5 DEF Dialog, CalcTypeOK, stuffVars
  <2> QED
    BY <2>3, <2>4, <2>6, OneMoves
<1> QED
  BY <1>2, <1>3, <1>4 DEF User

LEMMA ReadEffect ==
  ASSUME CalcInv, NEW c \in Clients, Read(c)
  PROVE  /\ HasTaken(conn[c], pending[c], buff[c], pending'[c], buff'[c])
         /\ pending' = [pending EXCEPT ![c] = pending'[c]]
         /\ buff' = [buff EXCEPT ![c] = buff'[c]]
<1>1. pending \in [Clients -> Seq(Lines)] /\ buff \in [Clients -> Buffer]
  BY DEF CalcInv, CalcTypeOK
<1>2. /\ pending'[c] = IF pending[c] = <<>> THEN pending[c] ELSE Tail(pending[c])
      /\ buff'[c] = IF pending[c] = <<>> THEN buff[c]
                    ELSE Overlay(buff[c], Head(pending[c]))
      /\ pending[c] # <<>> \/ conn[c] # "open"
  BY <1>1 DEF Read, Readable
<1>3. /\ pending' = [pending EXCEPT ![c] = pending'[c]]
      /\ buff' = [buff EXCEPT ![c] = buff'[c]]
  BY <1>1 DEF Read
<1>4. pending[c] # <<>> => Head(pending[c]) = pending[c][1]
  BY <1>1
<1> QED
  BY <1>2, <1>3, <1>4 DEF HasTaken

LEMMA WriteEffect ==
  ASSUME CalcInv, NEW c \in Clients, NEW next \in Stage, NEW n \in Nat,
         Write(c, n, next)
  PROVE  /\ Wrote(conn[c], asked[c], conn'[c], asked'[c], stage'[c], n, next)
         /\ conn' = [conn EXCEPT ![c] = conn'[c]]
         /\ asked' = [asked EXCEPT ![c] = asked'[c]]
         /\ stage' = [stage EXCEPT ![c] = stage'[c]]
         /\ conn'[c] \in ConnState /\ asked'[c] \in Nat /\ stage'[c] \in Stage
<1>1. /\ conn \in [Clients -> ConnState] /\ asked \in [Clients -> Nat]
      /\ stage \in [Clients -> Stage]
  BY DEF CalcInv, CalcTypeOK
<1>2. CASE conn[c] = "open"
  BY <1>1, <1>2 DEF Write, Wrote, ConnState
<1>3. CASE conn[c] = "closed"
  BY <1>1, <1>3 DEF Write, Wrote, ConnState
<1>4. CASE conn[c] = "broken"
  BY <1>1, <1>4 DEF Write, Wrote, ConnState, Stage
<1> QED
  BY <1>2, <1>3, <1>4 DEF Write

LEMMA GreetKeepsInv ==
  ASSUME CalcInv, NEW c \in Clients, Greet(c) PROVE CalcInv'
<1>1. Values(c) /\ Dialog(c) /\ CalcTypeOK
  BY CalcValues DEF CalcInv
<1>2. stage[c] = "menu" /\ Write(c, 1, "op") /\ UNCHANGED <<pending, typed, args, shown>>
  BY DEF Greet
<1>3. PICK g \in Garbage : buff' = [buff EXCEPT ![c] = g]
  BY DEF Greet
<1>4. g \in Buffer
  BY CalcAssumption DEF Buffer
<1>5. /\ Wrote(conn[c], asked[c], conn'[c], asked'[c], stage'[c], 1, "op")
      /\ conn' = [conn EXCEPT ![c] = conn'[c]]
      /\ asked' = [asked EXCEPT ![c] = asked'[c]]
      /\ stage' = [stage EXCEPT ![c] = stage'[c]]
      /\ conn'[c] \in ConnState /\ asked'[c] \in Nat /\ stage'[c] \in Stage
  BY <1>2, WriteEffect DEF Stage
<1>6. CalcTypeOK'
  BY <1>1, <1>2, <1>3, <1>4, <1>5 DEF CalcTypeOK
<1>7. Only(c)
  BY <1>1, <1>2, <1>3, <1>5 DEF CalcTypeOK, Only
<1>8. DialogOf(conn'[c], asked'[c], pending[c], typed[c], stage'[c], g, args[c], shown[c])
  BY <1>1, <1>2, <1>5, GreetKeeps DEF Values, Dialog
<1>9. Dialog(c)'
  BY <1>1, <1>2, <1>3, <1>8 DEF Dialog, CalcTypeOK
<1> QED
  BY <1>6, <1>7, <1>9, OneMoves

LEMMA ReadOperationKeepsInv ==
  ASSUME CalcInv, NEW c \in Clients, ReadOperation(c) PROVE CalcInv'
<1>1. Values(c) /\ Dialog(c) /\ CalcTypeOK
  BY CalcValues DEF CalcInv
<1>2. stage[c] = "op" /\ Read(c) /\ UNCHANGED <<typed, shown>>
  BY DEF ReadOperation
<1>3. /\ HasTaken(conn[c], pending[c], buff[c], pending'[c], buff'[c])
      /\ pending' = [pending EXCEPT ![c] = pending'[c]]
      /\ buff' = [buff EXCEPT ![c] = buff'[c]]
  BY <1>2, ReadEffect
<1>4. TookLast(conn[c], asked[c], pending[c], typed[c], buff[c], pending'[c], buff'[c])
  BY <1>1, <1>2, <1>3, TakenFacts DEF Values, Dialog
<1>5. pending'[c] \in Seq(Lines) /\ buff'[c] \in Buffer
  BY <1>4, EmptySeq DEF TookLast
<1>6. CASE buff'[c].value \in 1 .. 3
  <2>1. /\ Write(c, 1, "a")
        /\ args' = [args EXCEPT ![c] = [op |-> buff'[c].value, a |-> 0]]
    BY <1>6 DEF ReadOperation
  <2>2. /\ Wrote(conn[c], asked[c], conn'[c], asked'[c], stage'[c], 1, "a")
        /\ conn' = [conn EXCEPT ![c] = conn'[c]]
        /\ asked' = [asked EXCEPT ![c] = asked'[c]]
        /\ stage' = [stage EXCEPT ![c] = stage'[c]]
        /\ conn'[c] \in ConnState /\ asked'[c] \in Nat /\ stage'[c] \in Stage
    BY <2>1, WriteEffect DEF Stage
  <2>3. [op |-> buff'[c].value, a |-> 0] \in [op : 0 .. 3, a : Int]
    BY <1>6
  <2>4. CalcTypeOK'
    BY <1>1, <1>2, <1>3, <1>5, <2>1, <2>2, <2>3 DEF CalcTypeOK
  <2>5. Only(c)
    BY <1>1, <1>2, <1>3, <2>1, <2>2 DEF CalcTypeOK, Only
  <2>6. DialogOf(conn'[c], asked'[c], pending'[c], typed[c], stage'[c], buff'[c],
                 [op |-> buff'[c].value, a |-> 0], shown[c])
    BY <1>1, <1>2, <1>3, <1>6, <2>2, OperationKeeps DEF Values, Dialog
  <2>7. Dialog(c)'
    BY <1>1, <1>2, <2>1, <2>6 DEF Dialog, CalcTypeOK
  <2> QED
    BY <2>4, <2>5, <2>7, OneMoves
<1>7. CASE buff'[c].value \notin 1 .. 3
  <2>1. stage' = [stage EXCEPT ![c] = "returned"] /\ UNCHANGED <<args, conn, asked>>
    BY <1>7 DEF ReadOperation
  <2>2. CalcTypeOK'
    BY <1>1, <1>2, <1>3, <1>5, <2>1 DEF CalcTypeOK, Stage
  <2>3. Only(c)
    BY <1>1, <1>2, <1>3, <2>1 DEF CalcTypeOK, Only
  <2>4. DialogOf(conn[c], asked[c], pending'[c], typed[c], "returned", buff'[c],
                 args[c], shown[c])
    BY <1>1, <1>2, <1>3, RefusalKeeps DEF Values, Dialog
  <2>5. Dialog(c)'
    BY <1>1, <1>2, <2>1, <2>4 DEF Dialog, CalcTypeOK
  <2> QED
    BY <2>2, <2>3, <2>5, OneMoves
<1> QED
  BY <1>6, <1>7

LEMMA ReadFirstKeepsInv ==
  ASSUME CalcInv, NEW c \in Clients, ReadFirst(c) PROVE CalcInv'
<1>1. Values(c) /\ Dialog(c) /\ CalcTypeOK
  BY CalcValues DEF CalcInv
<1>2. /\ stage[c] = "a" /\ Read(c) /\ Write(c, 1, "b") /\ UNCHANGED <<typed, shown>>
      /\ args' = [args EXCEPT ![c].a = buff'[c].value]
  BY DEF ReadFirst
<1>3. /\ HasTaken(conn[c], pending[c], buff[c], pending'[c], buff'[c])
      /\ pending' = [pending EXCEPT ![c] = pending'[c]]
      /\ buff' = [buff EXCEPT ![c] = buff'[c]]
  BY <1>2, ReadEffect
<1>4. TookLast(conn[c], asked[c], pending[c], typed[c], buff[c], pending'[c], buff'[c])
  BY <1>1, <1>2, <1>3, TakenFacts DEF Values, Dialog
<1>5. pending'[c] \in Seq(Lines) /\ buff'[c] \in Buffer
  BY <1>4, EmptySeq DEF TookLast
<1>6. /\ Wrote(conn[c], asked[c], conn'[c], asked'[c], stage'[c], 1, "b")
      /\ conn' = [conn EXCEPT ![c] = conn'[c]]
      /\ asked' = [asked EXCEPT ![c] = asked'[c]]
      /\ stage' = [stage EXCEPT ![c] = stage'[c]]
      /\ conn'[c] \in ConnState /\ asked'[c] \in Nat /\ stage'[c] \in Stage
  BY <1>2, WriteEffect DEF Stage
<1>7. args' = [args EXCEPT ![c] = [args[c] EXCEPT !.a = buff'[c].value]]
  BY <1>1, <1>2 DEF CalcTypeOK
<1>8. [args[c] EXCEPT !.a = buff'[c].value] \in [op : 0 .. 3, a : Int]
  BY <1>1, <1>5 DEF CalcTypeOK, Buffer
<1>9. CalcTypeOK'
  <2>1. UNCHANGED <<typed, shown>>
    BY <1>2
  <2> QED
    BY <1>1, <1>3, <1>5, <1>6, <1>7, <1>8, <2>1 DEF CalcTypeOK
<1>10. Only(c)
  BY <1>1, <1>2, <1>3, <1>6, <1>7 DEF CalcTypeOK, Only
<1>11. DialogOf(conn'[c], asked'[c], pending'[c], typed[c], stage'[c], buff'[c],
                [args[c] EXCEPT !.a = buff'[c].value], shown[c])
  BY <1>1, <1>2, <1>3, <1>6, FirstKeeps DEF Values, Dialog
<1>12. Dialog(c)'
  BY <1>1, <1>2, <1>7, <1>11 DEF Dialog, CalcTypeOK
<1> QED
  BY <1>9, <1>10, <1>12, OneMoves

LEMMA ReadSecondKeepsInv ==
  ASSUME CalcInv, NEW c \in Clients, ReadSecond(c) PROVE CalcInv'
<1>1. Values(c) /\ Dialog(c) /\ CalcTypeOK
  BY CalcValues DEF CalcInv
<1>2. stage[c] = "b" /\ Read(c) /\ UNCHANGED <<typed, args>>
  BY DEF ReadSecond
<1>3. /\ HasTaken(conn[c], pending[c], buff[c], pending'[c], buff'[c])
      /\ pending' = [pending EXCEPT ![c] = pending'[c]]
      /\ buff' = [buff EXCEPT ![c] = buff'[c]]
  BY <1>2, ReadEffect
<1>4. TookLast(conn[c], asked[c], pending[c], typed[c], buff[c], pending'[c], buff'[c])
  BY <1>1, <1>2, <1>3, TakenFacts DEF Values, Dialog
<1>5. pending'[c] \in Seq(Lines) /\ buff'[c] \in Buffer
  BY <1>4, EmptySeq DEF TookLast
<1>6. CASE args[c].op = 3 /\ buff'[c].value = 0
  <2>1. stage' = [stage EXCEPT ![c] = "died"] /\ UNCHANGED <<shown, conn, asked>>
    BY <1>6 DEF ReadSecond
  <2>2. CalcTypeOK'
    BY <1>1, <1>2, <1>3, <1>5, <2>1 DEF CalcTypeOK, Stage
  <2>3. Only(c)
    BY <1>1, <1>2, <1>3, <2>1 DEF CalcTypeOK, Only
  <2>4. DialogOf(conn[c], asked[c], pending'[c], typed[c], "died", buff'[c],
                 args[c], shown[c])
    BY <1>1, <1>2, <1>3, DivisionKeeps DEF Values, Dialog
  <2>5. Dialog(c)'
    BY <1>1, <1>2, <2>1, <2>4 DEF Dialog, CalcTypeOK
  <2> QED
    BY <2>2, <2>3, <2>5, OneMoves
<1>7. CASE ~(args[c].op = 3 /\ buff'[c].value = 0)
  <2> DEFINE sh2 == [value |-> Apply(args[c].op, args[c].a, buff'[c].value),
                     room  |-> buff'[c].len - 1]
  <2>0. shown' = [shown EXCEPT ![c] = sh2] /\ \E n \in Pieces : Write(c, n, "sent")
    BY <1>7 DEF ReadSecond
  <2>1. PICK n \in Nat : shown' = [shown EXCEPT ![c] = sh2] /\ Write(c, n, "sent")
    BY <2>0, CalcAssumption
  <2>2. /\ Wrote(conn[c], asked[c], conn'[c], asked'[c], stage'[c], n, "sent")
        /\ conn' = [conn EXCEPT ![c] = conn'[c]]
        /\ asked' = [asked EXCEPT ![c] = asked'[c]]
        /\ stage' = [stage EXCEPT ![c] = stage'[c]]
        /\ conn'[c] \in ConnState /\ asked'[c] \in Nat /\ stage'[c] \in Stage
    BY <2>1, WriteEffect DEF Stage
  <2>3. sh2 \in [value : Int, room : Int]
    <3>1. args[c].op \in 1 .. 3 /\ args[c].a \in Int
      BY <1>1, <1>2 DEF Dialog, DialogOf, CalcTypeOK
    <3>2. buff'[c].value \in Int /\ buff'[c].len \in Nat
      BY <1>5 DEF Buffer
    <3>3. Apply(args[c].op, args[c].a, buff'[c].value) \in Int
      BY <1>7, <3>1, <3>2, ApplyIsInt
    <3> QED
      BY <3>2, <3>3
  <2>4. DialogOf(conn'[c], asked'[c], pending'[c], typed[c], stage'[c], buff'[c],
                 args[c], sh2)
    BY <1>1, <1>2, <1>3, <2>2, SecondKeeps DEF Values, Dialog
  <2> HIDE DEF sh2
  <2>5. CalcTypeOK'
    BY <1>1, <1>2, <1>3, <1>5, <2>1, <2>2, <2>3 DEF CalcTypeOK
  <2>6. Only(c)
    BY <1>1, <1>2, <1>3, <2>1, <2>2 DEF CalcTypeOK, Only
  <2>7. Dialog(c)'
    BY <1>1, <1>2, <2>1, <2>4 DEF Dialog, CalcTypeOK
  <2> QED
    BY <2>5, <2>6, <2>7, OneMoves
<1> QED
  BY <1>6, <1>7

LEMMA WriteNothingKeepsInv ==
  ASSUME CalcInv, NEW c \in Clients, WriteNothing(c) PROVE CalcInv'
<1>1. Values(c) /\ Dialog(c) /\ CalcTypeOK
  BY CalcValues DEF CalcInv
<1>2. /\ stage[c] = "sent" /\ Write(c, 0, "returned")
      /\ UNCHANGED <<pending, typed, buff, args, shown>>
  BY DEF WriteNothing
<1>3. /\ Wrote(conn[c], asked[c], conn'[c], asked'[c], stage'[c], 0, "returned")
      /\ conn' = [conn EXCEPT ![c] = conn'[c]]
      /\ asked' = [asked EXCEPT ![c] = asked'[c]]
      /\ stage' = [stage EXCEPT ![c] = stage'[c]]
      /\ conn'[c] \in ConnState /\ asked'[c] \in Nat /\ stage'[c] \in Stage
  BY <1>2, WriteEffect DEF Stage
<1>4. CalcTypeOK'
  BY <1>1, <1>2, <1>3 DEF CalcTypeOK
<1>5. Only(c)
  BY <1>1, <1>2, <1>3 DEF CalcTypeOK, Only
<1>6. asked[c] \in Nat
  BY <1>1 DEF CalcTypeOK
<1>7. DialogOf(conn'[c], asked'[c], pending[c], typed[c], stage'[c], buff[c],
               args[c], shown[c])
  BY <1>1, <1>2, <1>3, <1>6, NothingKeeps DEF Dialog
<1>8. Dialog(c)'
  BY <1>1, <1>2, <1>7 DEF Dialog, CalcTypeOK
<1> QED
  BY <1>4, <1>5, <1>8, OneMoves

LEMMA ReadFailsKeepsInv ==
  ASSUME CalcInv, NEW c \in Clients, ReadFails(c) PROVE CalcInv'
<1>1. Dialog(c) /\ CalcTypeOK
  BY DEF CalcInv
<1>2. /\ stage[c] \in {"op", "a", "b"} /\ conn[c] = "broken" /\ pending[c] = <<>>
      /\ stage' = [stage EXCEPT ![c] = "died"]
      /\ UNCHANGED <<conn, asked, pending, typed, buff, args, shown>>
  BY DEF ReadFails, clientVars
<1>3. CalcTypeOK'
  BY <1>1, <1>2 DEF CalcTypeOK, Stage
<1>4. Only(c)
  BY <1>1, <1>2 DEF CalcTypeOK, Only
<1>5. DialogOf(conn[c], asked[c], pending[c], typed[c], "died", buff[c], args[c], shown[c])
  BY <1>1, <1>2 DEF Dialog, DialogOf
<1>6. Dialog(c)'
  BY <1>1, <1>2, <1>5 DEF Dialog, CalcTypeOK
<1> QED
  BY <1>3, <1>4, <1>6, OneMoves

\* Every step of dostuff keeps every dialogue what it should be.
LEMMA DoStuffKeeps ==
  ASSUME CalcInv, NEW c \in Clients, DoStuff(c) PROVE CalcInv'
BY GreetKeepsInv, ReadOperationKeepsInv, ReadFirstKeepsInv, ReadSecondKeepsInv,
   WriteNothingKeepsInv, ReadFailsKeepsInv DEF DoStuff

\* A server that accepts, closes or forks changes connections and stages only.
LEMMA ServerKeeps ==
  ASSUME CalcInv, UNCHANGED <<asked, pending, typed, buff, args, shown>>,
         conn' \in [Clients -> ConnState], stage' \in [Clients -> Stage],
         \A c \in Clients :
           \/ conn'[c] = conn[c] /\ stage'[c] = stage[c]
           \/ conn[c] = "none" /\ conn'[c] = "open" /\ stage'[c] = stage[c]
           \/ conn[c] # "none" /\ conn'[c] = "over" /\ stage'[c] = stage[c]
           \/ /\ conn[c] # "none" /\ conn'[c] = conn[c]
              /\ stage[c] = "none" /\ stage'[c] = "menu"
  PROVE  CalcInv'
<1>1. CalcTypeOK /\ \A c \in Clients : Dialog(c)
  BY DEF CalcInv
<1>2. CalcTypeOK'
  BY <1>1 DEF CalcTypeOK
<1>3. ASSUME NEW c \in Clients PROVE Dialog(c)'
  <2>1. CASE conn'[c] = conn[c] /\ stage'[c] = stage[c]
    BY <1>1, <2>1 DEF Dialog
  <2>2. CASE conn[c] = "none" /\ conn'[c] = "open" /\ stage'[c] = stage[c]
    BY <1>1, <2>2 DEF Dialog, DialogOf, Gone
  <2>3. CASE conn[c] # "none" /\ conn'[c] = "over" /\ stage'[c] = stage[c]
    BY <1>1, <2>3 DEF Dialog, DialogOf, Gone
  <2>4. CASE /\ conn[c] # "none" /\ conn'[c] = conn[c]
             /\ stage[c] = "none" /\ stage'[c] = "menu"
    BY <1>1, <2>4 DEF Dialog, DialogOf, Gone
  <2> QED
    BY <2>1, <2>2, <2>3, <2>4
<1> QED
  BY <1>2, <1>3 DEF CalcInv

LEMMA CalcInvStart == ASSUME CalcInit PROVE CalcInv
<1>1. CalcTypeOK
  BY EmptySeq DEF CalcInit, CalcTypeOK, ConnState, Stage, Buffer, NoResult
<1>2. ASSUME NEW c \in Clients PROVE Dialog(c)
  BY EmptySeq DEF CalcInit, Dialog, DialogOf, Gone, NoResult
<1> QED
  BY <1>1, <1>2 DEF CalcInv

-----------------------------------------------------------------------------
(* The servers. *)

Queued(c) == \E k \in 1 .. Len(backlog) : backlog[k] = c

Live == {"open", "closed", "broken"}

-----------------------------------------------------------------------------
(* The backlog. *)

EachOnce == \A j, k \in 1 .. Len(backlog) : backlog[j] = backlog[k] => j = k

LEMMA Arrives ==
  ASSUME backlog \in Seq(Clients), EachOnce, NEW c \in Clients, ~Queued(c),
         backlog' = Append(backlog, c)
  PROVE  /\ backlog' \in Seq(Clients) /\ EachOnce'
         /\ \A d : Queued(d)' <=> Queued(d) \/ d = c
<1>1. /\ backlog' \in Seq(Clients) /\ Len(backlog) \in Nat
      /\ Len(backlog') = Len(backlog) + 1 /\ backlog'[Len(backlog) + 1] = c
      /\ \A k \in 1 .. Len(backlog) : backlog'[k] = backlog[k]
  BY AppendProperties, LenProperties
<1>2. \A k \in 1 .. Len(backlog') : k = Len(backlog) + 1 \/ k \in 1 .. Len(backlog)
  BY <1>1
<1>3. Len(backlog) + 1 \in 1 .. Len(backlog')
      /\ \A k \in 1 .. Len(backlog) : k \in 1 .. Len(backlog')
  BY <1>1
<1>4. ASSUME NEW d PROVE Queued(d)' <=> Queued(d) \/ d = c
  BY <1>1, <1>2, <1>3 DEF Queued
<1>5. ASSUME NEW j \in 1 .. Len(backlog'), NEW k \in 1 .. Len(backlog'),
             backlog'[j] = backlog'[k]
      PROVE  j = k
  BY <1>1, <1>2, <1>5 DEF EachOnce, Queued
<1> QED
  BY <1>1, <1>4, <1>5 DEF EachOnce

LEMMA Accepted ==
  ASSUME backlog \in Seq(Clients), EachOnce, backlog # <<>>,
         backlog' = Tail(backlog)
  PROVE  /\ backlog' \in Seq(Clients) /\ EachOnce'
         /\ Head(backlog) \in Clients /\ Queued(Head(backlog))
         /\ \A d : Queued(d)' <=> Queued(d) /\ d # Head(backlog)
<1>1. /\ backlog' \in Seq(Clients) /\ Len(backlog) \in Nat \ {0}
      /\ Len(backlog') = Len(backlog) - 1
      /\ \A k \in 1 .. Len(backlog') : backlog'[k] = backlog[k + 1]
      /\ Head(backlog) \in Clients
  BY HeadTailProperties, EmptySeq
<1>2. Head(backlog) = backlog[1] /\ 1 \in 1 .. Len(backlog)
  BY <1>1
<1>3. \A k \in 1 .. Len(backlog') : k + 1 \in 1 .. Len(backlog) /\ k + 1 # 1
  BY <1>1
<1>4. \A k \in 1 .. Len(backlog) :
        k = 1 \/ (k - 1 \in 1 .. Len(backlog') /\ backlog'[k - 1] = backlog[k])
  BY <1>1
<1>5. ASSUME NEW d PROVE Queued(d)' <=> Queued(d) /\ d # Head(backlog)
  <2>1. ASSUME Queued(d)' PROVE Queued(d) /\ d # Head(backlog)
    <3>1. PICK k \in 1 .. Len(backlog') : backlog'[k] = d
      BY <2>1 DEF Queued
    <3>2. k + 1 \in 1 .. Len(backlog) /\ k + 1 # 1 /\ backlog[k + 1] = d
      BY <1>1, <1>3, <3>1
    <3> QED
      BY <1>2, <3>2 DEF Queued, EachOnce
  <2>2. ASSUME Queued(d), d # Head(backlog) PROVE Queued(d)'
    <3>1. PICK k \in 1 .. Len(backlog) : backlog[k] = d
      BY <2>2 DEF Queued
    <3>2. k - 1 \in 1 .. Len(backlog') /\ backlog'[k - 1] = d
      BY <1>2, <1>4, <2>2, <3>1
    <3> QED
      BY <3>2 DEF Queued
  <2> QED
    BY <2>1, <2>2
<1>6. ASSUME NEW j \in 1 .. Len(backlog'), NEW k \in 1 .. Len(backlog'),
             backlog'[j] = backlog'[k]
      PROVE  j = k
  <2>1. j + 1 = k + 1
    BY <1>1, <1>3, <1>6 DEF EachOnce
  <2> QED
    BY <2>1
<1> QED
  BY <1>1, <1>2, <1>5, <1>6 DEF EachOnce, Queued

-----------------------------------------------------------------------------
(* What a dialogue does to a connection. *)

\* A user's step leaves its connection live.
LEMMA UserEffect ==
  ASSUME CalcInv, NEW c \in Clients, User(c)
  PROVE  /\ \A d \in Clients : d # c => conn'[d] = conn[d]
         /\ stage' = stage /\ conn[c] = "open" /\ conn'[c] \in Live
<1>1. conn \in [Clients -> ConnState]
  BY DEF CalcInv, CalcTypeOK
<1>2. ASSUME NEW line \in Lines, Answer(c, line)
      PROVE  conn' = conn /\ stage' = stage /\ conn[c] = "open"
  BY <1>2 DEF Answer, stuffVars
<1>3. CASE \E line \in Lines : Answer(c, line)
  BY <1>2, <1>3 DEF Live
<1>4. CASE Quit(c)
  BY <1>1, <1>4 DEF Quit, stuffVars, Live
<1>5. CASE Crash(c)
  BY <1>1, <1>5 DEF Crash, stuffVars, Live
<1> QED
  BY <1>3, <1>4, <1>5 DEF User

\* A step of dostuff, too, and dostuff has begun.
Goes(c) ==
  /\ \A d \in Clients : d # c => conn'[d] = conn[d] /\ stage'[d] = stage[d]
  /\ stage[c] # "none" /\ stage'[c] # "none" /\ conn'[c] \in Live

LEMMA DoStuffEffect ==
  ASSUME CalcInv, NEW c \in Clients, DoStuff(c), conn[c] \in Live
  PROVE  Goes(c)
<1>1. conn \in [Clients -> ConnState] /\ stage \in [Clients -> Stage]
  BY DEF CalcInv, CalcTypeOK
<1>2. ASSUME NEW next \in {"op", "a", "b", "sent", "returned"}, NEW n, Write(c, n, next),
             stage[c] # "none"
      PROVE  Goes(c)
  BY <1>1, <1>2 DEF Write, Live, Goes
<1>3. ASSUME NEW next \in {"returned", "died"}, stage' = [stage EXCEPT ![c] = next],
             conn' = conn, stage[c] # "none"
      PROVE  Goes(c)
  BY <1>1, <1>3 DEF Goes
<1>4. CASE Greet(c)
  <2>1. stage[c] # "none" /\ Write(c, 1, "op")
    BY <1>4 DEF Greet
  <2> QED
    BY <1>2, <2>1
<1>5. CASE ReadOperation(c)
  <2>1. /\ stage[c] # "none"
        /\ Write(c, 1, "a") \/ (stage' = [stage EXCEPT ![c] = "returned"] /\ conn' = conn)
    BY <1>5 DEF ReadOperation
  <2> QED
    BY <1>2, <1>3, <2>1
<1>6. CASE ReadFirst(c)
  <2>1. stage[c] # "none" /\ Write(c, 1, "b")
    BY <1>6 DEF ReadFirst
  <2> QED
    BY <1>2, <2>1
<1>7. CASE ReadSecond(c)
  <2>1. /\ stage[c] # "none"
        /\ (\E n \in Pieces : Write(c, n, "sent"))
           \/ (stage' = [stage EXCEPT ![c] = "died"] /\ conn' = conn)
    BY <1>7 DEF ReadSecond
  <2> QED
    BY <1>2, <1>3, <2>1
<1>8. CASE ReadFails(c)
  <2>1. stage[c] # "none" /\ stage' = [stage EXCEPT ![c] = "died"] /\ conn' = conn
    BY <1>8 DEF ReadFails, clientVars
  <2> QED
    BY <1>3, <2>1
<1>9. CASE WriteNothing(c)
  <2>1. stage[c] # "none" /\ Write(c, 0, "returned")
    BY <1>9 DEF WriteNothing
  <2> QED
    BY <1>2, <2>1
<1> QED
  BY <1>4, <1>5, <1>6, <1>7, <1>8, <1>9 DEF DoStuff

-----------------------------------------------------------------------------
(* The forking server. *)

Held(c) ==
  /\ conn[c] = "none" => childOf[c] = "none" /\ stage[c] = "none"
  /\ childOf[c] = "runs" <=> stage[c] # "none" /\ conn[c] # "over"
  /\ childOf[c] = "zombie" => conn[c] = "over"
  /\ conn[c] \in Live => childOf[c] = "runs" \/ c \in new \/ Queued(c)
  /\ c \in new \/ Queued(c)
       => conn[c] \in Live /\ childOf[c] = "none" /\ stage[c] = "none"
  /\ childOf[c] = "runs" => copy[c] >= 1

Places ==
  /\ \A c, d \in new : c = d
  /\ \A c \in new : ~Queued(c)
  /\ \A j, k \in 1 .. Len(backlog) : backlog[j] = backlog[k] => j = k
  /\ parent \in {"count", "fork"} <=> new # {}
  /\ parent = "fork" => nclients >= 1
  /\ parent = "dead" => backlog = <<>>

ForkInv == ForkTypeOK /\ Places /\ \A c \in Clients : Held(c)

ForkIInv == CalcInv /\ ForkInv

LEMMA ForkInvInit == ForkInit => ForkIInv
<1> SUFFICES ASSUME ForkInit PROVE ForkIInv
  OBVIOUS
<1>1. CalcInv
  BY CalcInvStart DEF ForkInit
<1>2. backlog = <<>> /\ Len(backlog) = 0 /\ backlog \in Seq(Clients)
  BY EmptySeq DEF ForkInit
<1>3. ForkTypeOK
  BY <1>1, <1>2 DEF ForkInit, ForkTypeOK, CalcInv
<1>4. \A c \in Clients : ~Queued(c)
  BY <1>2 DEF Queued
<1>5. Places
  BY <1>2, <1>4 DEF ForkInit, Places
<1>6. \A c \in Clients : Held(c)
  BY <1>4 DEF ForkInit, CalcInit, Held, Live
<1> QED
  BY <1>1, <1>3, <1>5, <1>6 DEF ForkIInv, ForkInv

-----------------------------------------------------------------------------
(* The steps. *)

LEMMA ForkTypes ==
  ASSUME ForkIInv
  PROVE  /\ CalcInv /\ CalcTypeOK /\ ForkTypeOK /\ Places /\ EachOnce
         /\ \A c \in Clients : Held(c)
BY DEF ForkIInv, ForkInv, CalcInv, Places, EachOnce

LEMMA ForkConnectKeeps ==
  ASSUME ForkIInv, NEW c \in Clients, ForkConnect(c) PROVE ForkIInv'
<1>1. /\ CalcInv /\ CalcTypeOK /\ ForkTypeOK /\ Places /\ EachOnce
      /\ \A d \in Clients : Held(d)
  BY ForkTypes
<1>2. /\ conn[c] = "none" /\ parent # "dead"
      /\ conn' = [conn EXCEPT ![c] = "open"]
      /\ backlog' = Append(backlog, c)
      /\ UNCHANGED <<asked, pending, typed, stage, buff, args, shown,
                     parent, new, nclients, copy, childOf>>
  BY DEF ForkConnect, Connect, stuffVars, parentVars
<1>3. CalcInv'
  BY <1>1, <1>2, ServerKeeps DEF CalcTypeOK, ConnState
<1>4. ~Queued(c) /\ c \notin new
  BY <1>1, <1>2 DEF Held, Live
<1>5. /\ backlog' \in Seq(Clients) /\ EachOnce'
      /\ \A d : Queued(d)' <=> Queued(d) \/ d = c
  BY <1>1, <1>2, <1>4, Arrives DEF ForkTypeOK
<1>6. ForkTypeOK'
  BY <1>1, <1>2, <1>3, <1>5 DEF ForkTypeOK, CalcInv
<1>7. Places'
  BY <1>1, <1>2, <1>4, <1>5 DEF Places, EachOnce
<1>8. ASSUME NEW d \in Clients PROVE Held(d)'
  <2>1. CASE d = c
    BY <1>1, <1>2, <1>5, <2>1 DEF Held, Live, CalcTypeOK
  <2>2. CASE d # c
    BY <1>1, <1>2, <1>5, <2>2 DEF Held, CalcTypeOK
  <2> QED
    BY <2>1, <2>2
<1> QED
  BY <1>3, <1>6, <1>7, <1>8 DEF ForkIInv, ForkInv

LEMMA ForkAcceptKeeps == ASSUME ForkIInv, ForkAccept PROVE ForkIInv'
<1>1. /\ CalcInv /\ CalcTypeOK /\ ForkTypeOK /\ Places /\ EachOnce
      /\ \A d \in Clients : Held(d)
  BY ForkTypes
<1>2. /\ parent = "accept" /\ backlog # <<>> /\ new' = {Head(backlog)}
      /\ backlog' = Tail(backlog) /\ parent' = "count"
      /\ UNCHANGED <<conn, asked, pending, typed, stage, buff, args, shown,
                     nclients, copy, childOf>>
  BY DEF ForkAccept, calcVars, clientVars, stuffVars
<1>3. CalcInv'
  BY <1>1, <1>2, ServerKeeps DEF CalcTypeOK
<1>4. /\ backlog' \in Seq(Clients) /\ EachOnce'
      /\ Head(backlog) \in Clients /\ Queued(Head(backlog))
      /\ \A d : Queued(d)' <=> Queued(d) /\ d # Head(backlog)
  BY <1>1, <1>2, Accepted DEF ForkTypeOK
<1>5. ForkTypeOK'
  BY <1>1, <1>2, <1>3, <1>4 DEF ForkTypeOK, CalcInv
<1>6. new = {}
  BY <1>1, <1>2 DEF Places
<1>7. Places'
  BY <1>1, <1>2, <1>4 DEF Places, EachOnce
<1>8. ASSUME NEW d \in Clients PROVE Held(d)'
  BY <1>1, <1>2, <1>4, <1>6 DEF Held
<1> QED
  BY <1>3, <1>5, <1>7, <1>8 DEF ForkIInv, ForkInv

LEMMA CountKeeps == ASSUME ForkIInv, Count PROVE ForkIInv'
<1>1. /\ CalcInv /\ CalcTypeOK /\ ForkTypeOK /\ Places /\ EachOnce
      /\ \A d \in Clients : Held(d)
  BY ForkTypes
<1>2. /\ parent = "count" /\ nclients' = nclients + 1 /\ parent' = "fork"
      /\ UNCHANGED <<conn, asked, pending, typed, stage, buff, args, shown,
                     new, copy, childOf, backlog>>
  BY DEF Count, calcVars, clientVars, stuffVars
<1>3. CalcInv'
  BY <1>1, <1>2, ServerKeeps DEF CalcTypeOK
<1>4. ForkTypeOK'
  BY <1>1, <1>2, <1>3 DEF ForkTypeOK, CalcInv
<1>5. \A d : Queued(d)' <=> Queued(d)
  BY <1>2 DEF Queued
<1>6. Places'
  BY <1>1, <1>2, <1>5 DEF Places, ForkTypeOK
<1>7. ASSUME NEW d \in Clients PROVE Held(d)'
  BY <1>1, <1>2, <1>5 DEF Held
<1> QED
  BY <1>3, <1>4, <1>6, <1>7 DEF ForkIInv, ForkInv

LEMMA ForkKeeps == ASSUME ForkIInv, Fork PROVE ForkIInv'
<1>1. /\ CalcInv /\ CalcTypeOK /\ ForkTypeOK /\ Places /\ EachOnce
      /\ \A d \in Clients : Held(d)
  BY ForkTypes
<1>2. /\ parent = "fork" /\ new' = {} /\ parent' = "accept"
      /\ UNCHANGED <<conn, asked, pending, typed, buff, args, shown,
                     nclients, backlog>>
  BY DEF Fork, clientVars
<1>3. PICK c \in new : /\ childOf' = [childOf EXCEPT ![c] = "runs"]
                       /\ copy'    = [copy EXCEPT ![c] = nclients]
                       /\ stage'   = [stage EXCEPT ![c] = "menu"]
  BY DEF Fork
<1>4. /\ c \in Clients /\ new = {c} /\ ~Queued(c) /\ nclients >= 1
      /\ conn[c] \in Live /\ stage[c] = "none" /\ childOf[c] = "none"
  BY <1>1, <1>2, <1>3 DEF Places, ForkTypeOK, Held
<1>5. CalcInv'
  <2>1. stage' \in [Clients -> Stage]
    BY <1>1, <1>3 DEF CalcTypeOK, Stage
  <2>2. \A d \in Clients :
          \/ conn'[d] = conn[d] /\ stage'[d] = stage[d]
          \/ /\ conn[d] # "none" /\ conn'[d] = conn[d]
             /\ stage[d] = "none" /\ stage'[d] = "menu"
    BY <1>1, <1>2, <1>3, <1>4 DEF CalcTypeOK, Live
  <2> QED
    BY <1>1, <1>2, <2>1, <2>2, ServerKeeps DEF CalcTypeOK
<1>6. ForkTypeOK'
  BY <1>1, <1>2, <1>3, <1>4, <1>5 DEF ForkTypeOK, CalcInv
<1>7. \A d : Queued(d)' <=> Queued(d)
  BY <1>2 DEF Queued
<1>8. Places'
  BY <1>1, <1>2, <1>7 DEF Places
<1>9. ASSUME NEW d \in Clients PROVE Held(d)'
  <2>1. CASE d = c
    BY <1>1, <1>2, <1>3, <1>4, <1>7, <2>1 DEF Held, Live, CalcTypeOK, ForkTypeOK
  <2>2. CASE d # c
    BY <1>1, <1>2, <1>3, <1>4, <1>7, <2>2 DEF Held, CalcTypeOK, ForkTypeOK
  <2> QED
    BY <2>1, <2>2
<1> QED
  BY <1>5, <1>6, <1>8, <1>9 DEF ForkIInv, ForkInv

LEMMA ForkFailsKeeps == ASSUME ForkIInv, ForkFails PROVE ForkIInv'
<1>1. /\ CalcInv /\ CalcTypeOK /\ ForkTypeOK /\ Places /\ EachOnce
      /\ \A d \in Clients : Held(d)
  BY ForkTypes
<1>2. /\ parent' = "dead" /\ new' = {} /\ backlog' = <<>>
      /\ conn' = [c \in Clients |->
                    IF conn[c] # "none" /\ childOf[c] # "runs" THEN "over" ELSE conn[c]]
      /\ childOf' = [c \in Clients |->
                       IF childOf[c] = "zombie" THEN "none" ELSE childOf[c]]
      /\ UNCHANGED <<asked, pending, typed, stage, buff, args, shown, nclients, copy>>
  BY DEF ForkFails, stuffVars
<1>3. CalcInv'
  <2>1. conn' \in [Clients -> ConnState]
    BY <1>1, <1>2 DEF CalcTypeOK, ConnState
  <2>2. \A c \in Clients :
          \/ conn'[c] = conn[c] /\ stage'[c] = stage[c]
          \/ conn[c] # "none" /\ conn'[c] = "over" /\ stage'[c] = stage[c]
    BY <1>2
  <2> QED
    BY <1>1, <1>2, <2>1, <2>2, ServerKeeps DEF CalcTypeOK
<1>4. backlog' \in Seq(Clients) /\ Len(backlog') = 0 /\ \A d : ~Queued(d)'
  BY <1>2, EmptySeq DEF Queued
<1>5. ForkTypeOK'
  BY <1>1, <1>2, <1>3, <1>4 DEF ForkTypeOK, CalcInv
<1>6. Places'
  BY <1>2, <1>4 DEF Places
<1>7. ASSUME NEW d \in Clients PROVE Held(d)'
  BY <1>1, <1>2, <1>4 DEF Held, Live, CalcTypeOK, ForkTypeOK, ConnState
<1> QED
  BY <1>3, <1>5, <1>6, <1>7 DEF ForkIInv, ForkInv

LEMMA ForkUserKeeps ==
  ASSUME ForkIInv, NEW c \in Clients, ForkUser(c) PROVE ForkIInv'
<1>1. /\ CalcInv /\ CalcTypeOK /\ ForkTypeOK /\ Places
      /\ \A d \in Clients : Held(d)
  BY ForkTypes
<1>2. User(c) /\ UNCHANGED <<parent, new, nclients, copy, childOf, backlog>>
  BY DEF ForkUser, parentVars
<1>3. CalcInv'
  BY <1>1, <1>2, UserKeeps
<1>4. ForkTypeOK'
  BY <1>1, <1>2, <1>3 DEF ForkTypeOK, CalcInv
<1>5. \A d : Queued(d)' <=> Queued(d)
  BY <1>2 DEF Queued
<1>6. Places'
  BY <1>1, <1>2, <1>5 DEF Places
<1>7. /\ \A d \in Clients : d # c => conn'[d] = conn[d]
      /\ stage' = stage /\ conn[c] = "open" /\ conn'[c] \in Live
  BY <1>1, <1>2, UserEffect
<1>8. ASSUME NEW d \in Clients PROVE Held(d)'
  <2>1. CASE d = c
    BY <1>1, <1>2, <1>5, <1>7, <2>1 DEF Held, Live
  <2>2. CASE d # c
    BY <1>1, <1>2, <1>5, <1>7, <2>2 DEF Held, Live
  <2> QED
    BY <2>1, <2>2
<1> QED
  BY <1>3, <1>4, <1>6, <1>8 DEF ForkIInv, ForkInv

LEMMA ForkDoStuffKeeps ==
  ASSUME ForkIInv, NEW c \in Clients, ForkDoStuff(c) PROVE ForkIInv'
<1>1. /\ CalcInv /\ CalcTypeOK /\ ForkTypeOK /\ Places
      /\ \A d \in Clients : Held(d)
  BY ForkTypes
<1>2. /\ DoStuff(c) /\ childOf[c] = "runs"
      /\ UNCHANGED <<parent, new, nclients, copy, childOf, backlog>>
  BY DEF ForkDoStuff, parentVars
<1>3. CalcInv'
  BY <1>1, <1>2, DoStuffKeeps
<1>4. ForkTypeOK'
  BY <1>1, <1>2, <1>3 DEF ForkTypeOK, CalcInv
<1>5. \A d : Queued(d)' <=> Queued(d)
  BY <1>2 DEF Queued
<1>6. Places'
  BY <1>1, <1>2, <1>5 DEF Places
<1>7. conn[c] \in Live
  BY <1>1, <1>2 DEF Held, Live, CalcTypeOK, ConnState
<1>8. /\ \A d \in Clients : d # c => conn'[d] = conn[d] /\ stage'[d] = stage[d]
      /\ stage[c] # "none" /\ stage'[c] # "none" /\ conn'[c] \in Live
  BY <1>1, <1>2, <1>7, DoStuffEffect DEF Goes
<1>9. ASSUME NEW d \in Clients PROVE Held(d)'
  <2>1. CASE d = c
    BY <1>1, <1>2, <1>5, <1>8, <2>1 DEF Held, Live
  <2>2. CASE d # c
    BY <1>1, <1>2, <1>5, <1>8, <2>2 DEF Held, Live
  <2> QED
    BY <2>1, <2>2
<1> QED
  BY <1>3, <1>4, <1>6, <1>9 DEF ForkIInv, ForkInv

LEMMA ChildEndsKeeps ==
  ASSUME ForkIInv, NEW c \in Clients, ChildEnds(c) PROVE ForkIInv'
<1>1. /\ CalcInv /\ CalcTypeOK /\ ForkTypeOK /\ Places
      /\ \A d \in Clients : Held(d)
  BY ForkTypes
<1>2. /\ childOf[c] = "runs" /\ conn' = [conn EXCEPT ![c] = "over"]
      /\ copy' = [copy EXCEPT ![c] = IF Answered(c) THEN copy[c] - 1 ELSE copy[c]]
      /\ childOf' = [childOf EXCEPT ![c] = IF parent = "dead" THEN "none" ELSE "zombie"]
      /\ UNCHANGED <<asked, pending, typed, stage, buff, args, shown,
                     parent, new, nclients, backlog>>
  BY <1>1 DEF ChildEnds, stuffVars, parentVars, ForkTypeOK
<1>3. /\ conn[c] \in Live /\ stage[c] # "none" /\ copy[c] >= 1 /\ copy[c] \in Nat
      /\ c \notin new /\ ~Queued(c)
  BY <1>1, <1>2 DEF Held, Live, CalcTypeOK, ConnState, ForkTypeOK
<1>4. CalcInv'
  <2>1. conn' \in [Clients -> ConnState]
    BY <1>1, <1>2 DEF CalcTypeOK, ConnState
  <2>2. \A d \in Clients :
          \/ conn'[d] = conn[d] /\ stage'[d] = stage[d]
          \/ conn[d] # "none" /\ conn'[d] = "over" /\ stage'[d] = stage[d]
    BY <1>1, <1>2, <1>3 DEF CalcTypeOK, Live
  <2> QED
    BY <1>1, <1>2, <2>1, <2>2, ServerKeeps DEF CalcTypeOK
<1>5. copy' \in [Clients -> Nat] /\ childOf' \in [Clients -> {"none", "runs", "zombie"}]
  BY <1>1, <1>2, <1>3 DEF ForkTypeOK
<1>6. ForkTypeOK'
  BY <1>1, <1>2, <1>4, <1>5 DEF ForkTypeOK, CalcInv
<1>7. \A d : Queued(d)' <=> Queued(d)
  BY <1>2 DEF Queued
<1>8. Places'
  BY <1>1, <1>2, <1>7 DEF Places
<1>9. ASSUME NEW d \in Clients PROVE Held(d)'
  <2>1. CASE d = c
    BY <1>1, <1>2, <1>3, <1>7, <2>1 DEF Held, Live, CalcTypeOK, ForkTypeOK
  <2>2. CASE d # c
    BY <1>1, <1>2, <1>7, <2>2 DEF Held, CalcTypeOK, ForkTypeOK
  <2> QED
    BY <2>1, <2>2
<1> QED
  BY <1>4, <1>6, <1>8, <1>9 DEF ForkIInv, ForkInv

LEMMA ForkStutters == ASSUME ForkIInv, UNCHANGED forkVars PROVE ForkIInv'
<1>1. UNCHANGED <<conn, asked, pending, typed, stage, buff, args, shown,
                  parent, new, nclients, copy, childOf, backlog>>
  BY DEF forkVars, calcVars, clientVars, stuffVars, parentVars
<1>2. /\ CalcInv /\ CalcTypeOK /\ ForkTypeOK /\ Places
      /\ \A d \in Clients : Held(d)
  BY ForkTypes
<1>3. CalcInv'
  BY <1>1, <1>2, ServerKeeps DEF CalcTypeOK
<1>4. ForkTypeOK'
  BY <1>1, <1>2, <1>3 DEF ForkTypeOK, CalcInv
<1>5. \A d : Queued(d)' <=> Queued(d)
  BY <1>1 DEF Queued
<1>6. Places' /\ \A d \in Clients : Held(d)'
  BY <1>1, <1>2, <1>5 DEF Places, Held
<1> QED
  BY <1>3, <1>4, <1>6 DEF ForkIInv, ForkInv

LEMMA ForkInvStep == ForkIInv /\ [ForkNext]_forkVars => ForkIInv'
<1> SUFFICES ASSUME ForkIInv, [ForkNext]_forkVars PROVE ForkIInv'
  OBVIOUS
<1>1. CASE Parent
  BY <1>1, ForkAcceptKeeps, CountKeeps, ForkKeeps, ForkFailsKeeps DEF Parent
<1>2. ASSUME NEW c \in Clients, ForkConnect(c) \/ Child(c) \/ ForkUser(c) PROVE ForkIInv'
  BY <1>2, ForkConnectKeeps, ForkDoStuffKeeps, ChildEndsKeeps, ForkUserKeeps DEF Child
<1>3. CASE UNCHANGED forkVars
  BY <1>3, ForkStutters
<1> QED
  BY <1>1, <1>2, <1>3 DEF ForkNext

LEMMA ForkInvHolds == ForkSpec => []ForkIInv
  BY ForkInvInit, ForkInvStep, PTL DEF ForkSpec

-----------------------------------------------------------------------------
(* The theorems. *)

\* The parent's and the children's counters never become negative and every
\* variable keeps its type: no child counts down below the count it was
\* forked with.
THEOREM ForkTypeCorrect == ForkSpec => []ForkTypeOK
<1>1. ForkIInv => ForkTypeOK
  BY DEF ForkIInv, ForkInv
<1> QED
  BY <1>1, ForkInvHolds, PTL

\* An accepted connection has its own child, and an open one is with a child,
\* in the parent's hands or in the backlog, whatever users, children and the
\* parent's failing fork do.
THEOREM OneChildEachHolds == ForkSpec => []OneChildEach
<1>1. ForkIInv => OneChildEach
  <2> SUFFICES ASSUME ForkIInv, NEW c \in Clients
               PROVE  /\ childOf[c] = "runs" <=> stage[c] # "none" /\ conn[c] # "over"
                      /\ conn[c] \in {"open", "closed", "broken"}
                           => \/ childOf[c] = "runs" \/ c \in new
                              \/ \E k \in DOMAIN backlog : backlog[k] = c
    BY DEF OneChildEach
  <2>1. ForkTypeOK /\ Held(c)
    BY ForkTypes
  <2>2. DOMAIN backlog = 1 .. Len(backlog)
    BY <2>1, LenProperties DEF ForkTypeOK
  <2> QED
    BY <2>1, <2>2 DEF Held, Queued, Live
<1> QED
  BY <1>1, ForkInvHolds, PTL

\* Under the forking server every dialogue stays in step until its result is
\* written: no line is read as the answer to another question than its own.
THEOREM ForkDialoguesInStep == ForkSpec => []InStep
<1>1. ForkIInv => InStep
  BY CalcInvImplies DEF ForkIInv
<1> QED
  BY <1>1, ForkInvHolds, PTL

\* Under the forking server a client that answered is shown the result of its
\* own operation on its own operands.
THEOREM ForkResultsAreOwn == ForkSpec => []OwnResult
<1>1. ForkIInv => OwnResult
  BY CalcInvImplies DEF ForkIInv
<1> QED
  BY <1>1, ForkInvHolds, PTL
-----------------------------------------------------------------------------
(* The poll server. *)

\* The first entry that was not served, and how many such entries there are.
First   == IF i < 2 THEN 2 ELSE i
InTable == Len(fds) - First + 1

TableInv ==
  /\ ~endServer
  /\ pc # "ended" =>
       /\ currentSize = Len(fds)
       /\ fds[1] = Listener
       /\ \A k \in 2 .. Len(fds) : k < i => fds[k] = Closed
       /\ \A k \in 2 .. Len(fds) : k >= i => fds[k] \in Clients
       /\ i > 2 => compress
  /\ pc \in {"scan", "dostuff"} => \A k \in 1 .. Len(fds) : revents[k] = "POLLIN"
  /\ pc = "poll" => Len(fds) = 1 /\ i = 1
  /\ pc = "dostuff" => i \in 2 .. Len(fds)
  /\ pc = "compress" => i = Len(fds) + 1

\* The first n who arrived have been served; the others are in the table, from
\* First on, and then in the backlog.
OrderAt(n) ==
  /\ Len(arrivals) = n + InTable + Len(backlog)
  /\ \A k \in First .. Len(fds) : fds[k] = arrivals[n + k - First + 1]
  /\ \A m \in 1 .. Len(backlog) : backlog[m] = arrivals[n + InTable + m]
  /\ \A j \in 1 .. Len(arrivals) :
       /\ j <= n => conn[arrivals[j]] = "over"
       /\ j > n => conn[arrivals[j]] \in Live
       /\ j > n /\ ~(pc = "dostuff" /\ j = n + 1) => stage[arrivals[j]] = "none"
  /\ \A j, k \in 1 .. Len(arrivals) : arrivals[j] = arrivals[k] => j = k

PollInv == CalcInv /\ PollTypeOK /\ TableInv /\ (pc # "ended" => \E n \in Nat : OrderAt(n))

Sizes ==
  /\ Len(fds) \in Nat \ {0} /\ Len(arrivals) \in Nat /\ Len(backlog) \in Nat
  /\ i \in Nat \ {0} /\ First \in Nat /\ First >= 2 /\ First >= i
  /\ First <= Len(fds) + 1 /\ InTable \in Nat /\ InTable = Len(fds) - First + 1

Members ==
  /\ \A k \in 1 .. Len(fds) : fds[k] \in Clients \cup {Listener, Closed}
  /\ \A k \in 1 .. Len(backlog) : backlog[k] \in Clients
  /\ \A k \in 1 .. Len(arrivals) : arrivals[k] \in Clients

LEMMA PollTypes == ASSUME PollTypeOK PROVE Sizes /\ Members
<1>1. Len(fds) \in Nat /\ Len(arrivals) \in Nat /\ Len(backlog) \in Nat
  BY LenProperties DEF PollTypeOK
<1>2. currentSize \in 1 .. Len(fds) /\ i \in 1 .. Len(fds) + 1
  BY DEF PollTypeOK
<1>3. Len(fds) \in Nat \ {0} /\ i \in Nat \ {0}
  BY <1>1, <1>2
<1>4. First \in Nat /\ First >= 2 /\ First >= i /\ First <= Len(fds) + 1 
      /\ InTable \in Nat /\ InTable = Len(fds) - First + 1
  BY <1>1, <1>2, <1>3 DEF First, InTable
<1>5. /\ \A k \in 1 .. Len(fds) : fds[k] \in Clients \cup {Listener, Closed}
      /\ \A k \in 1 .. Len(backlog) : backlog[k] \in Clients
      /\ \A k \in 1 .. Len(arrivals) : arrivals[k] \in Clients
  BY ElementOfSeq DEF PollTypeOK, Descriptor
<1> QED
  BY <1>1, <1>3, <1>4, <1>5 DEF Sizes, Members

LEMMA Appended ==
  ASSUME NEW S, NEW s \in Seq(S), NEW e \in S
  PROVE  /\ Append(s, e) \in Seq(S) /\ Len(s) \in Nat
         /\ Len(Append(s, e)) = Len(s) + 1 /\ Append(s, e)[Len(s) + 1] = e
         /\ \A k \in 1 .. Len(s) : Append(s, e)[k] = s[k]
BY AppendProperties, LenProperties

LEMMA PollInvInit == PollInit => PollInv
<1> SUFFICES ASSUME PollInit PROVE PollInv
  OBVIOUS
<1>1. CalcInv
  BY CalcInvStart DEF PollInit
<1>2. /\ fds \in Seq(Descriptor) /\ Len(fds) = 1 /\ fds[1] = Listener
      /\ revents \in Seq({"none", "POLLIN", "error"}) /\ Len(revents) = 1
  <2>1. fds = <<Listener>> /\ revents = <<"none">>
    BY DEF PollInit
  <2> QED
    BY <2>1 DEF Descriptor
<1>3. /\ backlog = <<>> /\ backlog \in Seq(Clients) /\ Len(backlog) = 0
      /\ arrivals = <<>> /\ arrivals \in Seq(Clients) /\ Len(arrivals) = 0
  BY EmptySeq DEF PollInit
<1>4. PollTypeOK
  <2>1. /\ pc = "poll" /\ i = 1 /\ currentSize = 1
        /\ compress \in BOOLEAN /\ endServer \in BOOLEAN
    BY DEF PollInit
  <2> QED
    BY <1>1, <1>2, <1>3, <2>1 DEF PollTypeOK, CalcInv
<1>5. /\ pc = "poll" /\ i = 1 /\ currentSize = 1 /\ ~endServer /\ First = 2 /\ InTable = 0
  BY <1>2 DEF PollInit, First, InTable
<1>6. TableInv
  BY <1>2, <1>5 DEF TableInv
<1>7. OrderAt(0)
  BY <1>2, <1>3, <1>5 DEF OrderAt
<1> QED
  BY <1>1, <1>4, <1>6, <1>7 DEF PollInv

LEMMA PollConnectKeeps ==
  ASSUME PollInv, NEW c \in Clients, PollConnect(c) PROVE PollInv'
<1>1. CalcInv /\ CalcTypeOK /\ PollTypeOK /\ TableInv /\ Sizes /\ Members
  BY PollTypes DEF PollInv, CalcInv
<1>3. /\ conn[c] = "none" /\ pc # "ended"
      /\ conn' = [conn EXCEPT ![c] = "open"]
      /\ backlog' = Append(backlog, c) /\ arrivals' = Append(arrivals, c)
      /\ UNCHANGED <<asked, pending, typed, stage, buff, args, shown,
                     pc, fds, revents, i, currentSize, compress, endServer>>
  BY DEF PollConnect, Connect, stuffVars, mainVars
<1>2. PICK n \in Nat : OrderAt(n)
  BY <1>3 DEF PollInv
<1>4. CalcInv'
  BY <1>1, <1>3, ServerKeeps DEF CalcTypeOK, ConnState
<1>5. /\ backlog' \in Seq(Clients) /\ Len(backlog') = Len(backlog) + 1
      /\ backlog'[Len(backlog) + 1] = c
      /\ \A k \in 1 .. Len(backlog) : backlog'[k] = backlog[k]
  <2>1. backlog \in Seq(Clients)
    BY <1>1 DEF PollTypeOK
  <2> QED
    BY <1>3, <2>1, Appended
<1>6. /\ arrivals' \in Seq(Clients) /\ Len(arrivals') = Len(arrivals) + 1
      /\ arrivals'[Len(arrivals) + 1] = c
      /\ \A k \in 1 .. Len(arrivals) : arrivals'[k] = arrivals[k]
  <2>1. arrivals \in Seq(Clients)
    BY <1>1 DEF PollTypeOK
  <2> QED
    BY <1>3, <2>1, Appended
<1>7. PollTypeOK'
  BY <1>1, <1>3, <1>4, <1>5, <1>6 DEF PollTypeOK, CalcInv
<1>8. TableInv'
  BY <1>1, <1>3 DEF TableInv
<1>9. OrderAt(n)'
  <2>1. First' = First /\ InTable' = InTable
    BY <1>3 DEF First, InTable
  <2>2. stage[c] = "none"
    BY <1>1, <1>3 DEF CalcInv, Dialog, DialogOf
  <2>3. ASSUME NEW j \in 1 .. Len(arrivals)
        PROVE  arrivals[j] # c /\ arrivals[j] \in Clients
    <3>1. conn[arrivals[j]] = "over" \/ conn[arrivals[j]] \in Live
      BY <1>1, <1>2 DEF OrderAt, Sizes
    <3> QED
      BY <1>1, <1>3, <3>1 DEF Live, Members
  <2>4. \A j \in 1 .. Len(arrivals') :
          j \in 1 .. Len(arrivals) \/ (j = Len(arrivals) + 1 /\ arrivals'[j] = c)
    BY <1>1, <1>6 DEF Sizes
  <2>5. \A m \in 1 .. Len(backlog') :
          m \in 1 .. Len(backlog) \/ (m = Len(backlog) + 1 /\ backlog'[m] = c)
    BY <1>1, <1>5 DEF Sizes
  <2>6. Len(arrivals') = n + InTable' + Len(backlog')
    BY <1>1, <1>2, <1>5, <1>6, <2>1, SMTT(30) DEF OrderAt, Sizes
  <2>7. \A k \in First .. Len(fds) : n + k - First + 1 \in 1 .. Len(arrivals)
    BY <1>1, <1>2 DEF OrderAt, Sizes
  <2>8. \A k \in First' .. Len(fds') : fds'[k] = arrivals'[n + k - First' + 1]
    BY <1>2, <1>3, <1>6, <2>1, <2>7 DEF OrderAt
  <2>9. \A m \in 1 .. Len(backlog) : n + InTable + m \in 1 .. Len(arrivals)
    BY <1>1, <1>2 DEF OrderAt, Sizes
  <2>10. n + InTable + (Len(backlog) + 1) = Len(arrivals) + 1
    BY <1>1, <1>2 DEF OrderAt, Sizes
  <2>11. \A m \in 1 .. Len(backlog') : backlog'[m] = arrivals'[n + InTable' + m]
    BY <1>2, <1>3, <1>5, <1>6, <2>1, <2>5, <2>9, <2>10 DEF OrderAt
  <2>12. ASSUME NEW j \in 1 .. Len(arrivals')
         PROVE  /\ j <= n => conn'[arrivals'[j]] = "over"
                /\ j > n => conn'[arrivals'[j]] \in Live
                /\ j > n /\ ~(pc' = "dostuff" /\ j = n + 1) => stage'[arrivals'[j]] = "none"
    <3>1. CASE j \in 1 .. Len(arrivals)
      <4>1. arrivals'[j] = arrivals[j] /\ conn'[arrivals[j]] = conn[arrivals[j]]
        BY <1>1, <1>3, <1>6, <2>3, <3>1 DEF CalcTypeOK
      <4> QED
        BY <1>2, <1>3, <3>1, <4>1 DEF OrderAt
    <3>2. CASE j = Len(arrivals) + 1
      <4>1. conn'[c] = "open" /\ stage'[c] = "none" /\ arrivals'[j] = c
        BY <1>1, <1>3, <1>6, <2>2, <3>2 DEF CalcTypeOK
      <4>2. j > n
        BY <1>1, <1>2, <3>2, SMTT(30) DEF OrderAt, Sizes
      <4> QED
        BY <4>1, <4>2 DEF Live
    <3> QED
      BY <2>4, <3>1, <3>2
  <2>13. ASSUME NEW j \in 1 .. Len(arrivals'), NEW k \in 1 .. Len(arrivals'),
                arrivals'[j] = arrivals'[k]
         PROVE  j = k
    <3>1. CASE j \in 1 .. Len(arrivals) /\ k \in 1 .. Len(arrivals)
      <4>1. arrivals'[j] = arrivals[j] /\ arrivals'[k] = arrivals[k]
        BY <1>6, <3>1
      <4>2. arrivals[j] = arrivals[k]
        BY <2>13, <4>1
      <4> QED
        BY <1>2, <3>1, <4>2 DEF OrderAt
    <3>2. CASE j = Len(arrivals) + 1 /\ k \in 1 .. Len(arrivals)
      BY <1>6, <2>3, <2>13, <3>2
    <3>3. CASE k = Len(arrivals) + 1 /\ j \in 1 .. Len(arrivals)
      BY <1>6, <2>3, <2>13, <3>3
    <3> QED
      BY <2>4, <2>13, <3>1, <3>2, <3>3
  <2> QED
    BY <2>6, <2>8, <2>11, <2>12, <2>13 DEF OrderAt
<1> QED
  BY <1>4, <1>7, <1>8, <1>9 DEF PollInv

\* A server that is over: nobody is served any more.
LEMMA ShutdownKeeps ==
  ASSUME PollInv, Shutdown,
         UNCHANGED <<asked, pending, typed, stage, buff, args, shown, arrivals, endServer>>,
         fds' \in Seq(Descriptor), revents' \in Seq({"none", "POLLIN", "error"}),
         Len(fds') = Len(revents'), i' \in 1 .. Len(fds') + 1,
         currentSize' \in 1 .. Len(fds'), compress' \in BOOLEAN
  PROVE  PollInv'
<1>1. CalcInv /\ CalcTypeOK /\ PollTypeOK /\ TableInv
  BY DEF PollInv, CalcInv
<1>2. /\ pc' = "ended" /\ backlog' = <<>>
      /\ conn' = [c \in Clients |-> IF conn[c] = "none" THEN "none" ELSE "over"]
  BY DEF Shutdown
<1>3. CalcInv'
  <2>1. conn' \in [Clients -> ConnState]
    BY <1>2 DEF ConnState
  <2>2. \A c \in Clients :
          \/ conn'[c] = conn[c] /\ stage'[c] = stage[c]
          \/ conn[c] # "none" /\ conn'[c] = "over" /\ stage'[c] = stage[c]
    BY <1>2
  <2> QED
    BY <1>1, <2>1, <2>2, ServerKeeps DEF CalcTypeOK
<1>4. PollTypeOK'
  BY <1>1, <1>2, <1>3, EmptySeq DEF PollTypeOK, CalcInv
<1>5. TableInv'
  BY <1>1, <1>2 DEF TableInv
<1> QED
  BY <1>2, <1>3, <1>4, <1>5 DEF PollInv

LEMMA TimeOutKeeps == ASSUME PollInv, TimeOut PROVE PollInv'
<1>1. PollTypeOK
  BY DEF PollInv
<1>2. /\ Shutdown
      /\ UNCHANGED <<asked, pending, typed, stage, buff, args, shown, fds, revents, i,
                     currentSize, compress, endServer, arrivals>>
  BY DEF TimeOut, stuffVars
<1> QED
  BY <1>1, <1>2, ShutdownKeeps DEF PollTypeOK

LEMMA DieKeeps == ASSUME PollInv, Die PROVE PollInv'
<1>1. PollTypeOK
  BY DEF PollInv
<1>2. /\ Shutdown
      /\ UNCHANGED <<asked, pending, typed, stage, buff, args, shown, fds, revents, i,
                     currentSize, compress, endServer, arrivals>>
  BY DEF Die, stuffVars
<1> QED
  BY <1>1, <1>2, ShutdownKeeps DEF PollTypeOK

\* What the other steps know.
LEMMA PollFacts ==
  ASSUME PollInv, pc # "ended"
  PROVE  /\ CalcInv /\ CalcTypeOK /\ PollTypeOK /\ TableInv /\ Sizes /\ Members
         /\ \E n \in Nat : OrderAt(n)
BY PollTypes DEF PollInv, CalcInv

LEMMA PollKeeps == ASSUME PollInv, Poll PROVE PollInv'
<1>1. /\ pc = "poll" /\ pc' = "scan" /\ i' = 1 /\ currentSize' = Len(fds)
      /\ revents' = [k \in DOMAIN fds |-> Event(fds[k])]
      /\ \E k \in DOMAIN fds : revents'[k] # "none"
      /\ UNCHANGED <<conn, asked, pending, typed, stage, buff, args, shown, fds, compress,
                     endServer, backlog, arrivals>>
  BY DEF Poll, calcVars, clientVars, stuffVars
<1>2. /\ CalcInv /\ CalcTypeOK /\ PollTypeOK /\ TableInv /\ Sizes
      /\ \E n \in Nat : OrderAt(n)
  BY <1>1, PollFacts
<1>3. Len(fds) = 1 /\ i = 1 /\ fds[1] = Listener /\ DOMAIN fds = 1 .. 1
  BY <1>1, <1>2, LenProperties DEF TableInv, PollTypeOK
<1>4. Event(Listener) \in {"POLLIN", "none"}
  BY DEF Event
<1>5. revents' = [k \in 1 .. 1 |-> "POLLIN"]
  BY <1>1, <1>3, <1>4
<1>6. revents' \in Seq({"none", "POLLIN", "error"}) /\ Len(revents') = 1
  BY <1>5
<1>7. CalcInv'
  BY <1>1, <1>2, ServerKeeps DEF CalcTypeOK
<1>8. PollTypeOK'
  BY <1>1, <1>2, <1>3, <1>6, <1>7 DEF PollTypeOK, CalcInv
<1>9. TableInv'
  BY <1>1, <1>2, <1>3, <1>5 DEF TableInv
<1>10. ASSUME NEW n \in Nat, OrderAt(n) PROVE OrderAt(n)'
  BY <1>1, <1>3, <1>10 DEF OrderAt, First, InTable
<1> QED
  BY <1>2, <1>7, <1>8, <1>9, <1>10 DEF PollInv

LEMMA PollAcceptKeeps == ASSUME PollInv, PollAccept PROVE PollInv'
<1>1. /\ pc = "scan" /\ i <= currentSize /\ fds[i] = Listener /\ backlog # <<>>
      /\ fds' = Append(fds, Head(backlog)) /\ revents' = Append(revents, "POLLIN")
      /\ currentSize' = currentSize + 1 /\ backlog' = Tail(backlog)
      /\ UNCHANGED <<conn, asked, pending, typed, stage, buff, args, shown, pc, i, compress,
                     endServer, arrivals>>
  BY DEF PollAccept, Accepting, calcVars, clientVars, stuffVars
<1>2. CalcInv /\ CalcTypeOK /\ PollTypeOK /\ TableInv /\ Sizes /\ Members
  BY <1>1, PollFacts
<1>3. PICK n \in Nat : OrderAt(n)
  BY <1>1, PollFacts
<1>4. /\ backlog' \in Seq(Clients) /\ Len(backlog) >= 1 /\ Len(backlog') = Len(backlog) - 1
      /\ Head(backlog) \in Clients /\ Head(backlog) = backlog[1]
      /\ \A m \in 1 .. Len(backlog') : backlog'[m] = backlog[m + 1]
  <2>1. backlog \in Seq(Clients)
    BY <1>2 DEF PollTypeOK
  <2>2. Len(backlog) \in Nat \ {0}
    BY <1>1, <2>1, EmptySeq, LenProperties
  <2> QED
    BY <1>1, <2>1, <2>2, HeadTailProperties
<1>5. /\ fds' \in Seq(Descriptor) /\ Len(fds') = Len(fds) + 1
      /\ fds'[Len(fds) + 1] = backlog[1]
      /\ \A k \in 1 .. Len(fds) : fds'[k] = fds[k]
  <2>1. fds \in Seq(Descriptor) /\ Head(backlog) \in Descriptor
    BY <1>2, <1>4 DEF PollTypeOK, Descriptor
  <2> QED
    BY <1>1, <1>4, <2>1, Appended
<1>6. /\ revents' \in Seq({"none", "POLLIN", "error"}) /\ Len(revents') = Len(revents) + 1
      /\ revents'[Len(revents) + 1] = "POLLIN"
      /\ \A k \in 1 .. Len(revents) : revents'[k] = revents[k]
  <2>1. revents \in Seq({"none", "POLLIN", "error"})
    BY <1>2 DEF PollTypeOK
  <2> QED
    BY <1>1, <2>1, Appended
<1>7. CalcInv'
  BY <1>1, <1>2, ServerKeeps DEF CalcTypeOK
<1>8. PollTypeOK'
  <2>1. /\ i' \in 1 .. Len(fds') + 1 /\ currentSize' \in 1 .. Len(fds')
        /\ Len(fds') = Len(revents')
    BY <1>1, <1>2, <1>5, <1>6 DEF PollTypeOK, Sizes
  <2> QED
    BY <1>1, <1>2, <1>4, <1>5, <1>6, <1>7, <2>1 DEF PollTypeOK, CalcInv
<1>9. i = 1
  BY <1>1, <1>2, PollAssumption DEF TableInv, Sizes
<1>10. Len(fds) = Len(revents) /\ Len(fds) \in Nat \ {0} /\ currentSize = Len(fds)
  BY <1>1, <1>2 DEF PollTypeOK, TableInv, Sizes
<1>11. \A k \in 1 .. Len(fds') : k \in 1 .. Len(fds) \/ k = Len(fds) + 1
  BY <1>5, <1>10
<1>12. TableInv'
  <2>1. \A k \in 2 .. Len(fds') : fds'[k] \in Clients
    BY <1>1, <1>2, <1>4, <1>5, <1>9, <1>10, <1>11 DEF TableInv
  <2>2. \A k \in 1 .. Len(fds') : revents'[k] = "POLLIN"
    BY <1>1, <1>2, <1>6, <1>10, <1>11 DEF TableInv
  <2>3. fds'[1] = Listener /\ currentSize' = Len(fds') /\ i' = 1
    BY <1>1, <1>2, <1>5, <1>9, <1>10 DEF TableInv
  <2>4. ~endServer' /\ pc' = "scan"
    BY <1>1, <1>2 DEF TableInv
  <2>5. \A k \in 2 .. Len(fds') : ~(k < i')
    BY <1>5, <1>10, <2>3
  <2> QED
    BY <2>1, <2>2, <2>3, <2>4, <2>5 DEF TableInv
<1>13. OrderAt(n)'
  <2>1. First = 2 /\ First' = 2 /\ InTable = Len(fds) - 1 /\ InTable' = Len(fds)
    BY <1>1, <1>5, <1>9, <1>10 DEF First, InTable
  <2>2. Len(arrivals') = n + InTable' + Len(backlog')
    <3>1. Len(arrivals) = n + InTable + Len(backlog) /\ Len(backlog) \in Nat
      BY <1>2, <1>3 DEF OrderAt, Sizes
    <3>2. arrivals' = arrivals /\ Len(backlog') = Len(backlog) - 1
      BY <1>1, <1>4
    <3> QED
      BY <1>10, <2>1, <3>1, <3>2
  <2>3. ASSUME NEW k \in First' .. Len(fds') PROVE fds'[k] = arrivals'[n + k - First' + 1]
    <3>1. CASE k \in First .. Len(fds)
      <4>1. fds'[k] = fds[k] /\ fds[k] = arrivals[n + k - First + 1]
        BY <1>3, <1>5, <1>10, <2>1, <3>1 DEF OrderAt
      <4> QED
        BY <1>1, <2>1, <4>1
    <3>2. CASE k = Len(fds) + 1
      <4>1. backlog[1] = arrivals[n + InTable + 1]
        BY <1>2, <1>3, <1>4 DEF OrderAt, Sizes
      <4>2. n + InTable + 1 = n + k - 2 + 1
        BY <1>10, <2>1, <3>2
      <4> QED
        BY <1>1, <1>5, <2>1, <3>2, <4>1, <4>2
    <3> QED
      BY <1>5, <1>10, <2>1, <3>1, <3>2
  <2>4. ASSUME NEW m \in 1 .. Len(backlog') PROVE backlog'[m] = arrivals'[n + InTable' + m]
    <3>1. m + 1 \in 1 .. Len(backlog) /\ backlog'[m] = backlog[m + 1]
      BY <1>2, <1>4 DEF Sizes
    <3>2. n + InTable + (m + 1) = n + InTable' + m
      BY <1>10, <2>1
    <3> QED
      BY <1>1, <1>3, <3>1, <3>2 DEF OrderAt
  <2> QED
    BY <1>1, <1>3, <2>2, <2>3, <2>4 DEF OrderAt
<1> QED
  BY <1>7, <1>8, <1>12, <1>13 DEF PollInv

\* Only the listener has no event to be served.
LEMMA AdvanceKeeps == ASSUME PollInv, Advance PROVE PollInv'
<1>1. /\ pc = "scan" /\ i <= currentSize
      /\ revents[i] = "POLLIN" => fds[i] = Listener /\ backlog = <<>>
      /\ i' = IF revents[i] = "error" THEN i ELSE i + 1
      /\ pc' = IF revents[i] = "error" THEN "compress" ELSE "scan"
      /\ endServer' = (endServer \/ revents[i] = "error")
      /\ UNCHANGED <<conn, asked, pending, typed, stage, buff, args, shown, fds, revents,
                     currentSize, compress, backlog, arrivals>>
  BY DEF Advance, calcVars, clientVars, stuffVars
<1>2. /\ CalcInv /\ CalcTypeOK /\ PollTypeOK /\ TableInv /\ Sizes
      /\ \E n \in Nat : OrderAt(n)
  BY <1>1, PollFacts
<1>3. revents[i] = "POLLIN" /\ i \in 1 .. Len(fds)
  BY <1>1, <1>2 DEF TableInv, Sizes
<1>4. i = 1 /\ pc' = "scan" /\ i' = 2 /\ endServer' = endServer
  <2>1. fds[i] = Listener /\ i' = i + 1 /\ pc' = "scan"
    BY <1>1, <1>3
  <2>2. i = 1
    BY <1>1, <1>2, <1>3, <2>1, PollAssumption DEF TableInv, Sizes
  <2>3. endServer' = endServer
    BY <1>1, <1>2, <1>3 DEF PollTypeOK
  <2> QED
    BY <2>1, <2>2, <2>3
<1>5. CalcInv'
  BY <1>1, <1>2, ServerKeeps DEF CalcTypeOK
<1>6. PollTypeOK'
  BY <1>1, <1>2, <1>4, <1>5 DEF PollTypeOK, CalcInv, Sizes
<1>7. TableInv'
  BY <1>1, <1>2, <1>4 DEF TableInv
<1>8. ASSUME NEW n \in Nat, OrderAt(n) PROVE OrderAt(n)'
  <2>1. First' = First /\ InTable' = InTable
    BY <1>1, <1>4 DEF First, InTable
  <2> QED
    BY <1>1, <1>4, <1>8, <2>1 DEF OrderAt
<1> QED
  BY <1>2, <1>5, <1>6, <1>7, <1>8 DEF PollInv

LEMMA ServeKeeps == ASSUME PollInv, Serve PROVE PollInv'
<1> DEFINE c == fds[i]
<1>1. /\ pc = "scan" /\ i <= currentSize /\ c # Listener /\ pc' = "dostuff"
      /\ stage' = [stage EXCEPT ![c] = "menu"]
      /\ UNCHANGED <<conn, asked, pending, typed, buff, args, shown, fds, revents, i,
                     currentSize, compress, endServer, backlog, arrivals>>
  BY DEF Serve, clientVars
<1>2. CalcInv /\ CalcTypeOK /\ PollTypeOK /\ TableInv /\ Sizes /\ Members
  BY <1>1, PollFacts
<1>3. PICK n \in Nat : OrderAt(n)
  BY <1>1, PollFacts
<1>4. i \in 2 .. Len(fds) /\ c \in Clients /\ First = i
  BY <1>1, <1>2 DEF TableInv, Sizes, First
<1>5. n + 1 \in 1 .. Len(arrivals) /\ arrivals[n + 1] = c
  <2>1. c = arrivals[n + i - First + 1]
    BY <1>3, <1>4 DEF OrderAt
  <2>2. n + i - First + 1 = n + 1 /\ InTable >= 1
    BY <1>2, <1>4 DEF Sizes
  <2> QED
    BY <1>2, <1>3, <2>1, <2>2 DEF OrderAt, Sizes
<1>6. conn[c] \in Live /\ stage[c] = "none"
  BY <1>1, <1>3, <1>5 DEF OrderAt
<1> HIDE DEF c
<1>7. CalcInv'
  <2>1. stage' \in [Clients -> Stage]
    BY <1>1, <1>2 DEF CalcTypeOK, Stage
  <2>2. \A d \in Clients :
          \/ conn'[d] = conn[d] /\ stage'[d] = stage[d]
          \/ /\ conn[d] # "none" /\ conn'[d] = conn[d]
             /\ stage[d] = "none" /\ stage'[d] = "menu"
    BY <1>1, <1>2, <1>4, <1>6 DEF CalcTypeOK, Live
  <2> QED
    BY <1>1, <1>2, <2>1, <2>2, ServerKeeps DEF CalcTypeOK
<1>8. PollTypeOK'
  BY <1>1, <1>2, <1>7 DEF PollTypeOK, CalcInv
<1>9. TableInv'
  BY <1>1, <1>2, <1>4 DEF TableInv
<1>10. OrderAt(n)'
  <2>1. First' = First /\ InTable' = InTable
    BY <1>1 DEF First, InTable
  <2>2. ASSUME NEW j \in 1 .. Len(arrivals), j > n, j # n + 1
        PROVE  stage'[arrivals[j]] = "none"
    <3>1. arrivals[j] \in Clients /\ arrivals[j] # c
      BY <1>2, <1>3, <1>5, <2>2 DEF OrderAt, Members
    <3> QED
      BY <1>1, <1>2, <1>3, <2>2, <3>1 DEF OrderAt, CalcTypeOK
  <2> QED
    BY <1>1, <1>3, <2>1, <2>2 DEF OrderAt
<1> QED
  BY <1>7, <1>8, <1>9, <1>10 DEF PollInv

\* The client that is served is the first of those who were not.
LEMMA InService ==
  ASSUME PollInv, pc = "dostuff", NEW n \in Nat, OrderAt(n)
  PROVE  /\ i \in 2 .. Len(fds) /\ fds[i] \in Clients /\ First = i
         /\ n + 1 \in 1 .. Len(arrivals) /\ arrivals[n + 1] = fds[i]
         /\ conn[fds[i]] \in Live
<1>1. PollTypeOK /\ TableInv /\ Sizes
  BY PollFacts
<1>2. i \in 2 .. Len(fds) /\ fds[i] \in Clients /\ First = i
  BY <1>1 DEF TableInv, Sizes, First
<1>3. n + 1 \in 1 .. Len(arrivals) /\ arrivals[n + 1] = fds[i]
  <2>1. fds[i] = arrivals[n + i - First + 1]
    BY <1>2 DEF OrderAt
  <2>2. n + i - First + 1 = n + 1 /\ InTable >= 1
    BY <1>1, <1>2 DEF Sizes
  <2> QED
    BY <1>1, <2>1, <2>2 DEF OrderAt, Sizes
<1>4. conn[fds[i]] \in Live
  BY <1>3 DEF OrderAt
<1> QED
  BY <1>2, <1>3, <1>4

LEMMA PollDoStuffKeeps == ASSUME PollInv, PollDoStuff PROVE PollInv'
<1>1. /\ pc = "dostuff" /\ DoStuff(fds[i])
      /\ UNCHANGED <<pc, fds, revents, i, currentSize, compress, endServer, backlog, arrivals>>
  BY DEF PollDoStuff, mainVars
<1>2. CalcInv /\ CalcTypeOK /\ PollTypeOK /\ TableInv /\ Sizes /\ Members
  BY <1>1, PollFacts
<1>3. PICK n \in Nat : OrderAt(n)
  BY <1>1, PollFacts
<1> DEFINE c == fds[i]
<1>4. /\ c \in Clients /\ n + 1 \in 1 .. Len(arrivals) /\ arrivals[n + 1] = c
      /\ conn[c] \in Live
  BY <1>1, <1>3, InService
<1>5. Goes(c)
  BY <1>1, <1>2, <1>4, DoStuffEffect
<1>6. CalcInv'
  BY <1>1, <1>2, <1>4, DoStuffKeeps
<1> HIDE DEF c
<1>7. PollTypeOK'
  BY <1>1, <1>2, <1>6 DEF PollTypeOK, CalcInv
<1>8. TableInv'
  BY <1>1, <1>2 DEF TableInv
<1>9. OrderAt(n)'
  <2>1. First' = First /\ InTable' = InTable
    BY <1>1 DEF First, InTable
  <2>2. ASSUME NEW j \in 1 .. Len(arrivals)
        PROVE  /\ j <= n => conn'[arrivals[j]] = "over"
               /\ j > n => conn'[arrivals[j]] \in Live
               /\ j > n /\ j # n + 1 => stage'[arrivals[j]] = "none"
    <3>1. CASE j = n + 1
      BY <1>4, <1>5, <3>1 DEF Goes
    <3>2. CASE j # n + 1
      <4>1. arrivals[j] \in Clients /\ arrivals[j] # c
        BY <1>2, <1>3, <1>4, <3>2 DEF OrderAt, Members
      <4>2. conn'[arrivals[j]] = conn[arrivals[j]] /\ stage'[arrivals[j]] = stage[arrivals[j]]
        BY <1>5, <4>1 DEF Goes
      <4> QED
        BY <1>3, <3>2, <4>2 DEF OrderAt
    <3> QED
      BY <3>1, <3>2
  <2> QED
    BY <1>1, <1>3, <2>1, <2>2 DEF OrderAt
<1> QED
  BY <1>6, <1>7, <1>8, <1>9 DEF PollInv

LEMMA EndServiceKeeps == ASSUME PollInv, EndService PROVE PollInv'
<1>1. /\ pc = "dostuff" /\ conn' = [conn EXCEPT ![fds[i]] = "over"]
      /\ fds' = [fds EXCEPT ![i] = Closed] /\ compress' = TRUE /\ i' = i + 1 /\ pc' = "scan"
      /\ UNCHANGED <<asked, pending, typed, stage, buff, args, shown, revents, currentSize,
                     endServer, backlog, arrivals>>
  BY DEF EndService, stuffVars
<1>2. CalcInv /\ CalcTypeOK /\ PollTypeOK /\ TableInv /\ Sizes /\ Members
  BY <1>1, PollFacts
<1>3. PICK n \in Nat : OrderAt(n)
  BY <1>1, PollFacts
<1> DEFINE c == fds[i]
<1>4. /\ i \in 2 .. Len(fds) /\ c \in Clients /\ First = i
      /\ n + 1 \in 1 .. Len(arrivals) /\ arrivals[n + 1] = c /\ conn[c] \in Live
  BY <1>1, <1>3, InService
<1>5. conn' = [conn EXCEPT ![c] = "over"]
  BY <1>1
<1> HIDE DEF c
<1>6. CalcInv'
  <2>1. conn' \in [Clients -> ConnState]
    BY <1>2, <1>5 DEF CalcTypeOK, ConnState
  <2>2. \A d \in Clients :
          \/ conn'[d] = conn[d] /\ stage'[d] = stage[d]
          \/ conn[d] # "none" /\ conn'[d] = "over" /\ stage'[d] = stage[d]
    BY <1>1, <1>2, <1>4, <1>5 DEF CalcTypeOK, Live
  <2> QED
    BY <1>1, <1>2, <2>1, <2>2, ServerKeeps DEF CalcTypeOK
<1>7. /\ fds' \in Seq(Descriptor) /\ Len(fds') = Len(fds) /\ fds'[i] = Closed
      /\ \A k \in 1 .. Len(fds) : k # i => fds'[k] = fds[k]
  <2>1. fds \in Seq(Descriptor) /\ Closed \in Descriptor /\ i \in 1 .. Len(fds)
    BY <1>2, <1>4 DEF PollTypeOK, Descriptor
  <2> QED
    BY <1>1, <2>1, ExceptSeq
<1>8. PollTypeOK'
  <2>1. /\ i' \in 1 .. Len(fds') + 1 /\ currentSize' \in 1 .. Len(fds')
        /\ Len(fds') = Len(revents')
    BY <1>1, <1>2, <1>4, <1>7 DEF PollTypeOK, Sizes
  <2> QED
    BY <1>1, <1>2, <1>6, <1>7, <2>1 DEF PollTypeOK, CalcInv
<1>9. TableInv'
  <2>1. fds'[1] = Listener /\ currentSize' = Len(fds') /\ ~endServer'
    BY <1>1, <1>2, <1>4, <1>7 DEF TableInv, Sizes
  <2>2. \A k \in 2 .. Len(fds') : k < i' => fds'[k] = Closed
    BY <1>1, <1>2, <1>4, <1>7 DEF TableInv, Sizes
  <2>3. \A k \in 2 .. Len(fds') : k >= i' => fds'[k] \in Clients
    BY <1>1, <1>2, <1>4, <1>7 DEF TableInv, Sizes
  <2>4. \A k \in 1 .. Len(fds') : revents'[k] = "POLLIN"
    BY <1>1, <1>2, <1>7 DEF TableInv
  <2>5. compress' /\ pc' = "scan"
    BY <1>1
  <2> QED
    BY <2>1, <2>2, <2>3, <2>4, <2>5 DEF TableInv
<1>10. OrderAt(n + 1)'
  <2>1. First' = i + 1 /\ InTable' = InTable - 1
    BY <1>1, <1>2, <1>4, <1>7 DEF First, InTable, Sizes
  <2>2. Len(arrivals') = (n + 1) + InTable' + Len(backlog')
    <3>1. Len(arrivals) = n + InTable + Len(backlog)
      BY <1>3 DEF OrderAt
    <3> QED
      BY <1>1, <1>2, <2>1, <3>1 DEF Sizes
  <2>3. ASSUME NEW k \in First' .. Len(fds')
        PROVE  fds'[k] = arrivals'[(n + 1) + k - First' + 1]
    <3>1. k \in First .. Len(fds) /\ k # i /\ k \in 1 .. Len(fds)
      BY <1>2, <1>4, <1>7, <2>1 DEF Sizes
    <3>2. fds'[k] = fds[k] /\ fds[k] = arrivals[n + k - First + 1]
      BY <1>3, <1>7, <3>1 DEF OrderAt
    <3>3. (n + 1) + k - First' + 1 = n + k - First + 1
      BY <1>2, <1>4, <2>1, <3>1 DEF Sizes
    <3> QED
      BY <1>1, <3>2, <3>3
  <2>4. ASSUME NEW m \in 1 .. Len(backlog')
        PROVE  backlog'[m] = arrivals'[(n + 1) + InTable' + m]
    <3>1. (n + 1) + InTable' + m = n + InTable + m
      BY <1>2, <2>1 DEF Sizes
    <3> QED
      BY <1>1, <1>3, <3>1 DEF OrderAt
  <2>5. ASSUME NEW j \in 1 .. Len(arrivals)
        PROVE  /\ j <= n + 1 => conn'[arrivals[j]] = "over"
               /\ j > n + 1 => conn'[arrivals[j]] \in Live /\ stage'[arrivals[j]] = "none"
    <3>1. CASE j = n + 1
      BY <1>2, <1>4, <1>5, <3>1 DEF CalcTypeOK
    <3>2. CASE j # n + 1
      <4>1. arrivals[j] \in Clients /\ arrivals[j] # c
        BY <1>2, <1>3, <1>4, <3>2 DEF OrderAt, Members
      <4>2. conn'[arrivals[j]] = conn[arrivals[j]] /\ stage'[arrivals[j]] = stage[arrivals[j]]
        BY <1>1, <1>2, <1>5, <4>1 DEF CalcTypeOK
      <4> QED
        BY <1>3, <3>2, <4>2 DEF OrderAt
    <3> QED
      BY <3>1, <3>2
  <2> QED
    BY <1>1, <1>3, <2>2, <2>3, <2>4, <2>5 DEF OrderAt
<1> QED
  BY <1>6, <1>8, <1>9, <1>10 DEF PollInv

LEMMA ScanDoneKeeps == ASSUME PollInv, ScanDone PROVE PollInv'
<1>1. /\ pc = "scan" /\ i > currentSize /\ pc' = "compress"
      /\ UNCHANGED <<conn, asked, pending, typed, stage, buff, args, shown, fds, revents, i,
                     currentSize, compress, endServer, backlog, arrivals>>
  BY DEF ScanDone, calcVars, clientVars, stuffVars
<1>2. /\ CalcInv /\ CalcTypeOK /\ PollTypeOK /\ TableInv /\ Sizes
      /\ \E n \in Nat : OrderAt(n)
  BY <1>1, PollFacts
<1>3. i = Len(fds) + 1
  BY <1>1, <1>2 DEF TableInv, Sizes, PollTypeOK
<1>4. CalcInv'
  BY <1>1, <1>2, ServerKeeps DEF CalcTypeOK
<1>5. PollTypeOK'
  BY <1>1, <1>2, <1>4 DEF PollTypeOK, CalcInv
<1>6. TableInv'
  BY <1>1, <1>2, <1>3 DEF TableInv
<1>7. ASSUME NEW n \in Nat, OrderAt(n) PROVE OrderAt(n)'
  <2>1. First' = First /\ InTable' = InTable
    BY <1>1 DEF First, InTable
  <2> QED
    BY <1>1, <1>7, <2>1 DEF OrderAt
<1> QED
  BY <1>2, <1>4, <1>5, <1>6, <1>7 DEF PollInv

\* When everybody in the table was served, only the listener stays.
LEMMA SweptClean ==
  ASSUME PollTypeOK, Sizes, fds[1] = Listener, \A k \in 2 .. Len(fds) : fds[k] = Closed
  PROVE  Compressed(fds) = <<Listener>>
<1>1. DOMAIN fds = 1 .. Len(fds) /\ 1 \in 1 .. Len(fds)
  BY LenProperties DEF PollTypeOK, Sizes
<1>2. \A k \in 1 .. Len(fds) : k = 1 \/ k \in 2 .. Len(fds)
  BY DEF Sizes
<1>3. Kept(fds) = {1}
  BY <1>1, <1>2, PollAssumption DEF Kept
<1> DEFINE Rank(k) == Cardinality({j \in {1} : j <= k})
<1>4. {j \in {1} : j <= 1} = {1}
  OBVIOUS
<1>5. Cardinality({1}) = 1 /\ Rank(1) = 1
  BY <1>4, FS_Singleton
<1>6. Compressed(fds) = [n \in 1 .. Cardinality({1}) |-> fds[CHOOSE k \in {1} : Rank(k) = n]]
  BY <1>3 DEF Compressed
<1> HIDE DEF Rank
<1>7. (CHOOSE k \in {1} : Rank(k) = 1) = 1
  BY <1>5
<1>8. \A n \in 1 .. 1 : n = 1
  OBVIOUS
<1>9. \A n \in 1 .. 1 : fds[CHOOSE k \in {1} : Rank(k) = n] = Listener
  BY <1>7, <1>8
<1>10. Compressed(fds) = [n \in 1 .. 1 |-> Listener]
  BY <1>5, <1>6, <1>9
<1> QED
  BY <1>10

LEMMA CompressKeeps == ASSUME PollInv, Compress PROVE PollInv'
<1>1. /\ pc = "compress"
      /\ fds' = IF compress THEN Compressed(fds) ELSE fds
      /\ revents' = SubSeq(revents, 1, Len(fds'))
      /\ i' = 1 /\ currentSize' = Len(fds') /\ compress' = FALSE
      /\ UNCHANGED <<asked, pending, typed, stage, buff, args, shown, endServer, arrivals>>
  BY DEF Compress, stuffVars
<1>2. /\ CalcInv /\ CalcTypeOK /\ PollTypeOK /\ TableInv /\ Sizes
      /\ \E n \in Nat : OrderAt(n)
  BY <1>1, PollFacts
<1>3. pc' = "poll" /\ UNCHANGED <<conn, backlog>>
  BY <1>2 DEF Compress, TableInv
<1>4. /\ i = Len(fds) + 1 /\ fds[1] = Listener
      /\ \A k \in 2 .. Len(fds) : fds[k] = Closed
  BY <1>1, <1>2 DEF TableInv, Sizes
<1>5. fds' \in Seq(Descriptor) /\ Len(fds') = 1 /\ fds'[1] = Listener
  <2>1. CASE compress
    <3>1. fds' = <<Listener>>
      BY <1>1, <1>2, <1>4, <2>1, SweptClean
    <3> QED
      BY <3>1 DEF Descriptor
  <2>2. CASE ~compress
    <3>1. fds' = fds /\ Len(fds) = 1
      BY <1>1, <1>2, <1>4, <2>2 DEF TableInv, Sizes
    <3> QED
      BY <1>2, <1>4, <3>1 DEF PollTypeOK
  <2> QED
    BY <2>1, <2>2
<1>6. revents' \in Seq({"none", "POLLIN", "error"}) /\ Len(revents') = 1
  <2>1. revents \in Seq({"none", "POLLIN", "error"}) /\ Len(revents) >= 1
    BY <1>2 DEF PollTypeOK, Sizes
  <2>2. revents' = SubSeq(revents, 1, 1)
    BY <1>1, <1>5
  <2>3. revents[1] \in {"none", "POLLIN", "error"}
    BY <2>1, ElementOfSeq, LenProperties
  <2>4. Len(revents) \in Nat /\ 1 \in 1 .. Len(revents) + 1 /\ 1 \in 1 - 1 .. Len(revents)
    BY <2>1, LenProperties
  <2>5. revents' \in Seq({"none", "POLLIN", "error"})
    BY <2>1, <2>2, <2>4, SubSeqProperties
  <2>6. Len(revents') = 1
    BY <2>1, <2>2, <2>4, SubSeqProperties
  <2> QED
    BY <2>5, <2>6
<1>7. CalcInv'
  BY <1>1, <1>2, <1>3, ServerKeeps DEF CalcTypeOK
<1>8. PollTypeOK'
  <2>1. /\ i' \in 1 .. Len(fds') + 1 /\ currentSize' \in 1 .. Len(fds')
        /\ Len(fds') = Len(revents')
    BY <1>1, <1>5, <1>6
  <2> QED
    BY <1>1, <1>2, <1>3, <1>5, <1>6, <1>7, <2>1 DEF PollTypeOK, CalcInv
<1>9. TableInv'
  <2>1. ~endServer'
    BY <1>1, <1>2 DEF TableInv
  <2> QED
    BY <1>1, <1>3, <1>5, <2>1 DEF TableInv
<1>10. ASSUME NEW n \in Nat, OrderAt(n) PROVE OrderAt(n)'
  <2>1. First = Len(fds) + 1 /\ First' = 2 /\ InTable = 0 /\ InTable' = 0
    BY <1>1, <1>2, <1>4, <1>5 DEF First, InTable, Sizes
  <2>2. \A k \in First' .. Len(fds') : FALSE
    BY <1>5, <2>1
  <2> QED
    BY <1>1, <1>3, <1>10, <2>1, <2>2 DEF OrderAt
<1> QED
  BY <1>2, <1>7, <1>8, <1>9, <1>10 DEF PollInv

LEMMA PollUserKeeps ==
  ASSUME PollInv, NEW c \in Clients, PollUser(c) PROVE PollInv'
<1>1. /\ User(c)
      /\ UNCHANGED <<pc, fds, revents, i, currentSize, compress, endServer, backlog, arrivals>>
  BY DEF PollUser, mainVars
<1>2. CalcInv /\ PollTypeOK /\ TableInv /\ Members
  BY PollTypes DEF PollInv
<1>3. CalcInv'
  BY <1>1, <1>2, UserKeeps
<1>4. PollTypeOK'
  BY <1>1, <1>2, <1>3 DEF PollTypeOK, CalcInv
<1>5. TableInv'
  BY <1>1, <1>2 DEF TableInv
<1>6. /\ \A d \in Clients : d # c => conn'[d] = conn[d]
      /\ stage' = stage /\ conn[c] = "open" /\ conn'[c] \in Live
  BY <1>1, <1>2, UserEffect
<1>7. ASSUME NEW n \in Nat, OrderAt(n) PROVE OrderAt(n)'
  <2>1. First' = First /\ InTable' = InTable
    BY <1>1 DEF First, InTable
  <2>2. ASSUME NEW j \in 1 .. Len(arrivals)
        PROVE  /\ j <= n => conn'[arrivals[j]] = "over"
               /\ j > n => conn'[arrivals[j]] \in Live
    <3>1. arrivals[j] \in Clients
      BY <1>2 DEF Members
    <3>2. CASE arrivals[j] = c
      BY <1>6, <1>7, <3>2 DEF OrderAt
    <3>3. CASE arrivals[j] # c
      BY <1>6, <1>7, <3>1, <3>3 DEF OrderAt
    <3> QED
      BY <3>2, <3>3
  <2> QED
    BY <1>1, <1>6, <1>7, <2>1, <2>2 DEF OrderAt
<1> QED
  BY <1>1, <1>2, <1>3, <1>4, <1>5, <1>7 DEF PollInv

LEMMA PollStutters == ASSUME PollInv, UNCHANGED pollVars PROVE PollInv'
<1>1. UNCHANGED <<conn, asked, pending, typed, stage, buff, args, shown, pc, fds, revents, i,
                  currentSize, compress, endServer, backlog, arrivals>>
  BY DEF pollVars, calcVars, clientVars, stuffVars
<1>2. CalcInv /\ CalcTypeOK /\ PollTypeOK /\ TableInv
  BY DEF PollInv, CalcInv
<1>3. CalcInv'
  BY <1>1, <1>2, ServerKeeps DEF CalcTypeOK
<1>4. PollTypeOK'
  BY <1>1, <1>2, <1>3 DEF PollTypeOK, CalcInv
<1>5. TableInv'
  BY <1>1, <1>2 DEF TableInv
<1>6. ASSUME NEW n \in Nat, OrderAt(n) PROVE OrderAt(n)'
  <2>1. First' = First /\ InTable' = InTable
    BY <1>1 DEF First, InTable
  <2> QED
    BY <1>1, <1>6, <2>1 DEF OrderAt
<1> QED
  BY <1>1, <1>3, <1>4, <1>5, <1>6 DEF PollInv

LEMMA PollInvStep == PollInv /\ [PollNext]_pollVars => PollInv'
<1> SUFFICES ASSUME PollInv, [PollNext]_pollVars PROVE PollInv'
  OBVIOUS
<1>1. CASE Server
  BY <1>1, PollKeeps, PollAcceptKeeps, AdvanceKeeps, ServeKeeps, PollDoStuffKeeps,
     EndServiceKeeps, DieKeeps, ScanDoneKeeps, CompressKeeps DEF Server
<1>2. CASE TimeOut
  BY <1>2, TimeOutKeeps
<1>3. ASSUME NEW c \in Clients, PollConnect(c) \/ PollUser(c) PROVE PollInv'
  BY <1>3, PollConnectKeeps, PollUserKeeps
<1>4. CASE UNCHANGED pollVars
  BY <1>4, PollStutters
<1> QED
  BY <1>1, <1>2, <1>3, <1>4 DEF PollNext

LEMMA PollInvHolds == PollSpec => []PollInv
  BY PollInvInit, PollInvStep, PTL DEF PollSpec

-----------------------------------------------------------------------------
(* The theorems about the poll server. *)

\* Every variable of the poll server and of its clients keeps its type: no
\* index leaves the table, and fds and revents stay of one length.
THEOREM PollTypeCorrect == PollSpec => []PollTypeOK
<1>1. PollInv => PollTypeOK
  BY DEF PollInv
<1> QED
  BY <1>1, PollInvHolds, PTL

\* Whenever the server polls, it polls its listening socket only, whoever came
\* while it scanned, and it never takes the way out of an unexpected event.
THEOREM PollsListenerAloneHolds == PollSpec => []PollsListenerAlone
<1>1. PollInv => PollsListenerAlone
  <2> SUFFICES ASSUME PollInv PROVE PollsListenerAlone
    OBVIOUS
  <2>1. TableInv /\ PollTypeOK /\ Sizes
    BY PollTypes DEF PollInv
  <2>2. ASSUME pc = "poll" PROVE fds = <<Listener>>
    <3>1. fds \in Seq(Descriptor) /\ Len(fds) = 1 /\ fds[1] = Listener
      BY <2>1, <2>2 DEF TableInv, PollTypeOK
    <3> QED
      BY <3>1
  <2>3. pc = "scan" => \A k \in 1 .. currentSize : revents[k] = "POLLIN"
    BY <2>1 DEF TableInv
  <2> QED
    BY <2>1, <2>2, <2>3 DEF PollsListenerAlone, TableInv
<1> QED
  BY <1>1, PollInvHolds, PTL

\* The poll server serves in the order of arrival, whatever table, backlog and
\* scan do meanwhile, and serves nobody twice.
THEOREM ServedInOrderHolds == PollSpec => []ServedInOrder
<1>1. PollInv => ServedInOrder
  <2> SUFFICES ASSUME PollInv, pc # "ended"
               PROVE  \E k \in 1 .. Len(fds) + 1, n \in 0 .. Len(arrivals) :
                        /\ \A j \in 1 .. Len(fds) : fds[j] \in Clients <=> j >= k
                        /\ \A j \in 1 .. Len(arrivals) : conn[arrivals[j]] = "over" <=> j <= n
                        /\ SubSeq(arrivals, n + 1, Len(arrivals))
                             = SubSeq(fds, k, Len(fds)) \o backlog
    BY DEF ServedInOrder
  <2>1. TableInv /\ PollTypeOK /\ Sizes /\ Members
    BY PollFacts
  <2>2. PICK n \in Nat : OrderAt(n)
    BY PollFacts
  <2>3. First \in 1 .. Len(fds) + 1 /\ n \in 0 .. Len(arrivals)
    BY <2>1, <2>2 DEF Sizes, OrderAt
  <2>4. ASSUME NEW j \in 1 .. Len(fds) PROVE fds[j] \in Clients <=> j >= First
    <3>1. CASE j = 1
      BY <2>1, <3>1, PollAssumption DEF TableInv, Sizes
    <3>2. CASE j \in 2 .. Len(fds) /\ j < i
      BY <2>1, <3>2, PollAssumption DEF TableInv, Sizes
    <3>3. CASE j \in 2 .. Len(fds) /\ j >= i
      BY <2>1, <3>3 DEF TableInv, Sizes, First
    <3> QED
      BY <2>1, <3>1, <3>2, <3>3 DEF Sizes
  <2>5. \A j \in 1 .. Len(arrivals) : conn[arrivals[j]] = "over" <=> j <= n
    <3>1. ASSUME NEW j \in 1 .. Len(arrivals) PROVE conn[arrivals[j]] = "over" <=> j <= n
      <4>1. /\ j <= n => conn[arrivals[j]] = "over"
            /\ j > n => conn[arrivals[j]] \in Live
        BY <2>2 DEF OrderAt
      <4>2. j \in Int /\ (j <= n \/ j > n)
        BY <2>1, <2>2 DEF Sizes
      <4> QED
        BY <4>1, <4>2 DEF Live
    <3> QED
      BY <3>1
  <2> DEFINE rest == SubSeq(arrivals, n + 1, Len(arrivals))
             left == SubSeq(fds, First, Len(fds))
  <2>6. /\ arrivals \in Seq(Clients) /\ backlog \in Seq(Clients) /\ fds \in Seq(Descriptor)
        /\ Clients \subseteq Descriptor
    BY <2>1 DEF PollTypeOK, Descriptor
  <2>7. arrivals \in Seq(Descriptor) /\ backlog \in Seq(Descriptor)
    BY <2>6, SeqMonotonic
  <2>8. /\ rest \in Seq(Descriptor) /\ Len(rest) = Len(arrivals) - n
        /\ \A j \in 1 .. Len(rest) : rest[j] = arrivals[n + j]
    <3>1. /\ Len(arrivals) \in Nat /\ n <= Len(arrivals)
          /\ n + 1 \in 1 .. Len(arrivals) + 1 /\ Len(arrivals) \in (n + 1) - 1 .. Len(arrivals)
      BY <2>1, <2>3 DEF Sizes
    <3>2. /\ rest \in Seq(Descriptor)
          /\ Len(rest) = (IF n + 1 <= Len(arrivals) THEN Len(arrivals) - (n + 1) + 1 ELSE 0)
          /\ \A j \in 1 .. Len(arrivals) - (n + 1) + 1 : rest[j] = arrivals[(n + 1) + j - 1]
      BY <2>7, <3>1, SubSeqProperties
    <3>3. Len(rest) = Len(arrivals) - n /\ Len(arrivals) - (n + 1) + 1 = Len(arrivals) - n
      BY <3>1, <3>2
    <3> HIDE DEF rest
    <3>4. ASSUME NEW j \in 1 .. Len(rest) PROVE rest[j] = arrivals[n + j]
      <4>1. j \in 1 .. Len(arrivals) - (n + 1) + 1 /\ (n + 1) + j - 1 = n + j
        BY <2>2, <3>3
      <4> QED
        BY <3>2, <4>1
    <3> QED
      BY <3>2, <3>3, <3>4
  <2>9. /\ left \in Seq(Descriptor) /\ Len(left) = InTable
        /\ \A j \in 1 .. Len(left) : left[j] = fds[First + j - 1]
    BY <2>1, <2>6 DEF Sizes
  <2> HIDE DEF rest, left
  <2>10. /\ left \o backlog \in Seq(Descriptor)
         /\ Len(left \o backlog) = InTable + Len(backlog)
         /\ \A j \in 1 .. InTable : (left \o backlog)[j] = left[j]
         /\ \A j \in InTable + 1 .. InTable + Len(backlog) :
              (left \o backlog)[j] = backlog[j - InTable]
    <3>1. Len(left) = InTable /\ InTable \in Nat /\ Len(backlog) \in Nat
      BY <2>1, <2>9 DEF Sizes
    <3>2. /\ left \o backlog \in Seq(Descriptor)
          /\ Len(left \o backlog) = Len(left) + Len(backlog)
          /\ \A j \in 1 .. Len(left) + Len(backlog) :
               (left \o backlog)[j] = IF j <= Len(left) THEN left[j] ELSE backlog[j - Len(left)]
      BY <2>7, <2>9, ConcatProperties
    <3> HIDE DEF InTable
    <3> QED
      BY <3>1, <3>2
  <2>11. Len(rest) = Len(left \o backlog)
    BY <2>1, <2>2, <2>8, <2>10 DEF Sizes, OrderAt
  <2>12. ASSUME NEW j \in 1 .. Len(rest) PROVE rest[j] = (left \o backlog)[j]
    <3>1. CASE j \in 1 .. InTable
      <4>1. First + j - 1 \in First .. Len(fds) /\ n + (First + j - 1) - First + 1 = n + j
        BY <2>1, <3>1 DEF Sizes
      <4>2. fds[First + j - 1] = arrivals[n + j]
        BY <2>2, <4>1 DEF OrderAt
      <4> QED
        BY <2>8, <2>9, <2>10, <3>1, <4>2
    <3>2. CASE j \in InTable + 1 .. InTable + Len(backlog)
      <4>1. j - InTable \in 1 .. Len(backlog) /\ n + InTable + (j - InTable) = n + j
        BY <2>1, <3>2 DEF Sizes
      <4>2. backlog[j - InTable] = arrivals[n + j]
        BY <2>2, <4>1 DEF OrderAt
      <4> QED
        BY <2>8, <2>10, <3>2, <4>2
    <3> QED
      BY <2>1, <2>10, <2>11, <3>1, <3>2 DEF Sizes
  <2>13. rest = left \o backlog
    BY <2>8, <2>10, <2>11, <2>12, SeqEqual
  <2> QED
    BY <2>3, <2>4, <2>5, <2>13 DEF rest, left
<1> QED
  BY <1>1, PollInvHolds, PTL

\* Under the poll server every dialogue stays in step until its result is
\* written: no line is read as the answer to another question than its own.
THEOREM PollDialoguesInStep == PollSpec => []InStep
<1>1. PollInv => InStep
  BY CalcInvImplies DEF PollInv
<1> QED
  BY <1>1, PollInvHolds, PTL

\* Under the poll server a client that answered is shown the result of its own
\* operation on its own operands.
THEOREM PollResultsAreOwn == PollSpec => []OwnResult
<1>1. PollInv => OwnResult
  BY CalcInvImplies DEF PollInv
<1> QED
  BY <1>1, PollInvHolds, PTL
=============================================================================
