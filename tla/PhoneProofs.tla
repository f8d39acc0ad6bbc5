----------------------------- MODULE PhoneProofs -----------------------------
(***************************************************************************)
(* Proofs about PhoneList, for any heap and any names: whatever is         *)
(* inserted, removed, redacted and read, the pointers are a sequence.      *)
(*                                                                         *)
(* ListOf(h, hd, w) says that the sequence w of cells is the list from hd: *)
(* next leads through w to its end, prev through it backwards.  Such a     *)
(* sequence visits no cell twice, hence ends, and the loops of the program *)
(* walk it.                                                                *)
(***************************************************************************)
EXTENDS PhoneList, FiniteSetTheorems, SequenceTheorems, NaturalsInduction, WellFoundedInduction,
        TLAPS

-----------------------------------------------------------------------------
(* Numbers. *)

LEMMA LeastOf == ASSUME NEW S, S \subseteq Nat, S # {} PROVE \E x \in S : \A y \in S : x <= y
<1>1. IsWellFoundedOn(OpToRel(<, Nat), Nat)
  BY NatLessThanWellFounded
<1>2. PICK x \in S : \A y \in S : ~(<<y, x>> \in OpToRel(<, Nat))
  BY <1>1, WFMin
<1>3. \A y \in Nat : y < x => <<y, x>> \in OpToRel(<, Nat)
  BY Zenon DEF OpToRel
<1>4. \A y \in S : ~(y < x)
  BY <1>2, <1>3, Zenon
<1> QED
  BY <1>4

LEMMA FirstIs ==
  ASSUME NEW n \in Nat, NEW S, S \subseteq 1 .. n
  PROVE  /\ S = {} => First(S) = 0
         /\ S # {} => First(S) \in S /\ \A j \in S : First(S) <= j
         /\ First(S) \in 0 .. n
<1>1. CASE S = {}
  BY <1>1 DEF First
<1>2. CASE S # {}
  <2>1. S \subseteq Nat
    OBVIOUS
  <2>2. \E k \in S : \A j \in S : k <= j
    BY <1>2, <2>1, LeastOf
  <2>3. First(S) \in S /\ \A j \in S : First(S) <= j
    BY <1>2, <2>2 DEF First
  <2>4. First(S) \in 1 .. n
    BY <2>3
  <2> QED
    BY <1>2, <2>3, <2>4
<1> QED
  BY <1>1, <1>2

LEMMA SizeIsNat == Cardinality(Cells) \in Nat
BY PhoneAssumption, FS_CardinalityType

-----------------------------------------------------------------------------
(* The walk. *)

Follows(h, c, n, f) ==
  f = [m \in 0 .. n |-> IF m = 0 THEN c
                        ELSE IF f[m - 1] = NULL THEN NULL ELSE h[f[m - 1]].next]

LEMMA CurrentExists == ASSUME NEW h, NEW c, NEW n \in Nat PROVE \E f : Follows(h, c, n, f)
<1> DEFINE After(x) == IF x = NULL THEN NULL ELSE h[x].next
           Right(m, f) == /\ f = [k \in 0 .. m |-> f[k]] /\ f[0] = c
                          /\ \A k \in 1 .. m : f[k] = After(f[k - 1])
           Wrong == {m \in Nat : ~\E f : Right(m, f)}
<1> HIDE DEF After
<1>1. ASSUME NEW m \in Nat, \E f : Right(m, f) PROVE \E f : Right(m + 1, f)
  <2>1. PICK f : Right(m, f)
    BY <1>1
  <2> DEFINE g == [k \in 0 .. m + 1 |-> IF k = m + 1 THEN After(f[m]) ELSE f[k]]
  <2>2. /\ g = [k \in 0 .. m + 1 |-> g[k]] /\ g[0] = c /\ g[m + 1] = After(f[m])
        /\ \A k \in 0 .. m : g[k] = f[k]
    BY <2>1
  <2> HIDE DEF g
  <2>3. ASSUME NEW k \in 1 .. m + 1 PROVE g[k] = After(g[k - 1])
    <3>1. CASE k = m + 1
      <4>1. k - 1 = m /\ m \in 0 .. m
        BY <3>1
      <4> QED
        BY <2>2, <3>1, <4>1
    <3>2. CASE k # m + 1
      <4>1. k \in 1 .. m /\ k \in 0 .. m /\ k - 1 \in 0 .. m
        BY <3>2
      <4> QED
        BY <2>1, <2>2, <4>1
    <3> QED
      BY <3>1, <3>2
  <2> QED
    BY <2>2, <2>3
<1>2. \E f : Right(0, f)
  <2> DEFINE g == [k \in 0 .. 0 |-> c]
  <2>1. Right(0, g)
    OBVIOUS
  <2> QED
    BY <2>1
<1>3. Wrong = {}
  <2> SUFFICES ASSUME Wrong # {} PROVE FALSE
    OBVIOUS
  <2>1. PICK m \in Wrong : \A k \in Wrong : m <= k
    <3>1. Wrong \subseteq Nat
      OBVIOUS
    <3> HIDE DEF Wrong
    <3> QED
      BY <3>1, LeastOf
  <2>2. m # 0
    BY <1>2
  <2>3. m - 1 \in Nat /\ ~(m <= m - 1) /\ (m - 1) + 1 = m
    BY <2>2
  <2>4. m - 1 \notin Wrong
    BY <2>1, <2>3
  <2>5. \E f : Right(m - 1, f)
    BY <2>3, <2>4
  <2>6. \E f : Right((m - 1) + 1, f)
    BY <1>1, <2>3, <2>5
  <2> QED
    BY <2>3, <2>6
<1>4. PICK f : Right(n, f)
  BY <1>3
<1>5. ASSUME NEW k \in 0 .. n PROVE f[k] = IF k = 0 THEN c ELSE After(f[k - 1])
  <2>1. k = 0 \/ k \in 1 .. n
    OBVIOUS
  <2> QED
    BY <1>4, <2>1
<1>6. f = [k \in 0 .. n |-> IF k = 0 THEN c ELSE After(f[k - 1])]
  BY <1>4, <1>5
<1>7. Follows(h, c, n, f)
  BY <1>6 DEF After, Follows
<1> QED
  BY <1>7

LEMMA CurrentIs ==
  ASSUME NEW h \in [Cells -> Node], NEW c \in Pointer
  PROVE  /\ Current(h, c) \in [0 .. Cardinality(Cells) -> Pointer]
         /\ Current(h, c)[0] = c
         /\ \A n \in 1 .. Cardinality(Cells) :
              Current(h, c)[n] = IF Current(h, c)[n - 1] = NULL THEN NULL
                                 ELSE h[Current(h, c)[n - 1]].next
<1> DEFINE N == Cardinality(Cells)
           at == Current(h, c)
<1>1. N \in Nat
  BY SizeIsNat
<1>2. at = [n \in 0 .. N |-> IF n = 0 THEN c
                             ELSE IF at[n - 1] = NULL THEN NULL ELSE h[at[n - 1]].next]
  <2>1. \E f : Follows(h, c, N, f)
    BY <1>1, CurrentExists
  <2>2. at = CHOOSE f : Follows(h, c, N, f)
    BY DEF Current, Follows
  <2>3. Follows(h, c, N, at)
    BY <2>1, <2>2
  <2> QED
    BY <2>3 DEF Follows
<1> HIDE DEF at
<1>3. /\ at[0] = c /\ DOMAIN at = 0 .. N
      /\ at = [n \in 0 .. N |-> at[n]]
  BY <1>1, <1>2
<1>4. ASSUME NEW n \in 1 .. N
      PROVE  at[n] = IF at[n - 1] = NULL THEN NULL ELSE h[at[n - 1]].next
  <2>1. n \in 0 .. N /\ n # 0
    BY <1>1
  <2> QED
    BY <1>2, <2>1
<1>5. ASSUME NEW x \in Cells PROVE h[x].next \in Pointer
  BY DEF Node
<1> DEFINE Wrong == {n \in 0 .. N : at[n] \notin Pointer}
<1>6. Wrong = {}
  <2> SUFFICES ASSUME Wrong # {} PROVE FALSE
    OBVIOUS
  <2>1. PICK m \in Wrong : \A k \in Wrong : m <= k
    <3>1. Wrong \subseteq Nat
      OBVIOUS
    <3> HIDE DEF Wrong
    <3> QED
      BY <3>1, LeastOf
  <2>2. m \in 0 .. N /\ at[m] \notin Pointer /\ m # 0
    BY <1>3
  <2>3. m \in 1 .. N /\ m - 1 \in 0 .. N /\ ~(m <= m - 1)
    BY <1>1, <2>2
  <2>4. at[m - 1] \in Pointer
    BY <2>1, <2>3
  <2>5. at[m] = IF at[m - 1] = NULL THEN NULL ELSE h[at[m - 1]].next
    BY <1>4, <2>3
  <2> QED
    BY <1>5, <2>2, <2>4, <2>5 DEF Pointer
<1>7. at \in [0 .. N -> Pointer]
  BY <1>3, <1>6
<1> QED
  BY <1>3, <1>4, <1>7 DEF at

\* The loop sees cells first and then NULL for ever.
LEMMA WalkLength ==
  ASSUME NEW h \in [Cells -> Node], NEW c \in Pointer
  PROVE  \E m \in 0 .. Cardinality(Cells) + 1 :
           /\ Walk(h, c) = [k \in 1 .. m |-> Current(h, c)[k - 1]]
           /\ \A n \in 0 .. Cardinality(Cells) : Current(h, c)[n] # NULL <=> n < m
<1> DEFINE N == Cardinality(Cells)
           at == Current(h, c)
           Seen == {n \in 0 .. N : at[n] # NULL}
           Over == {n \in 0 .. N : at[n] = NULL}
<1>1. N \in Nat /\ at \in [0 .. N -> Pointer]
      /\ \A n \in 1 .. N : at[n] = IF at[n - 1] = NULL THEN NULL ELSE h[at[n - 1]].next
  BY SizeIsNat, CurrentIs
<1>2. Walk(h, c) = [k \in 1 .. Cardinality(Seen) |-> at[k - 1]]
  <2>1. DOMAIN at = 0 .. N
    BY <1>1
  <2> QED
    BY <2>1 DEF Walk
<1> HIDE DEF at, N
<1>3. ASSUME NEW m \in 0 .. N + 1, \A n \in 0 .. N : at[n] # NULL <=> n < m
      PROVE  Cardinality(Seen) = m
  <2>1. Seen = 0 .. m - 1
    BY <1>1, <1>3
  <2>2. 0 \in Int /\ m - 1 \in Int /\ (m - 1) - 0 + 1 = m /\ (0 > m - 1 => m = 0)
    BY <1>1
  <2> QED
    BY <2>1, <2>2, FS_Interval
<1>4. CASE Over = {}
  <2>1. \A n \in 0 .. N : at[n] # NULL <=> n < N + 1
    BY <1>1, <1>4
  <2>2. N + 1 \in 0 .. N + 1
    BY <1>1
  <2>3. Cardinality(Seen) = N + 1
    BY <1>3, <2>1, <2>2
  <2> QED
    BY <1>2, <2>1, <2>2, <2>3 DEF N, at
<1>5. CASE Over # {}
  <2>1. PICK m \in Over : \A n \in Over : m <= n
    <3>1. Over \subseteq Nat
      BY <1>1
    <3> HIDE DEF Over
    <3> QED
      BY <1>5, <3>1, LeastOf
  <2>2. m \in 0 .. N /\ at[m] = NULL /\ m \in 0 .. N + 1
    BY <1>1
  <2> DEFINE Back == {n \in 0 .. N : n >= m /\ at[n] # NULL}
  <2>3. Back = {}
    <3> SUFFICES ASSUME Back # {} PROVE FALSE
      OBVIOUS
    <3>1. PICK x \in Back : \A y \in Back : x <= y
      <4>1. Back \subseteq Nat
        BY <1>1
      <4> HIDE DEF Back
      <4> QED
        BY <4>1, LeastOf
    <3>2. x \in 0 .. N /\ x >= m /\ at[x] # NULL /\ x # m
      BY <2>2
    <3>3. x \in 1 .. N /\ x - 1 \in 0 .. N /\ x - 1 >= m /\ ~(x <= x - 1)
      BY <1>1, <2>2, <3>2
    <3>4. at[x - 1] = NULL
      BY <3>1, <3>3
    <3> QED
      BY <1>1, <3>2, <3>3, <3>4
  <2>4. ASSUME NEW n \in 0 .. N PROVE at[n] # NULL <=> n < m
    <3>1. CASE n < m
      <4>1. ~(m <= n)
        BY <1>1, <2>2, <3>1
      <4> QED
        BY <2>1, <3>1, <4>1
    <3>2. CASE ~(n < m)
      <4>1. n >= m
        BY <1>1, <2>2, <3>2
      <4> QED
        BY <2>3, <3>2, <4>1
    <3> QED
      BY <3>1, <3>2
  <2>5. Cardinality(Seen) = m
    BY <1>3, <2>2, <2>4
  <2> QED
    BY <1>2, <2>2, <2>4, <2>5 DEF N, at
<1> QED
  BY <1>4, <1>5

LEMMA FunctionIsSeq ==
  ASSUME NEW S, NEW n \in Nat, NEW f \in [1 .. n -> S]
  PROVE  f \in Seq(S) /\ Len(f) = n
OBVIOUS

LEMMA WalkType ==
  ASSUME NEW h \in [Cells -> Node], NEW c \in Pointer
  PROVE  /\ Walk(h, c) \in Seq(Cells) /\ Len(Walk(h, c)) \in Nat
         /\ c # NULL => Len(Walk(h, c)) >= 1
<1> DEFINE N == Cardinality(Cells)
           at == Current(h, c)
<1>1. N \in Nat /\ at \in [0 .. N -> Pointer] /\ at[0] = c
  BY SizeIsNat, CurrentIs
<1>2. PICK m \in 0 .. N + 1 : /\ Walk(h, c) = [k \in 1 .. m |-> at[k - 1]]
                              /\ \A n \in 0 .. N : at[n] # NULL <=> n < m
  BY WalkLength
<1> HIDE DEF at, N
<1>3. ASSUME NEW k \in 1 .. m PROVE at[k - 1] \in Cells
  <2>1. k - 1 \in 0 .. N /\ k - 1 < m
    BY <1>1
  <2> QED
    BY <1>1, <1>2, <2>1 DEF Pointer
<1>4. m \in Nat /\ Walk(h, c) \in [1 .. m -> Cells]
  BY <1>1, <1>2, <1>3
<1>5. Walk(h, c) \in Seq(Cells) /\ Len(Walk(h, c)) = m
  BY <1>4, FunctionIsSeq
<1>6. c # NULL => m >= 1
  BY <1>1, <1>2
<1> QED
  BY <1>4, <1>5, <1>6

-----------------------------------------------------------------------------
(* Lists. *)

ListOf(h, hd, w) ==
  /\ w \in Seq(Cells)
  /\ hd = IF Len(w) = 0 THEN NULL ELSE w[1]
  /\ \A k \in 1 .. Len(w) : /\ h[w[k]].next = IF k = Len(w) THEN NULL ELSE w[k + 1]
                            /\ h[w[k]].prev = IF k = 1 THEN NULL ELSE w[k - 1]

CellsOf(w) == {w[k] : k \in 1 .. Len(w)}

OnceEach(w) == \A j, k \in 1 .. Len(w) : w[j] = w[k] => j = k

LEMMA ListTypes ==
  ASSUME NEW h, NEW hd, NEW w, ListOf(h, hd, w)
  PROVE  /\ Len(w) \in Nat /\ w \in [1 .. Len(w) -> Cells] /\ DOMAIN w = 1 .. Len(w)
         /\ \A k \in 1 .. Len(w) : w[k] \in Cells /\ w[k] # NULL
BY LenProperties, PhoneAssumption DEF ListOf

\* A list visits no cell twice: two visits of a cell would have come from two
\* visits of the cell before.
LEMMA ListVisitsOnce ==
  ASSUME NEW h, NEW hd, NEW w, ListOf(h, hd, w) PROVE OnceEach(w)
<1> DEFINE Twice == {k \in 1 .. Len(w) : \E j \in 1 .. Len(w) : k < j /\ w[k] = w[j]}
<1>1. Len(w) \in Nat /\ \A k \in 1 .. Len(w) : w[k] # NULL
  BY ListTypes
<1>2. Twice = {}
  <2> SUFFICES ASSUME Twice # {} PROVE FALSE
    OBVIOUS
  <2>1. PICK m \in Twice : \A k \in Twice : m <= k
    <3>1. Twice \subseteq Nat
      OBVIOUS
    <3> HIDE DEF Twice
    <3> QED
      BY <3>1, LeastOf
  <2>2. m \in 1 .. Len(w)
    OBVIOUS
  <2>3. PICK j \in 1 .. Len(w) : m < j /\ w[m] = w[j]
    OBVIOUS
  <2>4. /\ h[w[m]].prev = IF m = 1 THEN NULL ELSE w[m - 1]
        /\ h[w[j]].prev = IF j = 1 THEN NULL ELSE w[j - 1]
    BY <2>2 DEF ListOf
  <2>5. j # 1 /\ j - 1 \in 1 .. Len(w)
    BY <1>1, <2>2, <2>3
  <2>6. m # 1
    BY <1>1, <2>3, <2>4, <2>5
  <2>7. m - 1 \in 1 .. Len(w) /\ m - 1 < j - 1 /\ ~(m <= m - 1)
    BY <1>1, <2>2, <2>3, <2>5, <2>6
  <2>8. w[m - 1] = w[j - 1]
    BY <2>3, <2>4, <2>5, <2>6
  <2>9. m - 1 \in Twice
    BY <2>5, <2>7, <2>8
  <2> QED
    BY <2>1, <2>7, <2>9
<1>3. ASSUME NEW j \in 1 .. Len(w), NEW k \in 1 .. Len(w), w[j] = w[k] PROVE j = k
  <2>1. ~(j < k) /\ ~(k < j)
    BY <1>2, <1>3
  <2> QED
    BY <1>1, <2>1
<1> QED
  BY <1>3 DEF OnceEach

LEMMA ListIsShort ==
  ASSUME NEW h, NEW hd, NEW w, ListOf(h, hd, w)
  PROVE  Len(w) <= Cardinality(Cells)
<1>1. Len(w) \in Nat /\ w \in [1 .. Len(w) -> Cells] /\ OnceEach(w)
  BY ListTypes, ListVisitsOnce
<1>2. w \in Injection(1 .. Len(w), Cells)
  BY <1>1 DEF OnceEach, Injection, IsInjective
<1>3. Cardinality(1 .. Len(w)) <= Cardinality(Cells)
  BY <1>2, PhoneAssumption, FS_Injection
<1>4. Cardinality(1 .. Len(w)) = Len(w)
  <2>1. 1 \in Int /\ Len(w) \in Int
    BY <1>1
  <2>2. Cardinality(1 .. Len(w)) = IF 1 > Len(w) THEN 0 ELSE Len(w) - 1 + 1
    BY <2>1, FS_Interval
  <2> QED
    BY <1>1, <2>2
<1> QED
  BY <1>3, <1>4

\* The loops of the program walk the list, and end.
LEMMA ListIsWalked ==
  ASSUME NEW h \in [Cells -> Node], NEW hd \in Pointer, NEW w, ListOf(h, hd, w)
  PROVE  Walk(h, hd) = w /\ ~Endless(h, hd)
<1> DEFINE N == Cardinality(Cells)
           at == Current(h, hd)
           L == Len(w)
           Wrong == {n \in 0 .. N : at[n] # IF n < L THEN w[n + 1] ELSE NULL}
<1>1. /\ N \in Nat /\ at[0] = hd
      /\ \A n \in 1 .. N : at[n] = IF at[n - 1] = NULL THEN NULL ELSE h[at[n - 1]].next
  BY SizeIsNat, CurrentIs
<1>2. PICK m \in 0 .. N + 1 : /\ Walk(h, hd) = [k \in 1 .. m |-> at[k - 1]]
                              /\ \A n \in 0 .. N : at[n] # NULL <=> n < m
  BY WalkLength
<1>3. /\ L \in Nat /\ L <= N
      /\ w = [k \in 1 .. L |-> w[k]]
      /\ \A k \in 1 .. L : w[k] # NULL
  BY ListTypes, ListIsShort
<1>4. /\ hd = IF L = 0 THEN NULL ELSE w[1]
      /\ \A k \in 1 .. L : h[w[k]].next = IF k = L THEN NULL ELSE w[k + 1]
  BY DEF ListOf
<1> HIDE DEF at, N, L
<1>5. Wrong = {}
  <2> SUFFICES ASSUME Wrong # {} PROVE FALSE
    OBVIOUS
  <2>1. PICK n \in Wrong : \A k \in Wrong : n <= k
    <3>1. Wrong \subseteq Nat
      BY <1>1
    <3> HIDE DEF Wrong
    <3> QED
      BY <3>1, LeastOf
  <2>2. n \in 0 .. N /\ at[n] # IF n < L THEN w[n + 1] ELSE NULL
    OBVIOUS
  <2>3. n # 0
    BY <1>1, <1>3, <1>4, <2>2
  <2>4. n \in 1 .. N /\ n - 1 \in 0 .. N /\ ~(n <= n - 1) /\ (n - 1) + 1 = n
    BY <1>1, <2>2, <2>3
  <2>5. at[n - 1] = IF n - 1 < L THEN w[n] ELSE NULL
    BY <2>1, <2>4
  <2>6. at[n] = IF at[n - 1] = NULL THEN NULL ELSE h[at[n - 1]].next
    BY <1>1, <2>4
  <2>7. CASE n - 1 < L
    <3>1. n \in 1 .. L
      BY <1>1, <1>3, <2>4, <2>7
    <3>2. at[n] = IF n = L THEN NULL ELSE w[n + 1]
      BY <1>3, <1>4, <2>5, <2>6, <2>7, <3>1
    <3> QED
      BY <1>3, <2>2, <3>1, <3>2
  <2>8. CASE ~(n - 1 < L)
    <3>1. ~(n < L)
      BY <1>1, <1>3, <2>4, <2>8
    <3> QED
      BY <2>2, <2>5, <2>6, <2>8, <3>1
  <2> QED
    BY <2>7, <2>8
<1>6. ASSUME NEW n \in 0 .. N PROVE at[n] = IF n < L THEN w[n + 1] ELSE NULL
  BY <1>5
<1>7. m = L
  <2>1. ASSUME m < L PROVE FALSE
    <3>1. m \in 0 .. N /\ m + 1 \in 1 .. L /\ ~(m < m)
      BY <1>1, <1>3, <2>1
    <3> QED
      BY <1>2, <1>3, <1>6, <2>1, <3>1
  <2>2. ASSUME m > L PROVE FALSE
    <3>1. L \in 0 .. N /\ L < m /\ ~(L < L)
      BY <1>1, <1>3, <2>2
    <3> QED
      BY <1>2, <1>6, <3>1
  <2> QED
    BY <1>1, <1>3, <2>1, <2>2
<1>8. ASSUME NEW k \in 1 .. L PROVE at[k - 1] = w[k]
  <2>1. k - 1 \in 0 .. N /\ k - 1 < L /\ (k - 1) + 1 = k
    BY <1>1, <1>3
  <2> QED
    BY <1>6, <2>1
<1>9. Walk(h, hd) = w
  BY <1>2, <1>3, <1>7, <1>8
<1> QED
  BY <1>1, <1>3, <1>9 DEF Endless, L, N

-----------------------------------------------------------------------------
(* A sequence with one element more, or less. *)

InsertAt(s, k, x) ==
  [j \in 1 .. Len(s) + 1 |-> IF j < k THEN s[j] ELSE IF j = k THEN x ELSE s[j - 1]]

RemoveAt(s, k) == [j \in 1 .. Len(s) - 1 |-> IF j < k THEN s[j] ELSE s[j + 1]]

LEMMA BeforeFrom ==
  ASSUME NEW S, NEW s \in Seq(S), NEW k \in 1 .. Len(s) + 1
  PROVE  /\ Before(s, k) \in Seq(S) /\ Len(Before(s, k)) = k - 1
         /\ \A j \in 1 .. k - 1 : Before(s, k)[j] = s[j]
         /\ From(s, k) \in Seq(S) /\ Len(From(s, k)) = Len(s) - k + 1
         /\ \A j \in 1 .. Len(s) - k + 1 : From(s, k)[j] = s[k + j - 1]
<1>1. Len(s) \in Nat /\ k \in Int /\ k - 1 \in Int /\ 1 \in Int /\ Len(s) \in Int
  BY LenProperties
<1>2. \A j \in 1 .. Len(s) : s[j] \in S
  BY ElementOfSeq
<1>3. /\ \A j \in 1 .. k - 1 : j \in 1 .. Len(s)
      /\ \A j \in k .. Len(s) : j \in 1 .. Len(s)
  BY <1>1
<1>4. /\ SubSeq(s, 1, k - 1) \in Seq(S)
      /\ Len(SubSeq(s, 1, k - 1)) = IF 1 <= k - 1 THEN (k - 1) - 1 + 1 ELSE 0
      /\ \A j \in 1 .. (k - 1) - 1 + 1 : SubSeq(s, 1, k - 1)[j] = s[1 + j - 1]
  BY <1>1, <1>2, <1>3, SubSeqProperties
<1>5. /\ SubSeq(s, k, Len(s)) \in Seq(S)
      /\ Len(SubSeq(s, k, Len(s))) = IF k <= Len(s) THEN Len(s) - k + 1 ELSE 0
      /\ \A j \in 1 .. Len(s) - k + 1 : SubSeq(s, k, Len(s))[j] = s[k + j - 1]
  BY <1>1, <1>2, <1>3, SubSeqProperties
<1>6. (k - 1) - 1 + 1 = k - 1 /\ \A j \in 1 .. k - 1 : 1 + j - 1 = j
  BY <1>1
<1>7. Len(SubSeq(s, 1, k - 1)) = k - 1 /\ Len(SubSeq(s, k, Len(s))) = Len(s) - k + 1
  BY <1>1, <1>4, <1>5
<1> QED
  BY <1>4, <1>5, <1>6, <1>7 DEF Before, From

LEMMA InsertAtIs ==
  ASSUME NEW S, NEW s \in Seq(S), NEW x \in S, NEW k \in 1 .. Len(s) + 1
  PROVE  /\ InsertAt(s, k, x) \in Seq(S) /\ Len(InsertAt(s, k, x)) = Len(s) + 1
         /\ InsertAt(s, k, x) = Before(s, k) \o <<x>> \o From(s, k)
<1> DEFINE t == InsertAt(s, k, x)
           b == Before(s, k)
           f == From(s, k)
           one == <<x>>
<1>1. Len(s) \in Nat /\ \A j \in 1 .. Len(s) : s[j] \in S
  BY LenProperties, ElementOfSeq
<1>2. ASSUME NEW j \in 1 .. Len(s) + 1
      PROVE  t[j] = (IF j < k THEN s[j] ELSE IF j = k THEN x ELSE s[j - 1]) /\ t[j] \in S
  <2>1. t[j] = IF j < k THEN s[j] ELSE IF j = k THEN x ELSE s[j - 1]
    BY DEF InsertAt
  <2>2. j < k => j \in 1 .. Len(s)
    BY <1>1
  <2>3. ~(j < k) /\ j # k => j - 1 \in 1 .. Len(s)
    BY <1>1
  <2> QED
    BY <1>1, <2>1, <2>2, <2>3
<1>3. t \in Seq(S) /\ Len(t) = Len(s) + 1
  <2>1. t \in [1 .. Len(s) + 1 -> S] /\ Len(s) + 1 \in Nat
    BY <1>1, <1>2 DEF InsertAt
  <2> QED
    BY <2>1, FunctionIsSeq
<1>4. /\ b \in Seq(S) /\ Len(b) = k - 1 /\ \A j \in 1 .. k - 1 : b[j] = s[j]
      /\ f \in Seq(S) /\ Len(f) = Len(s) - k + 1
      /\ \A j \in 1 .. Len(s) - k + 1 : f[j] = s[k + j - 1]
  BY BeforeFrom
<1>5. one \in Seq(S) /\ Len(one) = 1 /\ one[1] = x
  OBVIOUS
<1> HIDE DEF t, b, f, one
<1>6. /\ b \o one \in Seq(S) /\ Len(b \o one) = Len(b) + 1
      /\ \A j \in 1 .. Len(b) + 1 : (b \o one)[j] = IF j <= Len(b) THEN b[j] ELSE one[j - Len(b)]
  <2>1. /\ b \o one \in Seq(S) /\ Len(b \o one) = Len(b) + Len(one)
        /\ \A j \in 1 .. Len(b) + Len(one) :
             (b \o one)[j] = IF j <= Len(b) THEN b[j] ELSE one[j - Len(b)]
    BY <1>4, <1>5, ConcatProperties
  <2> QED
    BY <1>5, <2>1
<1>7. /\ (b \o one) \o f \in Seq(S) /\ Len((b \o one) \o f) = Len(b \o one) + Len(f)
      /\ \A j \in 1 .. Len(b \o one) + Len(f) :
           ((b \o one) \o f)[j] = IF j <= Len(b \o one) THEN (b \o one)[j]
                                  ELSE f[j - Len(b \o one)]
  BY <1>4, <1>6, ConcatProperties
<1>8. Len(b \o one) = k /\ Len((b \o one) \o f) = Len(s) + 1
  BY <1>1, <1>4, <1>6, <1>7
<1>9. ASSUME NEW j \in 1 .. Len(s) + 1 PROVE ((b \o one) \o f)[j] = t[j]
  <2>1. j \in 1 .. Len(b \o one) + Len(f) /\ j \in Int
    BY <1>7, <1>8
  <2>2. CASE j < k
    <3>1. j <= k /\ j <= k - 1 /\ j \in 1 .. k - 1 /\ j \in 1 .. Len(b) + 1
      BY <1>1, <1>4, <2>2
    <3>2. ((b \o one) \o f)[j] = (b \o one)[j]
      BY <1>7, <1>8, <2>1, <3>1
    <3>3. (b \o one)[j] = b[j]
      BY <1>4, <1>6, <3>1
    <3> QED
      BY <1>2, <1>4, <2>2, <3>1, <3>2, <3>3
  <2>3. CASE j = k
    <3>1. j \in 1 .. Len(b) + 1 /\ ~(j <= Len(b)) /\ j - Len(b) = 1 /\ j <= k
      BY <1>1, <1>4, <2>3
    <3>2. ((b \o one) \o f)[j] = (b \o one)[j]
      BY <1>7, <1>8, <2>1, <3>1
    <3>3. (b \o one)[j] = one[1]
      BY <1>6, <3>1
    <3> QED
      BY <1>2, <1>5, <2>3, <3>2, <3>3
  <2>4. CASE j > k
    <3>1. ~(j <= k) /\ ~(j < k) /\ j # k /\ j - k \in 1 .. Len(s) - k + 1 /\ k + (j - k) - 1 = j - 1
      BY <1>1, <2>4
    <3>2. ((b \o one) \o f)[j] = f[j - k]
      BY <1>7, <1>8, <2>1, <3>1
    <3>3. f[j - k] = s[j - 1]
      BY <1>4, <3>1
    <3> QED
      BY <1>2, <3>1, <3>2, <3>3
  <2>5. j < k \/ j = k \/ j > k
    BY <2>1
  <2> QED
    BY <2>2, <2>3, <2>4, <2>5
<1>10. (b \o one) \o f = t
  BY <1>3, <1>7, <1>8, <1>9, SeqEqual
<1> QED
  BY <1>3, <1>10 DEF t, b, f, one

LEMMA RemoveAtIs ==
  ASSUME NEW S, NEW s \in Seq(S), NEW k \in 1 .. Len(s)
  PROVE  /\ RemoveAt(s, k) \in Seq(S) /\ Len(RemoveAt(s, k)) = Len(s) - 1
         /\ RemoveAt(s, k) = Before(s, k) \o From(s, k + 1)
<1> DEFINE t == RemoveAt(s, k)
           b == Before(s, k)
           f == From(s, k + 1)
<1>1. Len(s) \in Nat \ {0} /\ \A j \in 1 .. Len(s) : s[j] \in S
  BY LenProperties, ElementOfSeq
<1>2. ASSUME NEW j \in 1 .. Len(s) - 1
      PROVE  t[j] = (IF j < k THEN s[j] ELSE s[j + 1]) /\ t[j] \in S
  <2>1. t[j] = IF j < k THEN s[j] ELSE s[j + 1]
    BY DEF RemoveAt
  <2>2. j \in 1 .. Len(s) /\ j + 1 \in 1 .. Len(s)
    BY <1>1
  <2> QED
    BY <1>1, <2>1, <2>2
<1>3. t \in Seq(S) /\ Len(t) = Len(s) - 1
  <2>1. t \in [1 .. Len(s) - 1 -> S] /\ Len(s) - 1 \in Nat
    BY <1>1, <1>2 DEF RemoveAt
  <2> QED
    BY <2>1, FunctionIsSeq
<1>4. /\ b \in Seq(S) /\ Len(b) = k - 1 /\ \A j \in 1 .. k - 1 : b[j] = s[j]
      /\ f \in Seq(S) /\ Len(f) = Len(s) - k
      /\ \A j \in 1 .. Len(s) - k : f[j] = s[k + j]
  <2>1. k \in 1 .. Len(s) + 1 /\ k + 1 \in 1 .. Len(s) + 1
    BY <1>1
  <2>2. /\ f \in Seq(S) /\ Len(f) = Len(s) - (k + 1) + 1
        /\ \A j \in 1 .. Len(s) - (k + 1) + 1 : f[j] = s[(k + 1) + j - 1]
    BY <2>1, BeforeFrom
  <2>3. Len(s) - (k + 1) + 1 = Len(s) - k
    BY <1>1
  <2> HIDE DEF f
  <2>4. ASSUME NEW j \in 1 .. Len(s) - k PROVE f[j] = s[k + j]
    <3>1. (k + 1) + j - 1 = k + j
      OBVIOUS
    <3> QED
      BY <2>2, <2>3, <3>1
  <2> QED
    BY <2>1, <2>2, <2>3, <2>4, BeforeFrom
<1> HIDE DEF t, b, f
<1>5. /\ b \o f \in Seq(S) /\ Len(b \o f) = Len(b) + Len(f)
      /\ \A j \in 1 .. Len(b) + Len(f) : (b \o f)[j] = IF j <= Len(b) THEN b[j] ELSE f[j - Len(b)]
  BY <1>4, ConcatProperties
<1>6. Len(b) + Len(f) = Len(s) - 1
  BY <1>1, <1>4
<1>7. ASSUME NEW j \in 1 .. Len(s) - 1 PROVE (b \o f)[j] = t[j]
  <2>1. CASE j < k
    <3>1. j <= Len(b) /\ j \in 1 .. k - 1
      BY <1>1, <1>4, <2>1
    <3> QED
      BY <1>2, <1>4, <1>5, <1>6, <2>1, <3>1
  <2>2. CASE ~(j < k)
    <3>1. ~(j <= Len(b)) /\ j - Len(b) \in 1 .. Len(s) - k /\ k + (j - Len(b)) = j + 1
      BY <1>1, <1>4, <2>2
    <3> QED
      BY <1>2, <1>4, <1>5, <1>6, <2>2, <3>1
  <2> QED
    BY <2>1, <2>2
<1>8. b \o f = t
  BY <1>3, <1>5, <1>6, <1>7, SeqEqual
<1> QED
  BY <1>3, <1>8 DEF t, b, f

-----------------------------------------------------------------------------
(* Types. *)

Heaps == [Cells -> Node]

\* g is the heap h with one field of the cell y set to p.
NextSet(h, g, y, p) ==
  \A x \in Cells : /\ g[x].next = IF x = y THEN p ELSE h[x].next
                   /\ g[x].prev = h[x].prev /\ g[x].person = h[x].person

PrevSet(h, g, y, p) ==
  \A x \in Cells : /\ g[x].prev = IF x = y THEN p ELSE h[x].prev
                   /\ g[x].next = h[x].next /\ g[x].person = h[x].person

PersonSet(h, g, y, p) ==
  \A x \in Cells : /\ g[x].person = IF x = y THEN p ELSE h[x].person
                   /\ g[x].next = h[x].next /\ g[x].prev = h[x].prev

LastLost(h, g, y) ==
  \A x \in Cells : /\ x # y => g[x].person = h[x].person
                   /\ g[x].next = h[x].next /\ g[x].prev = h[x].prev

LEMMA SetNext ==
  ASSUME NEW h \in Heaps, NEW y, NEW p \in Pointer, NEW g, g = [h EXCEPT ![y].next = p]
  PROVE  g \in Heaps /\ NextSet(h, g, y, p)
<1>1. g = [x \in Cells |-> IF x = y THEN [h[x] EXCEPT !.next = p] ELSE h[x]]
  BY DEF Heaps
<1>2. ASSUME NEW x \in Cells
      PROVE  /\ g[x] \in Node
             /\ g[x].next = IF x = y THEN p ELSE h[x].next
             /\ g[x].prev = h[x].prev /\ g[x].person = h[x].person
  <2>1. h[x] \in Node
    BY DEF Heaps
  <2>2. g[x] = IF x = y THEN [h[x] EXCEPT !.next = p] ELSE h[x]
    BY <1>1
  <2> QED
    BY <2>1, <2>2 DEF Node
<1>3. g \in Heaps
  BY <1>1, <1>2 DEF Heaps
<1> QED
  BY <1>2, <1>3 DEF NextSet

LEMMA SetPrev ==
  ASSUME NEW h \in Heaps, NEW y, NEW p \in Pointer, NEW g, g = [h EXCEPT ![y].prev = p]
  PROVE  g \in Heaps /\ PrevSet(h, g, y, p)
<1>1. g = [x \in Cells |-> IF x = y THEN [h[x] EXCEPT !.prev = p] ELSE h[x]]
  BY DEF Heaps
<1>2. ASSUME NEW x \in Cells
      PROVE  /\ g[x] \in Node
             /\ g[x].prev = IF x = y THEN p ELSE h[x].prev
             /\ g[x].next = h[x].next /\ g[x].person = h[x].person
  <2>1. h[x] \in Node
    BY DEF Heaps
  <2>2. g[x] = IF x = y THEN [h[x] EXCEPT !.prev = p] ELSE h[x]
    BY <1>1
  <2> QED
    BY <2>1, <2>2 DEF Node
<1>3. g \in Heaps
  BY <1>1, <1>2 DEF Heaps
<1> QED
  BY <1>2, <1>3 DEF PrevSet

LEMMA SetPerson ==
  ASSUME NEW h \in Heaps, NEW y, NEW p \in Person, NEW g, g = [h EXCEPT ![y].person = p]
  PROVE  g \in Heaps /\ PersonSet(h, g, y, p)
<1>1. g = [x \in Cells |-> IF x = y THEN [h[x] EXCEPT !.person = p] ELSE h[x]]
  BY DEF Heaps
<1>2. ASSUME NEW x \in Cells
      PROVE  /\ g[x] \in Node
             /\ g[x].person = IF x = y THEN p ELSE h[x].person
             /\ g[x].next = h[x].next /\ g[x].prev = h[x].prev
  <2>1. h[x] \in Node
    BY DEF Heaps
  <2>2. g[x] = IF x = y THEN [h[x] EXCEPT !.person = p] ELSE h[x]
    BY <1>1
  <2> QED
    BY <2>1, <2>2 DEF Node
<1>3. g \in Heaps
  BY <1>1, <1>2 DEF Heaps
<1> QED
  BY <1>2, <1>3 DEF PersonSet

\* A freed cell loses its last name and keeps its pointers.
LEMMA SetLast ==
  ASSUME NEW h \in Heaps, NEW y, NEW g, g = [h EXCEPT ![y].person.last = JunkName]
  PROVE  g \in Heaps /\ LastLost(h, g, y)
<1>1. g = [x \in Cells |-> IF x = y THEN [h[x] EXCEPT !.person.last = JunkName] ELSE h[x]]
  BY DEF Heaps
<1>2. ASSUME NEW x \in Cells
      PROVE  /\ g[x] \in Node
             /\ x # y => g[x].person = h[x].person
             /\ g[x].next = h[x].next /\ g[x].prev = h[x].prev
  <2>1. h[x] \in Node
    BY DEF Heaps
  <2>2. g[x] = IF x = y THEN [h[x] EXCEPT !.person.last = JunkName] ELSE h[x]
    BY <1>1
  <2> QED
    BY <2>1, <2>2 DEF Node, Person
<1>3. g \in Heaps
  BY <1>1, <1>2 DEF Heaps
<1> QED
  BY <1>2, <1>3 DEF LastLost

\* The places where Link stops, and what it does there.
Later(h, c, walk) ==
  {j \in DOMAIN walk : LastnameComparer(h[c].person.last, h[walk[j]].person.last)}

LinkedFirst(h, c) == [[h EXCEPT ![c].next = head] EXCEPT ![head].prev = c]

LinkedBetween(h, c, a, b) ==
  [[[[h EXCEPT ![c].next = b] EXCEPT ![c].prev = a] EXCEPT ![b].prev = c] EXCEPT ![a].next = c]

LinkedLast(h, c, a) == [[h EXCEPT ![a].next = c] EXCEPT ![c].prev = a]

LinkResult(h, c, walk, k, r) ==
  /\ head = NULL => r = Joined(h, c, FALSE)
  /\ head # NULL /\ k = 1 => r = Joined(LinkedFirst(h, c), c, FALSE)
  /\ head # NULL /\ k > 1 => r = Joined(LinkedBetween(h, c, walk[k - 1], walk[k]), head, FALSE)
  /\ head # NULL /\ k = 0 =>
       r = Joined(LinkedLast(h, c, walk[Len(walk)]), head, Endless(h, head))

LEMMA LinkCases ==
  ASSUME NEW h, NEW c, NEW walk, walk = Walk(h, head), NEW k, k = First(Later(h, c, walk)),
         k \in Nat
  PROVE  LinkResult(h, c, walk, k, Link(h, c))
<1>1. head = NULL => Link(h, c) = Joined(h, c, FALSE)
  BY Zenon DEF Link
<1> DEFINE l == walk[Len(walk)]
<1>2. k = 1 => ~(k > 1) /\ k # 0
  OBVIOUS
<1>3. k > 1 => k # 1 /\ k # 0
  OBVIOUS
<1>4. k = 0 => k # 1 /\ ~(k > 1)
  OBVIOUS
<1>5. head # NULL /\ k = 1 =>
        Link(h, c) = Joined([h EXCEPT ![c].next = head, ![head].prev = c], c, FALSE)
  BY <1>2 DEF Link, Later
<1>6. head # NULL /\ k > 1 =>
        Link(h, c) = Joined([h EXCEPT ![c].next = walk[k], ![c].prev = walk[k - 1],
                              ![walk[k]].prev = c, ![walk[k - 1]].next = c], head, FALSE)
  BY <1>3 DEF Link, Later
<1>7. head # NULL /\ k = 0 =>
        Link(h, c) = Joined([h EXCEPT ![l].next = c, ![c].prev = l], head, Endless(h, head))
  BY <1>4 DEF Link, Later
<1>8. head # NULL /\ k = 1 => Link(h, c) = Joined(LinkedFirst(h, c), c, FALSE)
  BY <1>5 DEF LinkedFirst
<1>9. head # NULL /\ k > 1 =>
        Link(h, c) = Joined(LinkedBetween(h, c, walk[k - 1], walk[k]), head, FALSE)
  BY <1>6 DEF LinkedBetween
<1>10. head # NULL /\ k = 0 =>
         Link(h, c) = Joined(LinkedLast(h, c, l), head, Endless(h, head))
  BY <1>7 DEF LinkedLast
<1> QED
  BY <1>1, <1>8, <1>9, <1>10 DEF LinkResult

LEMMA LinkType ==
  ASSUME NEW h \in Heaps, head \in Pointer, NEW c \in Cells
  PROVE  Link(h, c).heap \in Heaps /\ Link(h, c).head \in Pointer
<1> DEFINE walk == Walk(h, head)
           k == First(Later(h, c, walk))
           r == Link(h, c)
<1>1. walk \in Seq(Cells) /\ Len(walk) \in Nat /\ (head # NULL => Len(walk) >= 1)
  BY WalkType DEF Heaps
<1>2. DOMAIN walk = 1 .. Len(walk) /\ \A j \in 1 .. Len(walk) : walk[j] \in Cells
  BY <1>1, ElementOfSeq
<1>3. k \in 0 .. Len(walk)
  <2>1. Later(h, c, walk) \subseteq 1 .. Len(walk)
    BY <1>2 DEF Later
  <2> QED
    BY <1>1, <2>1, FirstIs
<1>4. k \in Nat /\ (k = 0 \/ k = 1 \/ k > 1)
  BY <1>1, <1>3
<1> HIDE DEF walk, k
<1>5. LinkResult(h, c, walk, k, r)
  BY <1>4, LinkCases DEF walk, k
<1> SUFFICES r.heap \in Heaps /\ r.head \in Pointer
  OBVIOUS
<1> HIDE DEF r
<1>6. c \in Pointer /\ \A x \in Cells : x \in Pointer
  BY DEF Pointer
<1>7. CASE head = NULL
  BY <1>5, <1>6, <1>7 DEF LinkResult, Joined
<1>8. CASE head # NULL /\ k = 1
  <2> DEFINE g == [h EXCEPT ![c].next = head]
             f == [g EXCEPT ![head].prev = c]
  <2>1. g \in Heaps
    BY SetNext
  <2>2. r = Joined(f, c, FALSE)
    BY <1>5, <1>8 DEF LinkResult, LinkedFirst
  <2> HIDE DEF g
  <2>3. f \in Heaps
    BY <1>6, <2>1, SetPrev
  <2> QED
    BY <1>6, <2>2, <2>3 DEF Joined
<1>9. CASE head # NULL /\ k > 1
  <2>1. k \in 1 .. Len(walk) /\ k - 1 \in 1 .. Len(walk)
    BY <1>1, <1>3, <1>9
  <2>2. walk[k] \in Pointer /\ walk[k - 1] \in Pointer
    BY <1>2, <1>6, <2>1
  <2> DEFINE g == [h EXCEPT ![c].next = walk[k]]
             f == [g EXCEPT ![c].prev = walk[k - 1]]
             e == [f EXCEPT ![walk[k]].prev = c]
             d == [e EXCEPT ![walk[k - 1]].next = c]
  <2>3. r = Joined(d, head, FALSE)
    BY <1>5, <1>9 DEF LinkResult, LinkedBetween
  <2>4. g \in Heaps
    BY <2>2, SetNext
  <2> HIDE DEF g
  <2>5. f \in Heaps
    BY <2>2, <2>4, SetPrev
  <2> HIDE DEF f
  <2>6. e \in Heaps
    BY <1>6, <2>5, SetPrev
  <2> HIDE DEF e
  <2>7. d \in Heaps
    BY <1>6, <2>6, SetNext
  <2> QED
    BY <2>3, <2>7 DEF Joined
<1>10. CASE head # NULL /\ k = 0
  <2>1. walk[Len(walk)] \in Pointer
    BY <1>1, <1>2, <1>6, <1>10
  <2> DEFINE l == walk[Len(walk)]
             g == [h EXCEPT ![l].next = c]
             f == [g EXCEPT ![c].prev = l]
  <2>2. r = Joined(f, head, Endless(h, head))
    BY <1>5, <1>10 DEF LinkResult, LinkedLast
  <2> HIDE DEF l
  <2>3. g \in Heaps
    BY <1>6, SetNext
  <2> HIDE DEF g
  <2>4. f \in Heaps
    BY <2>1, <2>3, SetPrev DEF l
  <2> QED
    BY <2>2, <2>4 DEF Joined
<1> QED
  BY <1>4, <1>7, <1>8, <1>9, <1>10

LEMMA UnlinkType ==
  ASSUME heap \in Heaps, NEW c \in Cells PROVE Unlink(c) \in Heaps
<1> DEFINE prev == heap[c].prev
           next == heap[c].next
<1>1. prev \in Pointer /\ next \in Pointer /\ NULL \in Pointer
  BY DEF Heaps, Node, Pointer
<1>2. Unlink(c) =
        IF c = head
        THEN IF next = NULL THEN heap ELSE [heap EXCEPT ![next].prev = NULL]
        ELSE IF next = NULL
             THEN [heap EXCEPT ![prev].next = NULL]
             ELSE [[heap EXCEPT ![prev].next = next] EXCEPT ![next].prev = prev]
  BY DEF Unlink
<1> HIDE DEF prev, next
<1> DEFINE g == [heap EXCEPT ![prev].next = next]
<1>3. g \in Heaps /\ [heap EXCEPT ![prev].next = NULL] \in Heaps
  BY <1>1, SetNext
<1>4. [heap EXCEPT ![next].prev = NULL] \in Heaps
  BY <1>1, SetPrev
<1>5. [g EXCEPT ![next].prev = prev] \in Heaps
  <2> HIDE DEF g
  <2> QED
    BY <1>1, <1>3, SetPrev
<1> QED
  BY <1>2, <1>3, <1>4, <1>5

LEMMA PersonOf ==
  ASSUME NEW h \in Heaps, NEW c, NEW p \in Person
  PROVE  LET g == [h EXCEPT ![c] = [person |-> p, prev |-> NULL, next |-> NULL]] IN
         /\ g \in Heaps
         /\ \A x \in Cells : x # c => g[x] = h[x]
         /\ c \in Cells => g[c].person = p /\ g[c].prev = NULL /\ g[c].next = NULL
BY DEF Heaps, Node, Pointer

\* Where a search ends.
LEMMA SearchIs ==
  ASSUME heap \in Heaps, head \in Pointer, NEW target
  PROVE  LET walk == Walk(heap, head)  k == SearchInList(target) IN
         /\ walk \in Seq(Cells) /\ Len(walk) \in Nat
         /\ k \in 0 .. Len(walk) /\ (Found(target) <=> k \in 1 .. Len(walk))
         /\ Found(target) => walk[k] \in Cells /\ heap[walk[k]].person = target
         /\ ~Found(target) => k = 0
<1> DEFINE walk == Walk(heap, head)
           hits == {j \in DOMAIN walk : heap[walk[j]].person = target}
           k == SearchInList(target)
<1>1. walk \in Seq(Cells) /\ Len(walk) \in Nat /\ DOMAIN walk = 1 .. Len(walk)
  BY WalkType DEF Heaps
<1>2. k = First(hits)
  BY DEF SearchInList
<1>3. \A j \in 1 .. Len(walk) : walk[j] \in Cells
  BY <1>1, ElementOfSeq
<1> HIDE DEF walk, k
<1>4. hits \subseteq 1 .. Len(walk)
  BY <1>1
<1>5. /\ hits = {} => k = 0
      /\ hits # {} => k \in hits
      /\ k \in 0 .. Len(walk)
  <2> HIDE DEF hits
  <2> QED
    BY <1>1, <1>2, <1>4, FirstIs
<1>6. Found(target) <=> k > 0
  BY DEF Found, k
<1>7. k > 0 => k \in hits /\ k \in 1 .. Len(walk)
  BY <1>1, <1>5
<1>8. ~(k > 0) => k = 0
  BY <1>1, <1>5
<1> QED
  BY <1>1, <1>3, <1>5, <1>6, <1>7, <1>8 DEF walk, k

THEOREM TypeCorrect == Spec => []TypeOK
<1>1. Init => TypeOK
  <2> SUFFICES ASSUME Init PROVE TypeOK
    OBVIOUS
  <2>1. Blank \in Node
    BY PhoneAssumption DEF Blank, Node, Person, Pointer
  <2>2. heap \in [Cells -> Node]
    BY <2>1 DEF Init
  <2>3. file \in Seq(Person) /\ Len(file) <= MaxFile /\ Len(file) \in Nat
    <3>1. CASE file = <<>>
      BY <3>1, PhoneAssumption
    <3>2. CASE file \in {<<p>> : p \in Typed}
      <4>1. PICK p \in Typed : file = <<p>>
        BY <3>2
      <4>2. p \in Person
        BY DEF Typed, Person
      <4> QED
        BY <4>1, <4>2, PhoneAssumption
    <3> QED
      BY <3>1, <3>2 DEF Init
  <2>4. access \in {"absent", "granted", "denied"} /\ offset \in 0 .. Len(file)
        /\ runs \in 1 .. MaxRuns
    BY <2>3, PhoneAssumption DEF Init
  <2> QED
    BY <2>2, <2>3, <2>4 DEF Init, TypeOK, Silent, Pointer
<1>2. TypeOK /\ [Next]_vars => TypeOK'
  <2> SUFFICES ASSUME TypeOK, [Next]_vars PROVE TypeOK'
    OBVIOUS
  <2>1. /\ heap \in Heaps /\ head \in Pointer /\ Len(file) \in Nat
        /\ file \in Seq(Person) /\ Len(file) <= MaxFile
        /\ offset \in 0 .. Len(file) /\ runs \in 1 .. MaxRuns
    <3>1. heap \in Heaps /\ head \in Pointer /\ file \in Seq(Person)
      BY Zenon DEF TypeOK, Heaps
    <3>2. Len(file) <= MaxFile /\ offset \in 0 .. Len(file) /\ runs \in 1 .. MaxRuns
      BY Zenon DEF TypeOK
    <3> QED
      BY <3>1, <3>2, LenProperties
  <2>2. ASSUME NEW p \in Person, InsertIntoList(p)
        PROVE  /\ heap' \in Heaps /\ head' \in Pointer /\ allocated' \subseteq Cells
               /\ pc' \in {pc, "hung"}
    <3>1. CASE UNCHANGED <<pc, listVars>>
      BY <2>1, <3>1 DEF TypeOK, listVars
    <3>2. CASE ~UNCHANGED <<pc, listVars>>
      <4>1. PICK c \in Cells \ allocated :
              LET r == Link([heap EXCEPT ![c] = [person |-> p, prev |-> NULL, next |-> NULL]], c)
              IN  /\ allocated' = allocated \cup {c}
                  /\ IF r.hangs THEN pc' = "hung" /\ UNCHANGED <<heap, head>>
                                ELSE heap' = r.heap /\ head' = r.head /\ UNCHANGED pc
        BY <2>2, <3>2 DEF InsertIntoList
      <4> DEFINE h == [heap EXCEPT ![c] = [person |-> p, prev |-> NULL, next |-> NULL]]
      <4>2. h \in Heaps
        BY <2>1, PersonOf
      <4> HIDE DEF h
      <4>3. Link(h, c).heap \in Heaps /\ Link(h, c).head \in Pointer
        BY <2>1, <4>2, LinkType
      <4> QED
        BY <2>1, <4>1, <4>3 DEF TypeOK, h
    <3> QED
      BY <3>1, <3>2
  <2>3. ASSUME NEW p \in Typed, Add(p) PROVE TypeOK'
    <3>1. p \in Person
      BY DEF Typed, Person
    <3>2. InsertIntoList(p)
      BY <2>3 DEF Add
    <3>3. /\ heap' \in Heaps /\ head' \in Pointer /\ allocated' \subseteq Cells
          /\ pc' \in {pc, "hung"}
      BY <2>2, <3>1, <3>2
    <3>4. said' = [text |-> "added", there |-> FALSE]
          /\ UNCHANGED <<file, access, offset, runs, misled>>
      BY <2>3 DEF Add, fileVars
    <3> QED
      BY <3>3, <3>4 DEF TypeOK, Heaps
  <2>4. ASSUME ReadRecord PROVE TypeOK'
    <3>1. UNCHANGED <<said, file, access, runs, misled>>
      BY <2>4 DEF ReadRecord, fileVars
    <3>2. PICK p \in Person : InsertIntoList(p) /\ offset' \in 0 .. Len(file)
      <4>1. CASE access = "granted" /\ offset < Len(file)
        <5>1. offset + 1 \in 1 .. Len(file)
          BY <2>1, <4>1
        <5>2. file[offset + 1] \in Person /\ offset + 1 \in 0 .. Len(file)
          BY <2>1, <5>1, ElementOfSeq
        <5> QED
          BY <2>4, <4>1, <5>2 DEF ReadRecord
      <4>2. CASE access # "granted"
        <5>1. Blank.person \in Person
          BY PhoneAssumption DEF Blank, Person
        <5> QED
          BY <2>4, <4>2, <5>1 DEF ReadRecord, TypeOK
      <4> QED
        BY <2>4, <4>1, <4>2 DEF ReadRecord
    <3>3. /\ heap' \in Heaps /\ head' \in Pointer /\ allocated' \subseteq Cells
          /\ pc' \in {pc, "hung"}
      BY <2>2, <3>2
    <3> QED
      BY <3>1, <3>2, <3>3 DEF TypeOK, Heaps
  <2>5. ASSUME NEW p \in Typed, Delete(p) PROVE TypeOK'
    <3>1. UNCHANGED <<file, access, offset, runs>>
      BY <2>5 DEF Delete, fileVars
    <3>2. CASE SearchHangs(p)
      BY <2>5, <3>1, <3>2 DEF Delete, TypeOK, listVars
    <3>3. CASE ~SearchHangs(p)
      <4> DEFINE c == IF Found(p) THEN Walk(heap, head)[SearchInList(p)] ELSE NULL
                 newHead == IF head # NULL /\ c = head THEN heap[c].next ELSE head
      <4>1. /\ UNCHANGED pc
            /\ IF c = NULL THEN UNCHANGED <<heap, allocated>> ELSE Free(Unlink(c), c)
            /\ head' = IF newHead # NULL THEN newHead ELSE head
            /\ Say(IF newHead # NULL THEN "deleted" ELSE "not found", p)
            /\ misled' = (misled \/ (c # NULL /\ newHead = NULL))
        BY <2>5, <3>3 DEF Delete
      <4>2. c \in Cells \cup {NULL}
        BY <2>1, SearchIs
      <4> HIDE DEF c
      <4>3. newHead \in Pointer
        BY <2>1, <4>2, PhoneAssumption DEF Heaps, Node, Pointer
      <4>4. head' \in Pointer
        <5> HIDE DEF newHead
        <5> QED
          BY <2>1, <4>1, <4>3
      <4>5. heap' \in Heaps /\ allocated' \subseteq Cells
        <5>1. CASE c = NULL
          BY <2>1, <4>1, <5>1 DEF TypeOK
        <5>2. CASE c # NULL
          <6>1. Unlink(c) \in Heaps
            BY <2>1, <4>2, <5>2, UnlinkType
          <6>2. /\ heap' = [Unlink(c) EXCEPT ![c].person.last = JunkName]
                /\ allocated' = allocated \ {c}
            BY <4>1, <5>2 DEF Free
          <6> QED
            BY <6>1, <6>2, SetLast DEF TypeOK
        <5> QED
          BY <5>1, <5>2
      <4>6. said' \in [text : {"none", "added", "redacted", "deleted", "not found"},
                       there : BOOLEAN]
        <5>1. Found(p) \in BOOLEAN
          BY DEF Found
        <5> HIDE DEF newHead
        <5>2. said' = [text |-> IF newHead # NULL THEN "deleted" ELSE "not found",
                       there |-> Found(p)]
          BY <4>1 DEF Say
        <5> QED
          BY <5>1, <5>2
      <4>7. misled' \in BOOLEAN /\ pc' = pc
        BY <4>1 DEF TypeOK
      <4> QED
        BY <3>1, <4>4, <4>5, <4>6, <4>7 DEF TypeOK, Heaps
    <3> QED
      BY <3>2, <3>3
  <2>6. ASSUME NEW p \in Typed, NEW q \in Typed, Redact(p, q) PROVE TypeOK'
    <3>1. UNCHANGED <<allocated, head, file, access, offset, runs, misled>>
      BY <2>6 DEF Redact, fileVars
    <3>2. CASE SearchHangs(p)
      BY <2>6, <3>1, <3>2 DEF Redact, TypeOK
    <3>3. CASE ~SearchHangs(p)
      <4>1. /\ UNCHANGED pc
            /\ heap' = IF Found(p)
                       THEN [heap EXCEPT ![Walk(heap, head)[SearchInList(p)]].person = q]
                       ELSE heap
            /\ said' = [text |-> IF head # NULL THEN "redacted" ELSE "not found",
                        there |-> Found(p)]
        BY <2>6, <3>3 DEF Redact, Say
      <4>2. q \in Person /\ Found(p) \in BOOLEAN
        BY DEF Typed, Person, Found
      <4>3. heap' \in Heaps
        BY <2>1, <4>1, <4>2, SetPerson
      <4> QED
        BY <3>1, <4>1, <4>2, <4>3 DEF TypeOK, Heaps
    <3> QED
      BY <3>2, <3>3
  <2>7. ASSUME Exit PROVE TypeOK'
    <3>1. UNCHANGED <<heap, allocated, head, said, offset, runs, misled>>
      BY <2>7 DEF Exit, listVars
    <3>2. CASE head # NULL /\ Endless(heap, head)
      BY <2>7, <3>1, <3>2 DEF Exit, fileVars, TypeOK
    <3>3. CASE ~(head # NULL /\ Endless(heap, head))
      <4> DEFINE L == Len(Contents)
      <4>1. /\ pc' = "exited"
            /\ access' \in IF access = "absent" THEN {"granted", "denied"} ELSE {access}
            /\ L <= MaxFile
            /\ file' = IF access = "denied" THEN file
                       ELSE Contents \o SubSeq(file, L + 1, Len(file))
        BY <2>7, <3>3 DEF Exit
      <4>2. access' \in {"absent", "granted", "denied"}
        BY <4>1 DEF TypeOK
      <4>3. Contents \in Seq(Person) /\ L \in Nat
        <5>1. Walk(heap, head) \in Seq(Cells) /\ Len(Walk(heap, head)) \in Nat
          BY <2>1, WalkType DEF Heaps
        <5>2. DOMAIN Walk(heap, head) = 1 .. Len(Walk(heap, head))
          BY <5>1
        <5>3. \A j \in 1 .. Len(Walk(heap, head)) : heap[Walk(heap, head)[j]].person \in Person
          BY <2>1, <5>1, ElementOfSeq DEF Heaps, Node
        <5>4. Contents \in [1 .. Len(Walk(heap, head)) -> Person]
          BY <5>2, <5>3 DEF Contents
        <5> QED
          BY <5>1, <5>4, FunctionIsSeq
      <4> HIDE DEF L
      <4>4. /\ file' \in Seq(Person) /\ Len(file') <= MaxFile /\ Len(file') \in Nat
            /\ Len(file) <= Len(file')
        <5>1. CASE access = "denied"
          BY <2>1, <4>1, <5>1
        <5>2. CASE access # "denied"
          <6> DEFINE rest == SubSeq(file, L + 1, Len(file))
          <6>1. \A j \in L + 1 .. Len(file) : j \in 1 .. Len(file)
            BY <2>1, <4>3
          <6>2. \A j \in L + 1 .. Len(file) : file[j] \in Person
            BY <2>1, <4>3, <6>1, ElementOfSeq
          <6>3. L + 1 \in Int /\ Len(file) \in Int
            BY <2>1, <4>3
          <6>4. /\ rest \in Seq(Person)
                /\ Len(rest) = IF L + 1 <= Len(file) THEN Len(file) - (L + 1) + 1 ELSE 0
            BY <6>2, <6>3, SubSeqProperties
          <6> HIDE DEF rest
          <6>5. Contents \o rest \in Seq(Person) /\ Len(Contents \o rest) = L + Len(rest)
            BY <4>3, <6>4, ConcatProperties DEF L
          <6>6. file' = Contents \o rest
            BY <4>1, <5>2 DEF rest
          <6>7. L + Len(rest) = IF L + 1 <= Len(file) THEN Len(file) ELSE L
            BY <2>1, <4>3, <6>4
          <6>8. Len(file') = IF L + 1 <= Len(file) THEN Len(file) ELSE L
            BY <6>5, <6>6, <6>7
          <6>9. Len(file') \in Nat /\ Len(file') <= MaxFile /\ Len(file) <= Len(file')
            BY <2>1, <4>1, <4>3, <6>8
          <6> QED
            BY <6>5, <6>6, <6>9
        <5> QED
          BY <5>1, <5>2
      <4>5. offset' \in 0 .. Len(file')
        BY <2>1, <3>1, <4>4
      <4> QED
        BY <3>1, <4>1, <4>2, <4>4, <4>5 DEF TypeOK
    <3> QED
      BY <3>2, <3>3
  <2>8. ASSUME Run PROVE TypeOK'
    <3>1. Blank \in Node
      BY PhoneAssumption DEF Blank, Node, Person, Pointer
    <3>2. runs' \in 1 .. MaxRuns
      BY <2>1, <2>8, PhoneAssumption DEF Run
    <3>3. /\ pc' = "menu" /\ heap' = [c \in Cells |-> Blank] /\ allocated' = {} /\ head' = NULL
          /\ said' = Silent /\ offset' = 0 /\ misled' = FALSE /\ UNCHANGED <<file, access>>
      BY <2>8 DEF Run, fileVars
    <3>4. offset' \in 0 .. Len(file')
      BY <2>1, <3>3
    <3> QED
      BY <3>1, <3>2, <3>3, <3>4 DEF TypeOK, Silent, Pointer
  <2>9. ASSUME Read \/ ReadDone \/ Display PROVE TypeOK'
    <3>1. UNCHANGED <<heap, allocated, head, said, file, access, runs, misled>>
      BY <2>9 DEF Read, ReadDone, Display, listVars, fileVars
    <3>2. pc' \in {"menu", "reading", "hung", "exited"}
      BY <2>9 DEF Read, ReadDone, Display
    <3>3. offset' \in 0 .. Len(file)
      BY <2>1, <2>9 DEF Read, ReadDone, Display
    <3> QED
      BY <3>1, <3>2, <3>3 DEF TypeOK
  <2>10. CASE UNCHANGED vars
    BY <2>10 DEF vars, TypeOK
  <2> QED
    BY <2>3, <2>4, <2>5, <2>6, <2>7, <2>8, <2>9, <2>10 DEF Next
<1> QED
  BY <1>1, <1>2, PTL DEF Spec

-----------------------------------------------------------------------------
(* Insertions and removals in a list. *)

Earlier(w, k) == IF k = 1 THEN NULL ELSE w[k - 1]
AtPlace(w, k) == IF k = Len(w) + 1 THEN NULL ELSE w[k]

\* g is the heap h with the cell c put between before and after.
PutBetween(h, g, c, before, after) ==
  \A x \in Cells :
    /\ g[x].next = IF x = c THEN after ELSE IF x = before THEN c ELSE h[x].next
    /\ g[x].prev = IF x = c THEN before ELSE IF x = after THEN c ELSE h[x].prev

LEMMA InsertAtPoints ==
  ASSUME NEW w \in Seq(Cells), NEW c \in Cells, NEW k \in 1 .. Len(w) + 1
  PROVE  /\ InsertAt(w, k, c) \in Seq(Cells) /\ Len(InsertAt(w, k, c)) = Len(w) + 1
         /\ Len(w) \in Nat
         /\ \A j \in 1 .. Len(w) + 1 :
              InsertAt(w, k, c)[j] = IF j < k THEN w[j] ELSE IF j = k THEN c ELSE w[j - 1]
<1>1. InsertAt(w, k, c) \in Seq(Cells) /\ Len(InsertAt(w, k, c)) = Len(w) + 1
  BY InsertAtIs
<1>2. \A j \in 1 .. Len(w) + 1 :
        InsertAt(w, k, c)[j] = IF j < k THEN w[j] ELSE IF j = k THEN c ELSE w[j - 1]
  BY DEF InsertAt
<1> QED
  BY <1>1, <1>2, LenProperties

LEMMA InsertKeepsList ==
  ASSUME NEW h, NEW hd, NEW w, ListOf(h, hd, w), NEW c \in Cells, c \notin CellsOf(w),
         NEW k \in 1 .. Len(w) + 1, NEW g,
         PutBetween(h, g, c, Earlier(w, k), AtPlace(w, k))
  PROVE  ListOf(g, IF k = 1 THEN c ELSE hd, InsertAt(w, k, c))
<1> DEFINE u == InsertAt(w, k, c)
           L == Len(w)
           before == Earlier(w, k)
           after == AtPlace(w, k)
<1>1. /\ L \in Nat /\ OnceEach(w)
      /\ \A j \in 1 .. L : w[j] \in Cells /\ w[j] # NULL /\ w[j] # c
  BY ListTypes, ListVisitsOnce DEF CellsOf
<1>2. u \in Seq(Cells) /\ Len(u) = L + 1
      /\ \A j \in 1 .. L + 1 : u[j] = IF j < k THEN w[j] ELSE IF j = k THEN c ELSE w[j - 1]
  <2>1. w \in Seq(Cells)
    BY DEF ListOf
  <2> QED
    BY <2>1, InsertAtPoints
<1>3. /\ hd = IF L = 0 THEN NULL ELSE w[1]
      /\ \A j \in 1 .. L : /\ h[w[j]].next = IF j = L THEN NULL ELSE w[j + 1]
                           /\ h[w[j]].prev = IF j = 1 THEN NULL ELSE w[j - 1]
  BY DEF ListOf
<1>4. /\ before = IF k = 1 THEN NULL ELSE w[k - 1]
      /\ after = IF k = L + 1 THEN NULL ELSE w[k]
  BY DEF Earlier, AtPlace
<1>5. \A x \in Cells :
        /\ g[x].next = IF x = c THEN after ELSE IF x = before THEN c ELSE h[x].next
        /\ g[x].prev = IF x = c THEN before ELSE IF x = after THEN c ELSE h[x].prev
  BY DEF PutBetween
<1> HIDE DEF u, L, before, after
<1>6. ASSUME NEW j \in 1 .. L
      PROVE  (w[j] = before <=> j = k - 1) /\ (w[j] = after <=> j = k)
  <2>1. w[j] = before <=> j = k - 1
    <3>1. CASE k = 1
      BY <1>1, <1>4, <3>1
    <3>2. CASE k # 1
      <4>1. k - 1 \in 1 .. L
        BY <1>1, <3>2 DEF L
      <4> QED
        BY <1>1, <1>4, <3>2, <4>1 DEF OnceEach, L
    <3> QED
      BY <3>1, <3>2
  <2>2. w[j] = after <=> j = k
    <3>1. CASE k = L + 1
      BY <1>1, <1>4, <3>1
    <3>2. CASE k # L + 1
      <4>1. k \in 1 .. L
        BY <1>1, <3>2 DEF L
      <4> QED
        BY <1>1, <1>4, <3>2, <4>1 DEF OnceEach, L
    <3> QED
      BY <3>1, <3>2
  <2> QED
    BY <2>1, <2>2
<1>7. k \in 1 .. L + 1 /\ k \in Int
  BY DEF L
<1>8. ASSUME NEW j \in 1 .. L + 1
      PROVE  /\ g[u[j]].next = IF j = L + 1 THEN NULL ELSE u[j + 1]
             /\ g[u[j]].prev = IF j = 1 THEN NULL ELSE u[j - 1]
  <2>1. j \in Int /\ (j < k \/ j = k \/ j > k)
    BY <1>7
  <2>2. CASE j = k
    <3>1. u[j] = c /\ g[u[j]].next = after /\ g[u[j]].prev = before
      BY <1>2, <1>5, <2>2
    <3>2. j # L + 1 => j + 1 \in 1 .. L + 1 /\ ~(j + 1 < k) /\ j + 1 # k /\ (j + 1) - 1 = k
      BY <1>1, <1>7, <2>2
    <3>3. j # 1 => j - 1 \in 1 .. L + 1 /\ j - 1 < k
      BY <1>1, <1>7, <2>2
    <3>4. j # L + 1 => u[j + 1] = w[k]
      BY <1>2, <3>2
    <3>5. j # 1 => u[j - 1] = w[k - 1]
      BY <1>2, <2>2, <3>3
    <3> QED
      BY <1>4, <2>2, <3>1, <3>4, <3>5
  <2>3. CASE j < k
    <3>1. j \in 1 .. L /\ j # L + 1 /\ j # k /\ j + 1 \in 1 .. L + 1
      BY <1>1, <1>7, <2>3
    <3>2. u[j] = w[j] /\ w[j] \in Cells /\ w[j] # c
      BY <1>1, <1>2, <2>3, <3>1
    <3>3. g[u[j]].prev = h[w[j]].prev
      BY <1>5, <1>6, <3>1, <3>2
    <3>4. j # 1 => j - 1 \in 1 .. L + 1 /\ j - 1 < k
      BY <1>1, <1>7, <2>3
    <3>5. j # 1 => u[j - 1] = w[j - 1]
      BY <1>2, <3>4
    <3>6. g[u[j]].next = IF j = k - 1 THEN c ELSE h[w[j]].next
      BY <1>5, <1>6, <3>1, <3>2
    <3>7. j = k - 1 => j + 1 = k
      BY <1>7
    <3>8. j # k - 1 => j + 1 < k /\ j # L
      BY <1>1, <1>7, <2>3
    <3>9. j = k - 1 => u[j + 1] = c
      BY <1>2, <3>1, <3>7
    <3>10. j # k - 1 => u[j + 1] = w[j + 1]
      BY <1>2, <3>1, <3>8
    <3>11. g[u[j]].next = u[j + 1]
      BY <1>3, <3>1, <3>6, <3>8, <3>9, <3>10
    <3>12. g[u[j]].prev = IF j = 1 THEN NULL ELSE u[j - 1]
      BY <1>3, <3>1, <3>3, <3>5
    <3> QED
      BY <3>1, <3>11, <3>12
  <2>4. CASE j > k
    <3>1. j - 1 \in 1 .. L /\ j # 1 /\ j # k /\ ~(j < k) /\ j - 1 \in 1 .. L + 1
      BY <1>1, <1>7, <2>4
    <3>2. u[j] = w[j - 1] /\ w[j - 1] \in Cells /\ w[j - 1] # c
      BY <1>1, <1>2, <3>1
    <3>3. j - 1 # k - 1
      BY <1>7, <2>1, <2>4
    <3>4. g[u[j]].next = h[w[j - 1]].next
      BY <1>5, <1>6, <3>1, <3>2, <3>3
    <3>5. h[w[j - 1]].next = IF j - 1 = L THEN NULL ELSE w[(j - 1) + 1]
      BY <1>3, <3>1
    <3>6. (j - 1 = L <=> j = L + 1) /\ (j - 1) + 1 = j
      BY <1>1
    <3>7. j # L + 1 => j + 1 \in 1 .. L + 1 /\ ~(j + 1 < k) /\ j + 1 # k /\ (j + 1) - 1 = j
      BY <1>1, <1>7, <2>4
    <3>8. j # L + 1 => u[j + 1] = w[j]
      BY <1>2, <3>7
    <3>9. g[u[j]].next = IF j = L + 1 THEN NULL ELSE u[j + 1]
      BY <3>4, <3>5, <3>6, <3>8
    <3>10. g[u[j]].prev = IF j - 1 = k THEN c ELSE h[w[j - 1]].prev
      BY <1>5, <1>6, <3>1, <3>2
    <3>11. h[w[j - 1]].prev = IF j - 1 = 1 THEN NULL ELSE w[(j - 1) - 1]
      BY <1>3, <3>1
    <3>12. j - 1 = k => u[j - 1] = c
      BY <1>2, <3>1
    <3>13. j - 1 # k => ~(j - 1 < k) /\ j - 1 # 1
      BY <1>7, <2>1, <2>4
    <3>14. j - 1 # k => u[j - 1] = w[(j - 1) - 1]
      BY <1>2, <3>1, <3>13
    <3>15. g[u[j]].prev = u[j - 1]
      BY <3>10, <3>11, <3>12, <3>13, <3>14
    <3> QED
      BY <3>1, <3>9, <3>15
  <2> QED
    BY <2>1, <2>2, <2>3, <2>4
<1>9. (IF k = 1 THEN c ELSE hd) = IF Len(u) = 0 THEN NULL ELSE u[1]
  <2>1. 1 \in 1 .. L + 1 /\ Len(u) # 0 /\ (k # 1 => 1 < k /\ L # 0)
    BY <1>1, <1>2, <1>7
  <2> QED
    BY <1>2, <1>3, <2>1
<1> QED
  BY <1>2, <1>8, <1>9 DEF ListOf, u

LEMMA InsertAddsCell ==
  ASSUME NEW w \in Seq(Cells), NEW c \in Cells, NEW k \in 1 .. Len(w) + 1
  PROVE  CellsOf(InsertAt(w, k, c)) = CellsOf(w) \cup {c}
<1> DEFINE u == InsertAt(w, k, c)
<1>1. /\ Len(u) = Len(w) + 1 /\ Len(w) \in Nat
      /\ \A j \in 1 .. Len(w) + 1 : u[j] = IF j < k THEN w[j] ELSE IF j = k THEN c ELSE w[j - 1]
  BY InsertAtPoints
<1> HIDE DEF u
<1>2. ASSUME NEW j \in 1 .. Len(u) PROVE u[j] \in CellsOf(w) \cup {c}
  <2>1. j < k => j \in 1 .. Len(w)
    BY <1>1
  <2>2. ~(j < k) /\ j # k => j - 1 \in 1 .. Len(w)
    BY <1>1
  <2> QED
    BY <1>1, <2>1, <2>2 DEF CellsOf
<1>3. ASSUME NEW j \in 1 .. Len(w) PROVE \E i \in 1 .. Len(u) : u[i] = w[j]
  <2>1. CASE j < k
    <3>1. j \in 1 .. Len(u)
      BY <1>1
    <3> QED
      BY <1>1, <2>1, <3>1
  <2>2. CASE ~(j < k)
    <3>1. j + 1 \in 1 .. Len(u) /\ ~(j + 1 < k) /\ j + 1 # k /\ (j + 1) - 1 = j
      BY <1>1, <2>2
    <3> QED
      BY <1>1, <3>1
  <2> QED
    BY <2>1, <2>2
<1>4. k \in 1 .. Len(u) /\ u[k] = c
  BY <1>1
<1>5. CellsOf(u) \subseteq CellsOf(w) \cup {c}
  BY <1>2 DEF CellsOf
<1>6. CellsOf(w) \cup {c} \subseteq CellsOf(u)
  BY <1>3, <1>4 DEF CellsOf
<1> QED
  BY <1>5, <1>6 DEF u

\* g is the heap h with the cell c taken out from between before and after.
TakenOut(h, g, c, before, after) ==
  \A x \in Cells \ {c} :
    /\ g[x].next = IF x = before THEN after ELSE h[x].next
    /\ g[x].prev = IF x = after THEN before ELSE h[x].prev

Behind(w, k) == IF k = Len(w) THEN NULL ELSE w[k + 1]

LEMMA RemoveAtPoints ==
  ASSUME NEW w \in Seq(Cells), NEW k \in 1 .. Len(w)
  PROVE  /\ RemoveAt(w, k) \in Seq(Cells) /\ Len(RemoveAt(w, k)) = Len(w) - 1
         /\ \A j \in 1 .. Len(w) - 1 : RemoveAt(w, k)[j] = IF j < k THEN w[j] ELSE w[j + 1]
<1>1. RemoveAt(w, k) \in Seq(Cells) /\ Len(RemoveAt(w, k)) = Len(w) - 1
  BY RemoveAtIs
<1>2. \A j \in 1 .. Len(w) - 1 : RemoveAt(w, k)[j] = IF j < k THEN w[j] ELSE w[j + 1]
  BY DEF RemoveAt
<1> QED
  BY <1>1, <1>2

Removed(h, hd, w, k, g, new) ==
  /\ ListOf(h, hd, w) /\ k \in 1 .. Len(w)
  /\ TakenOut(h, g, w[k], Earlier(w, k), Behind(w, k))
  /\ new = IF k = 1 THEN Behind(w, k) ELSE hd

LEMMA RemoveKeepsList ==
  ASSUME NEW h, NEW hd, NEW w, NEW k, NEW g, NEW new, Removed(h, hd, w, k, g, new)
  PROVE  ListOf(g, new, RemoveAt(w, k)) /\ CellsOf(RemoveAt(w, k)) = CellsOf(w) \ {w[k]}
<1> USE DEF Removed
<1> DEFINE u == RemoveAt(w, k)
           L == Len(w)
           before == Earlier(w, k)
           after == Behind(w, k)
<1>1. /\ L \in Nat /\ OnceEach(w)
      /\ \A j \in 1 .. L : w[j] \in Cells /\ w[j] # NULL
  BY ListTypes, ListVisitsOnce
<1>2. u \in Seq(Cells) /\ Len(u) = L - 1
      /\ \A j \in 1 .. L - 1 : u[j] = IF j < k THEN w[j] ELSE w[j + 1]
  <2>1. w \in Seq(Cells)
    BY DEF ListOf
  <2> QED
    BY <2>1, RemoveAtPoints
<1>3. /\ hd = IF L = 0 THEN NULL ELSE w[1]
      /\ \A j \in 1 .. L : /\ h[w[j]].next = IF j = L THEN NULL ELSE w[j + 1]
                           /\ h[w[j]].prev = IF j = 1 THEN NULL ELSE w[j - 1]
  BY DEF ListOf
<1>4. /\ before = IF k = 1 THEN NULL ELSE w[k - 1]
      /\ after = IF k = L THEN NULL ELSE w[k + 1]
      /\ new = IF k = 1 THEN after ELSE hd
  BY DEF Earlier, Behind
<1>5. \A x \in Cells \ {w[k]} :
        /\ g[x].next = IF x = before THEN after ELSE h[x].next
        /\ g[x].prev = IF x = after THEN before ELSE h[x].prev
  BY DEF TakenOut
<1> HIDE DEF before, after
<1>6. k \in 1 .. L /\ k \in Int
  OBVIOUS
<1> HIDE DEF u, L
<1>7. ASSUME NEW j \in 1 .. L
      PROVE  (w[j] = before <=> j = k - 1) /\ (w[j] = after <=> j = k + 1)
             /\ (w[j] = w[k] <=> j = k)
  <2>1. w[j] = before <=> j = k - 1
    <3>1. CASE k = 1
      BY <1>1, <1>4, <3>1
    <3>2. CASE k # 1
      <4>1. k - 1 \in 1 .. L
        BY <1>1, <1>6, <3>2
      <4> QED
        BY <1>1, <1>4, <3>2, <4>1 DEF OnceEach, L
    <3> QED
      BY <3>1, <3>2
  <2>2. w[j] = after <=> j = k + 1
    <3>1. CASE k = L
      BY <1>1, <1>4, <3>1
    <3>2. CASE k # L
      <4>1. k + 1 \in 1 .. L
        BY <1>1, <1>6, <3>2
      <4> QED
        BY <1>1, <1>4, <3>2, <4>1 DEF OnceEach, L
    <3> QED
      BY <3>1, <3>2
  <2> QED
    BY <1>1, <1>6, <2>1, <2>2 DEF OnceEach, L
<1>8. ASSUME NEW j \in 1 .. L - 1
      PROVE  /\ g[u[j]].next = IF j = L - 1 THEN NULL ELSE u[j + 1]
             /\ g[u[j]].prev = IF j = 1 THEN NULL ELSE u[j - 1]
  <2>1. CASE j < k
    <3>1. j \in 1 .. L /\ j # k /\ j # L /\ j # k + 1
      BY <1>1, <1>6, <2>1
    <3>2. u[j] = w[j] /\ w[j] \in Cells \ {w[k]}
      BY <1>1, <1>2, <1>7, <2>1, <3>1
    <3>3. g[u[j]].prev = h[w[j]].prev
      BY <1>5, <1>7, <3>1, <3>2
    <3>4. j # 1 => j - 1 \in 1 .. L - 1 /\ j - 1 < k
      BY <1>1, <1>6, <2>1
    <3>5. j # 1 => u[j - 1] = w[j - 1]
      BY <1>2, <3>4
    <3>6. g[u[j]].next = IF j = k - 1 THEN after ELSE h[w[j]].next
      BY <1>5, <1>7, <3>1, <3>2
    <3>7. j = k - 1 => (j = L - 1 <=> k = L) /\ j + 1 = k /\ ~(j + 1 < k)
      BY <1>1, <1>6
    <3>8. j # L - 1 => j + 1 \in 1 .. L - 1
      BY <1>1
    <3>9. j # k - 1 => j + 1 < k /\ j # L - 1
      BY <1>1, <1>6, <2>1
    <3>10. j # L - 1 => u[j + 1] = IF j = k - 1 THEN w[k + 1] ELSE w[j + 1]
      BY <1>2, <3>7, <3>8, <3>9
    <3>11. g[u[j]].next = IF j = L - 1 THEN NULL ELSE u[j + 1]
      BY <1>3, <1>4, <3>1, <3>6, <3>7, <3>9, <3>10
    <3>12. g[u[j]].prev = IF j = 1 THEN NULL ELSE u[j - 1]
      BY <1>3, <3>1, <3>3, <3>5
    <3> QED
      BY <3>11, <3>12
  <2>2. CASE ~(j < k)
    <3>1. j + 1 \in 1 .. L /\ j + 1 # k /\ j + 1 # k - 1 /\ j + 1 # 1 /\ (j + 1) - 1 = j
          /\ (j + 1 = L <=> j = L - 1)
      BY <1>1, <1>6, <2>2
    <3>2. u[j] = w[j + 1] /\ w[j + 1] \in Cells \ {w[k]}
      BY <1>1, <1>2, <1>7, <2>2, <3>1
    <3>3. g[u[j]].next = h[w[j + 1]].next
      BY <1>5, <1>7, <3>1, <3>2
    <3>4. j # L - 1 => j + 1 \in 1 .. L - 1 /\ ~(j + 1 < k)
      BY <1>1, <1>6, <2>2
    <3>5. j # L - 1 => u[j + 1] = w[(j + 1) + 1]
      BY <1>2, <3>4
    <3>6. g[u[j]].next = IF j = L - 1 THEN NULL ELSE u[j + 1]
      BY <1>3, <3>1, <3>3, <3>5
    <3>7. g[u[j]].prev = IF j + 1 = k + 1 THEN before ELSE h[w[j + 1]].prev
      BY <1>5, <1>7, <3>1, <3>2
    <3>8. h[w[j + 1]].prev = w[j]
      BY <1>3, <3>1
    <3>9. j + 1 = k + 1 <=> j = k
      BY <1>6
    <3>10. j # 1 => j - 1 \in 1 .. L - 1
      BY <1>1
    <3>11. j = k => j - 1 < k
      BY <1>6
    <3>12. j # k => j # 1 /\ ~(j - 1 < k) /\ (j - 1) + 1 = j
      BY <1>6, <2>2
    <3>13. j # 1 => u[j - 1] = IF j = k THEN w[j - 1] ELSE w[j]
      BY <1>2, <3>10, <3>11, <3>12
    <3>14. g[u[j]].prev = IF j = 1 THEN NULL ELSE u[j - 1]
      BY <1>4, <3>7, <3>8, <3>9, <3>12, <3>13
    <3> QED
      BY <3>6, <3>14
  <2> QED
    BY <2>1, <2>2
<1>9. new = IF Len(u) = 0 THEN NULL ELSE u[1]
  <2>1. CASE L = 1
    <3>1. k = 1 /\ k = L /\ Len(u) = 0
      BY <1>2, <1>6, <2>1
    <3> QED
      BY <1>4, <3>1
  <2>2. CASE L # 1
    <3>1. 1 \in 1 .. L - 1 /\ Len(u) # 0 /\ L # 0 /\ (k # 1 => 1 < k) /\ (k = 1 => ~(1 < k) /\ k # L)
      BY <1>1, <1>2, <1>6, <2>2
    <3> QED
      BY <1>2, <1>3, <1>4, <3>1
  <2> QED
    BY <2>1, <2>2
<1>10. ListOf(g, new, u)
  BY <1>2, <1>8, <1>9 DEF ListOf
<1>11. ASSUME NEW j \in 1 .. L - 1 PROVE \E i \in 1 .. L : i # k /\ u[j] = w[i]
  <2>1. j \in 1 .. L /\ j + 1 \in 1 .. L
    BY <1>1
  <2>2. j < k => j # k
    BY <1>6
  <2>3. ~(j < k) => j + 1 # k
    BY <1>6
  <2> QED
    BY <1>2, <2>1, <2>2, <2>3
<1>12. ASSUME NEW i \in 1 .. L, i # k PROVE \E j \in 1 .. L - 1 : u[j] = w[i]
  <2>1. CASE i < k
    <3>1. i \in 1 .. L - 1
      BY <1>1, <1>6, <2>1
    <3> QED
      BY <1>2, <2>1, <3>1
  <2>2. CASE ~(i < k)
    <3>1. i - 1 \in 1 .. L - 1 /\ ~(i - 1 < k) /\ (i - 1) + 1 = i
      BY <1>1, <1>6, <1>12, <2>2
    <3> QED
      BY <1>2, <3>1
  <2> QED
    BY <2>1, <2>2
<1>13. CellsOf(u) = {u[j] : j \in 1 .. L - 1} /\ CellsOf(w) = {w[j] : j \in 1 .. L}
  BY <1>2 DEF CellsOf, L
<1>14. ASSUME NEW x \in CellsOf(u) PROVE x \in CellsOf(w) /\ x # w[k]
  <2>1. PICK j \in 1 .. L - 1 : x = u[j]
    BY <1>13
  <2>2. PICK i \in 1 .. L : i # k /\ u[j] = w[i]
    BY <1>11
  <2> QED
    BY <1>7, <1>13, <2>1, <2>2
<1>15. ASSUME NEW x \in CellsOf(w), x # w[k] PROVE x \in CellsOf(u)
  <2>1. PICK i \in 1 .. L : x = w[i]
    BY <1>13
  <2>2. PICK j \in 1 .. L - 1 : u[j] = w[i]
    BY <1>12, <1>15, <2>1
  <2> QED
    BY <1>13, <2>1, <2>2
<1>16. CellsOf(u) = CellsOf(w) \ {w[k]}
  BY <1>14, <1>15
<1> QED
  BY <1>10, <1>16 DEF u

-----------------------------------------------------------------------------
(* What the code does to a list. *)

\* k is the place of a contact named last in the list w: behind the names that
\* are not later, before the first that is.
InOrder(h, last, w, k) ==
  /\ \A j \in 1 .. k - 1 : ~LastnameComparer(last, h[w[j]].person.last)
  /\ k <= Len(w) => LastnameComparer(last, h[w[k]].person.last)

LinksAt(h, r, c, w, k) ==
  /\ PutBetween(h, r.heap, c, Earlier(w, k), AtPlace(w, k))
  /\ r.head = IF k = 1 THEN c ELSE head
  /\ r.hangs = FALSE
  /\ \A x \in Cells : r.heap[x].person = h[x].person

LEMMA LinkPutsBetween ==
  ASSUME NEW h \in Heaps, head \in Pointer, NEW w, ListOf(h, head, w),
         NEW c \in Cells, c \notin CellsOf(w), h[c].prev = NULL, h[c].next = NULL
  PROVE  \E k \in 1 .. Len(w) + 1 :
           LinksAt(h, Link(h, c), c, w, k) /\ InOrder(h, h[c].person.last, w, k)
<1> DEFINE hits == Later(h, c, w)
           k == First(hits)
           r == Link(h, c)
           L == Len(w)
<1>1. /\ L \in Nat /\ DOMAIN w = 1 .. L
      /\ \A j \in 1 .. L : w[j] \in Cells /\ w[j] # NULL /\ w[j] # c
  BY ListTypes DEF CellsOf
<1>2. head = IF L = 0 THEN NULL ELSE w[1]
  BY DEF ListOf
<1>3. Walk(h, head) = w /\ ~Endless(h, head)
  BY ListIsWalked DEF Heaps
<1>4. hits \subseteq 1 .. L
  BY <1>1 DEF Later
<1>5. /\ hits = {} => k = 0
      /\ hits # {} => k \in hits /\ \A j \in hits : k <= j
      /\ k \in 0 .. L
  <2> HIDE DEF hits
  <2> QED
    BY <1>1, <1>4, FirstIs
<1>6. \A j \in 1 .. L : j \in hits <=> LastnameComparer(h[c].person.last, h[w[j]].person.last)
  BY <1>1 DEF Later
<1>7. k \in Nat /\ (k = 0 \/ k = 1 \/ k > 1)
  BY <1>1, <1>5
<1> DEFINE one == [h EXCEPT ![c].next = head]
           two == [h EXCEPT ![c].next = w[k]]
           three == [two EXCEPT ![c].prev = w[k - 1]]
           four == [three EXCEPT ![w[k]].prev = c]
           five == [h EXCEPT ![w[Len(w)]].next = c]
<1>8. LinkResult(h, c, w, k, r)
  <2> HIDE DEF k
  <2>1. k = First(Later(h, c, w)) /\ w = Walk(h, head)
    BY <1>3 DEF k
  <2> QED
    BY <1>7, <2>1, LinkCases
<1> DEFINE last == h[c].person.last
<1>9. SUFFICES \E i \in 1 .. L + 1 : LinksAt(h, r, c, w, i) /\ InOrder(h, last, w, i)
  OBVIOUS
<1>10. /\ hits = {} => InOrder(h, last, w, L + 1)
       /\ k > 0 => k \in 1 .. L /\ InOrder(h, last, w, k)
       /\ k = 0 => hits = {}
  <2> HIDE DEF hits, k, last
  <2>1. ASSUME hits = {} PROVE InOrder(h, last, w, L + 1)
    <3>1. (L + 1) - 1 = L /\ ~(L + 1 <= L)
      BY <1>1
    <3> QED
      BY <1>6, <2>1, <3>1 DEF InOrder, last
  <2>2. ASSUME k > 0 PROVE k \in 1 .. L /\ InOrder(h, last, w, k)
    <3>1. k \in hits /\ k \in 1 .. L /\ \A j \in hits : k <= j
      BY <1>1, <1>5, <2>2
    <3>2. ASSUME NEW j \in 1 .. k - 1 PROVE j \in 1 .. L /\ j \notin hits
      <4>1. j \in 1 .. L /\ ~(k <= j)
        BY <1>1, <3>1
      <4> QED
        BY <3>1, <4>1
    <3> QED
      BY <1>6, <3>1, <3>2 DEF InOrder, last
  <2>3. k = 0 => hits = {}
    BY <1>4, <1>5
  <2> QED
    BY <2>1, <2>2, <2>3
<1>11. c \in Pointer /\ \A j \in 1 .. L : w[j] \in Pointer
  BY <1>1 DEF Pointer
<1> HIDE DEF hits, k, r, L, last, one, two, three, four, five
<1>12. CASE head = NULL
  <2>1. L = 0 /\ r.heap = h /\ r.head = c /\ r.hangs = FALSE
    BY <1>1, <1>2, <1>8, <1>12 DEF LinkResult, Joined
  <2>2. Earlier(w, 1) = NULL /\ AtPlace(w, 1) = NULL
    BY <2>1 DEF Earlier, AtPlace, L
  <2>3. PutBetween(h, h, c, NULL, NULL)
    BY PhoneAssumption DEF PutBetween
  <2>4. LinksAt(h, r, c, w, 1)
    BY <2>1, <2>2, <2>3 DEF LinksAt
  <2>5. hits = {} /\ 1 \in 1 .. L + 1 /\ L + 1 = 1
    BY <1>4, <2>1
  <2> QED
    BY <1>10, <2>4, <2>5
<1>13. CASE head # NULL /\ k = 1
  <2>1. L # 0 /\ head = w[1] /\ head # c /\ head \in Cells /\ 1 \in 1 .. L + 1 /\ 1 # L + 1
    <3>1. L # 0 /\ head = w[1] /\ 1 \in 1 .. L
      BY <1>1, <1>2, <1>13
    <3> QED
      BY <1>1, <3>1
  <2> DEFINE g == [one EXCEPT ![head].prev = c]
  <2>2. r.heap = g /\ r.head = c /\ r.hangs = FALSE
    BY <1>8, <1>13 DEF LinkResult, LinkedFirst, Joined, one
  <2>3. /\ one \in Heaps
        /\ NextSet(h, one, c, head)
    BY SetNext DEF one
  <2>4. PrevSet(one, g, head, c)
    BY <1>11, <2>3, SetPrev
  <2> HIDE DEF g
  <2>5. Earlier(w, 1) = NULL /\ AtPlace(w, 1) = head
    BY <2>1 DEF Earlier, AtPlace, L
  <2>6. PutBetween(h, g, c, NULL, head)
    BY <2>1, <2>3, <2>4, PhoneAssumption DEF PutBetween, NextSet, PrevSet
  <2>7. \A x \in Cells : g[x].person = h[x].person
    BY <2>3, <2>4 DEF NextSet, PrevSet
  <2>8. LinksAt(h, r, c, w, 1)
    BY <2>2, <2>5, <2>6, <2>7 DEF LinksAt
  <2> QED
    BY <1>10, <1>13, <2>1, <2>8
<1>14. CASE head # NULL /\ k > 1
  <2>1. k \in 1 .. L /\ k - 1 \in 1 .. L /\ k \in 1 .. L + 1 /\ k # L + 1 /\ k # 1
    <3>1. k \in 1 .. L
      BY <1>7, <1>10, <1>14
    <3> QED
      BY <1>1, <1>14, <3>1
  <2>2. /\ w[k] \in Pointer /\ w[k - 1] \in Pointer
        /\ w[k] # c /\ w[k - 1] # c
    BY <1>1, <1>11, <2>1
  <2> DEFINE g == [four EXCEPT ![w[k - 1]].next = c]
  <2>3. r.heap = g /\ r.head = head /\ r.hangs = FALSE
    <3>1. LinkedBetween(h, c, w[k - 1], w[k]) = g
      BY Zenon DEF LinkedBetween, two, three, four
    <3>2. r = Joined(LinkedBetween(h, c, w[k - 1], w[k]), head, FALSE)
      BY <1>8, <1>14, Zenon DEF LinkResult
    <3> QED
      BY <3>1, <3>2 DEF Joined
  <2>4. /\ two \in Heaps
        /\ NextSet(h, two, c, w[k])
    BY <2>2, SetNext DEF two
  <2>5. /\ three \in Heaps
        /\ PrevSet(two, three, c, w[k - 1])
    BY <2>2, <2>4, SetPrev DEF three
  <2>6. /\ four \in Heaps
        /\ PrevSet(three, four, w[k], c)
    BY <1>11, <2>5, SetPrev DEF four
  <2>7. NextSet(four, g, w[k - 1], c)
    BY <1>11, <2>6, SetNext
  <2> HIDE DEF g
  <2>8. Earlier(w, k) = w[k - 1] /\ AtPlace(w, k) = w[k]
    BY <2>1 DEF Earlier, AtPlace, L
  <2>9. PutBetween(h, g, c, w[k - 1], w[k])
    BY <2>2, <2>4, <2>5, <2>6, <2>7 DEF PutBetween, NextSet, PrevSet
  <2>10. \A x \in Cells : g[x].person = h[x].person
    BY <2>4, <2>5, <2>6, <2>7 DEF NextSet, PrevSet
  <2>11. LinksAt(h, r, c, w, k)
    BY <2>1, <2>3, <2>8, <2>9, <2>10 DEF LinksAt
  <2> QED
    BY <1>10, <1>14, <2>1, <2>11
<1>15. CASE head # NULL /\ k = 0
  <2>1. L # 0 /\ L \in 1 .. L /\ L + 1 \in 1 .. L + 1 /\ L + 1 # 1 /\ (L + 1) - 1 = L
    BY <1>1, <1>2, <1>15
  <2> DEFINE l == w[L]
             g == [five EXCEPT ![c].prev = l]
  <2>2. l \in Pointer /\ l # c
    BY <1>1, <1>11, <2>1
  <2>3. r.heap = g /\ r.head = head /\ r.hangs = FALSE
    <3>1. Endless(h, head) = FALSE
      BY <1>3 DEF Endless
    <3> QED
      BY <1>8, <1>15, <3>1 DEF LinkResult, LinkedLast, Joined, L, five
  <2> HIDE DEF l
  <2>4. /\ five \in Heaps
        /\ NextSet(h, five, l, c)
    BY <1>11, SetNext DEF five, l, L
  <2>5. PrevSet(five, g, c, l)
    BY <2>2, <2>4, SetPrev
  <2> HIDE DEF g
  <2>6. Earlier(w, L + 1) = l /\ AtPlace(w, L + 1) = NULL
    BY <2>1 DEF Earlier, AtPlace, L, l
  <2>7. PutBetween(h, g, c, l, NULL)
    BY <2>2, <2>4, <2>5, PhoneAssumption DEF PutBetween, NextSet, PrevSet
  <2>8. \A x \in Cells : g[x].person = h[x].person
    BY <2>4, <2>5 DEF NextSet, PrevSet
  <2>9. LinksAt(h, r, c, w, L + 1)
    BY <2>1, <2>3, <2>6, <2>7, <2>8 DEF LinksAt
  <2> QED
    BY <1>10, <1>15, <2>1, <2>9
<1> QED
  BY <1>7, <1>12, <1>13, <1>14, <1>15

LEMMA UnlinkTakesOut ==
  ASSUME heap \in Heaps, head \in Pointer, NEW w, ListOf(heap, head, w), NEW k \in 1 .. Len(w)
  PROVE  /\ TakenOut(heap, Unlink(w[k]), w[k], Earlier(w, k), Behind(w, k))
         /\ \A x \in Cells : Unlink(w[k])[x].person = heap[x].person
         /\ (w[k] = head <=> k = 1)
         /\ heap[w[k]].next = Behind(w, k)
<1> DEFINE c == w[k]
           L == Len(w)
           prev == heap[c].prev
           next == heap[c].next
           g == Unlink(c)
<1>1. /\ L \in Nat /\ OnceEach(w) /\ k \in 1 .. L
      /\ \A j \in 1 .. L : w[j] \in Cells /\ w[j] # NULL
  BY ListTypes, ListVisitsOnce
<1>2. /\ head = IF L = 0 THEN NULL ELSE w[1]
      /\ \A j \in 1 .. L : /\ heap[w[j]].next = IF j = L THEN NULL ELSE w[j + 1]
                           /\ heap[w[j]].prev = IF j = 1 THEN NULL ELSE w[j - 1]
  BY DEF ListOf
<1>3. prev = Earlier(w, k) /\ next = Behind(w, k)
  BY <1>1, <1>2 DEF Earlier, Behind
<1>4. c = head <=> k = 1
  <2>1. 1 \in 1 .. L /\ L # 0
    BY <1>1
  <2> QED
    BY <1>1, <1>2, <2>1 DEF OnceEach
<1>5. c \in Cells /\ prev \in Pointer /\ next \in Pointer /\ NULL \in Pointer
  BY <1>1 DEF Heaps, Node, Pointer
<1>6. (prev = NULL <=> k = 1)
  <2>1. k # 1 => k - 1 \in 1 .. L
    BY <1>1
  <2> QED
    BY <1>1, <1>3, <2>1 DEF Earlier
<1>7. g =
        IF c = head
        THEN IF next = NULL THEN heap ELSE [heap EXCEPT ![next].prev = NULL]
        ELSE IF next = NULL
             THEN [heap EXCEPT ![prev].next = NULL]
             ELSE [[heap EXCEPT ![prev].next = next] EXCEPT ![next].prev = prev]
  BY DEF Unlink
<1> SUFFICES /\ TakenOut(heap, g, c, prev, next)
             /\ \A x \in Cells : g[x].person = heap[x].person
  BY <1>3, <1>4
<1> HIDE DEF c, L, prev, next, g
<1>8. CASE c = head /\ next = NULL
  <2>1. g = heap /\ prev = NULL
    BY <1>4, <1>6, <1>7, <1>8
  <2> QED
    BY <1>8, <2>1, PhoneAssumption DEF TakenOut
<1>9. CASE c = head /\ next # NULL
  <2>1. g = [heap EXCEPT ![next].prev = NULL] /\ prev = NULL
    BY <1>4, <1>6, <1>7, <1>9
  <2>2. PrevSet(heap, g, next, NULL)
    BY <1>5, <2>1, SetPrev
  <2> QED
    BY <2>1, <2>2, PhoneAssumption DEF TakenOut, PrevSet
<1>10. CASE c # head /\ next = NULL
  <2>1. g = [heap EXCEPT ![prev].next = NULL]
    BY <1>7, <1>10
  <2>2. NextSet(heap, g, prev, NULL)
    BY <1>5, <2>1, SetNext
  <2> QED
    BY <1>10, <2>2, PhoneAssumption DEF TakenOut, NextSet
<1>11. CASE c # head /\ next # NULL
  <2> DEFINE f == [heap EXCEPT ![prev].next = next]
  <2>1. g = [f EXCEPT ![next].prev = prev]
    BY <1>7, <1>11
  <2>2. /\ f \in Heaps
        /\ NextSet(heap, f, prev, next)
    BY <1>5, SetNext
  <2> HIDE DEF f
  <2>3. PrevSet(f, g, next, prev)
    BY <1>5, <2>1, <2>2, SetPrev
  <2> QED
    BY <2>2, <2>3 DEF TakenOut, NextSet, PrevSet
<1> QED
  BY <1>8, <1>9, <1>10, <1>11

LEMMA InsertEffect ==
  ASSUME heap \in Heaps, head \in Pointer, allocated \subseteq Cells,
         NEW w, ListOf(heap, head, w), CellsOf(w) = allocated,
         NEW p \in Person, InsertIntoList(p), allocated # Cells
  PROVE  /\ pc' = pc
         /\ \E c \in Cells \ allocated : \E k \in 1 .. Len(w) + 1 :
              /\ ListOf(heap', head', InsertAt(w, k, c))
              /\ CellsOf(InsertAt(w, k, c)) = allocated'
              /\ heap'[c].person = p
              /\ \A x \in Cells \ {c} : heap'[x].person = heap[x].person
              /\ InOrder(heap, p.last, w, k)
<1>1. PICK c \in Cells \ allocated :
        LET r == Link([heap EXCEPT ![c] = [person |-> p, prev |-> NULL, next |-> NULL]], c)
        IN  /\ allocated' = allocated \cup {c}
            /\ IF r.hangs THEN pc' = "hung" /\ UNCHANGED <<heap, head>>
                          ELSE heap' = r.heap /\ head' = r.head /\ UNCHANGED pc
  BY DEF InsertIntoList
<1> DEFINE h == [heap EXCEPT ![c] = [person |-> p, prev |-> NULL, next |-> NULL]]
<1>2. /\ h \in Heaps /\ h[c].person = p /\ h[c].prev = NULL /\ h[c].next = NULL
      /\ \A x \in Cells : x # c => h[x] = heap[x]
  BY PersonOf
<1> HIDE DEF h
<1>3. \A j \in 1 .. Len(w) : w[j] \in Cells /\ w[j] # c
  BY ListTypes DEF CellsOf
<1>4. \A j \in 1 .. Len(w) : h[w[j]] = heap[w[j]]
  BY <1>2, <1>3
<1>5. ListOf(h, head, w)
  BY <1>4 DEF ListOf
<1>6. PICK k \in 1 .. Len(w) + 1 :
        LinksAt(h, Link(h, c), c, w, k) /\ InOrder(h, h[c].person.last, w, k)
  BY <1>2, <1>5, LinkPutsBetween
<1> DEFINE r == Link(h, c)
<1>7. /\ PutBetween(h, r.heap, c, Earlier(w, k), AtPlace(w, k))
      /\ r.head = IF k = 1 THEN c ELSE head
      /\ r.hangs = FALSE
      /\ \A x \in Cells : r.heap[x].person = h[x].person
  BY <1>6 DEF LinksAt
<1>8. heap' = r.heap /\ head' = r.head /\ pc' = pc /\ allocated' = allocated \cup {c}
  BY <1>1, <1>7 DEF h
<1> HIDE DEF r
<1>9. ListOf(heap', head', InsertAt(w, k, c))
  BY <1>5, <1>7, <1>8, InsertKeepsList
<1>10. CellsOf(InsertAt(w, k, c)) = allocated'
  <2>1. w \in Seq(Cells)
    BY DEF ListOf
  <2> QED
    BY <1>8, <2>1, InsertAddsCell
<1>11. heap'[c].person = p /\ \A x \in Cells \ {c} : heap'[x].person = heap[x].person
  BY <1>2, <1>7, <1>8
<1>12. InOrder(heap, p.last, w, k)
  <2>1. Len(w) \in Nat /\ k \in 1 .. Len(w) + 1
    BY ListTypes
  <2>2. \A j \in 1 .. k - 1 : j \in 1 .. Len(w)
    BY <2>1
  <2>3. k <= Len(w) => k \in 1 .. Len(w)
    BY <2>1
  <2>4. InOrder(h, p.last, w, k)
    BY <1>2, <1>6
  <2> QED
    BY <1>4, <2>2, <2>3, <2>4 DEF InOrder
<1> QED
  BY <1>8, <1>9, <1>10, <1>11, <1>12

LEMMA DeleteEffect ==
  ASSUME heap \in Heaps, head \in Pointer, allocated \subseteq Cells, ~misled,
         NEW w, ListOf(heap, head, w), CellsOf(w) = allocated,
         NEW p, Delete(p)
  PROVE  LET k == SearchInList(p) IN
         /\ k \in 0 .. Len(w)
         /\ k = 0 => UNCHANGED <<heap, allocated, head>>
         /\ k # 0 /\ Len(w) = 1 => misled'
         /\ k # 0 /\ Len(w) # 1 =>
              /\ ListOf(heap', head', RemoveAt(w, k))
              /\ CellsOf(RemoveAt(w, k)) = allocated'
              /\ \A x \in Cells \ {w[k]} : heap'[x].person = heap[x].person
<1> DEFINE k == SearchInList(p)
           L == Len(w)
<1>1. L \in Nat /\ \A j \in 1 .. L : w[j] \in Cells /\ w[j] # NULL
  BY ListTypes
<1>2. Walk(heap, head) = w /\ ~Endless(heap, head)
  BY ListIsWalked DEF Heaps
<1>3. k \in 0 .. L /\ (Found(p) <=> k \in 1 .. L)
  BY <1>2, SearchIs
<1>4. ~SearchHangs(p)
  BY <1>2 DEF SearchHangs
<1> DEFINE c == IF Found(p) THEN w[k] ELSE NULL
           newHead == IF head # NULL /\ c = head THEN heap[c].next ELSE head
<1>5. /\ IF c = NULL THEN UNCHANGED <<heap, allocated>> ELSE Free(Unlink(c), c)
      /\ head' = IF newHead # NULL THEN newHead ELSE head
      /\ misled' = (misled \/ (c # NULL /\ newHead = NULL))
  BY <1>2, <1>4 DEF Delete
<1>6. head = IF L = 0 THEN NULL ELSE w[1]
  BY DEF ListOf
<1> HIDE DEF k, L
<1>7. CASE k = 0
  <2>1. c = NULL
    BY <1>3, <1>7
  <2>2. head' = head
    <3>1. newHead = head
      BY <2>1
    <3> QED
      BY <1>5, <3>1
  <2> QED
    BY <1>3, <1>5, <1>7, <2>1, <2>2 DEF k, L
<1>8. CASE k # 0
  <2>1. k \in 1 .. L /\ c = w[k] /\ c \in Cells /\ c # NULL
    BY <1>1, <1>3, <1>8
  <2> HIDE DEF c
  <2>2. /\ TakenOut(heap, Unlink(c), c, Earlier(w, k), Behind(w, k))
        /\ \A x \in Cells : Unlink(c)[x].person = heap[x].person
        /\ (c = head <=> k = 1)
        /\ heap[c].next = Behind(w, k)
    BY <2>1, UnlinkTakesOut DEF L
  <2>3. newHead = IF k = 1 THEN Behind(w, k) ELSE head
    <3>1. head # NULL
      <4>1. L # 0 /\ 1 \in 1 .. L
        BY <1>1, <2>1
      <4> QED
        BY <1>1, <1>6, <4>1
    <3> QED
      BY <2>2, <3>1
  <2> HIDE DEF newHead
  <2>4. CASE L = 1
    <3>1. k = 1 /\ k = L
      BY <1>1, <2>1, <2>4
    <3>2. newHead = NULL
      BY <2>3, <3>1 DEF Behind, L
    <3> QED
      BY <1>3, <1>5, <1>8, <2>1, <2>4, <3>2 DEF k, L
  <2>5. CASE L # 1
    <3>1. newHead # NULL
      <4>1. L # 0 /\ 1 \in 1 .. L /\ (k = 1 => k # L /\ k + 1 \in 1 .. L)
        BY <1>1, <2>1, <2>5
      <4>2. k = 1 => Behind(w, k) = w[k + 1]
        BY <4>1 DEF Behind, L
      <4> QED
        BY <1>1, <1>6, <2>3, <4>1, <4>2
    <3>2. head' = IF k = 1 THEN Behind(w, k) ELSE head
      BY <1>5, <2>3, <3>1
    <3>3. heap' = [Unlink(c) EXCEPT ![c].person.last = JunkName] /\ allocated' = allocated \ {c}
      BY <1>5, <2>1 DEF Free
    <3>4. Unlink(c) \in Heaps
      BY <2>1, UnlinkType
    <3>5. LastLost(Unlink(c), heap', c)
      BY <3>3, <3>4, SetLast
    <3>6. TakenOut(heap, heap', c, Earlier(w, k), Behind(w, k))
      BY <2>2, <3>5 DEF TakenOut, LastLost
    <3>7. ListOf(heap', head', RemoveAt(w, k)) /\ CellsOf(RemoveAt(w, k)) = CellsOf(w) \ {c}
      <4>1. k \in 1 .. Len(w)
        BY <2>1 DEF L
      <4>2. TakenOut(heap, heap', w[k], Earlier(w, k), Behind(w, k))
        BY <2>1, <3>6
      <4>3. Removed(heap, head, w, k, heap', head')
        BY <3>2, <4>1, <4>2 DEF Removed
      <4>4. ListOf(heap', head', RemoveAt(w, k)) /\ CellsOf(RemoveAt(w, k)) = CellsOf(w) \ {w[k]}
        BY <4>3, RemoveKeepsList
      <4> QED
        BY <2>1, <4>4
    <3>8. \A x \in Cells \ {c} : heap'[x].person = heap[x].person
      BY <2>2, <3>5 DEF LastLost
    <3> QED
      BY <1>3, <1>8, <2>1, <2>5, <3>3, <3>7, <3>8 DEF k, L
  <2> QED
    BY <2>4, <2>5
<1> QED
  BY <1>7, <1>8

-----------------------------------------------------------------------------
(* As long as Interface has kept no freed head. *)

ListInv == ~misled => \E w : ListOf(heap, head, w) /\ CellsOf(w) = allocated

Inv == TypeOK /\ ListInv

LEMMA NoList == ASSUME NEW h PROVE ListOf(h, NULL, <<>>) /\ CellsOf(<<>>) = {}
BY DEF ListOf, CellsOf

LEMMA Invariant == Spec => []Inv
<1>1. Init => ListInv
  BY NoList DEF Init, ListInv
<1>2. TypeOK /\ ListInv /\ [Next]_vars => ListInv'
  <2> SUFFICES ASSUME TypeOK, ListInv, [Next]_vars, ~misled'
               PROVE  \E w : ListOf(heap', head', w) /\ CellsOf(w) = allocated'
    BY DEF ListInv
  <2>1. heap \in Heaps /\ head \in Pointer /\ allocated \subseteq Cells
        /\ misled \in BOOLEAN /\ file \in Seq(Person)
    BY Zenon DEF TypeOK, Heaps
  <2>2. CASE Run
    <3>1. head' = NULL /\ allocated' = {}
      BY <2>2 DEF Run
    <3> QED
      BY <3>1, NoList
  <2>3. CASE ~Run
    <3>1. ~misled
      <4>1. \A p \in Typed : Add(p) => misled' = misled
        BY DEF Add
      <4>2. \A p \in Typed : Delete(p) => (misled => misled')
        BY DEF Delete
      <4>3. \A p, q \in Typed : Redact(p, q) => misled' = misled
        BY DEF Redact
      <4>4. Read \/ ReadRecord \/ ReadDone \/ Display \/ Exit \/ UNCHANGED vars
              => misled' = misled
        BY DEF Read, ReadRecord, ReadDone, Display, Exit, vars
      <4> QED
        BY <2>3, <4>1, <4>2, <4>3, <4>4 DEF Next
    <3>2. PICK w : ListOf(heap, head, w) /\ CellsOf(w) = allocated
      BY <3>1 DEF ListInv
    <3>3. ASSUME NEW p \in Person, InsertIntoList(p)
          PROVE  \E u : ListOf(heap', head', u) /\ CellsOf(u) = allocated'
      <4>1. CASE allocated = Cells
        BY <3>2, <3>3, <4>1 DEF InsertIntoList, listVars
      <4>2. CASE allocated # Cells
        BY <2>1, <3>2, <3>3, <4>2, InsertEffect
      <4> QED
        BY <4>1, <4>2
    <3>4. ASSUME NEW p \in Typed, Add(p)
          PROVE  \E u : ListOf(heap', head', u) /\ CellsOf(u) = allocated'
      <4>1. p \in Person /\ InsertIntoList(p)
        BY <3>4 DEF Typed, Person, Add
      <4> QED
        BY <3>3, <4>1
    <3>5. ASSUME ReadRecord
          PROVE  \E u : ListOf(heap', head', u) /\ CellsOf(u) = allocated'
      <4>1. CASE access = "granted" /\ offset < Len(file)
        <5>1. offset + 1 \in 1 .. Len(file)
          <6>1. offset \in 0 .. Len(file)
            BY Zenon DEF TypeOK
          <6>2. Len(file) \in Nat
            BY <2>1, LenProperties
          <6> QED
            BY <4>1, <6>1, <6>2
        <5>2. file[offset + 1] \in Person
          BY <2>1, <5>1, ElementOfSeq
        <5> QED
          BY <3>3, <3>5, <4>1, <5>2 DEF ReadRecord
      <4>2. CASE access # "granted"
        <5>1. Blank.person \in Person
          BY PhoneAssumption DEF Blank, Person
        <5> QED
          BY <3>3, <3>5, <4>2, <5>1 DEF ReadRecord
      <4> QED
        BY <3>5, <4>1, <4>2 DEF ReadRecord
    <3>6. ASSUME NEW p \in Typed, Delete(p)
          PROVE  \E u : ListOf(heap', head', u) /\ CellsOf(u) = allocated'
      BY <2>1, <3>1, <3>2, <3>6, DeleteEffect
    <3>7. ASSUME NEW p \in Typed, NEW q \in Typed, Redact(p, q)
          PROVE  \E u : ListOf(heap', head', u) /\ CellsOf(u) = allocated'
      <4>1. allocated' = allocated /\ head' = head
            /\ \/ heap' = heap
               \/ \E c : heap' = [heap EXCEPT ![c].person = q]
        BY <3>7 DEF Redact
      <4>2. CASE heap' = heap
        BY <3>2, <4>1, <4>2
      <4>3. CASE heap' # heap
        <5>1. PICK c : heap' = [heap EXCEPT ![c].person = q]
          BY <4>1, <4>3
        <5>2. q \in Person
          BY DEF Typed, Person
        <5>3. PersonSet(heap, heap', c, q)
          BY <2>1, <5>1, <5>2, SetPerson
        <5>4. \A j \in 1 .. Len(w) : w[j] \in Cells
          BY <3>2, ListTypes
        <5>5. \A j \in 1 .. Len(w) : /\ heap'[w[j]].next = heap[w[j]].next
                                     /\ heap'[w[j]].prev = heap[w[j]].prev
          BY <5>3, <5>4 DEF PersonSet
        <5>6. ListOf(heap', head', w)
          BY <3>2, <4>1, <5>5 DEF ListOf
        <5> QED
          BY <3>2, <4>1, <5>6
      <4> QED
        BY <4>2, <4>3
    <3>8. CASE Read \/ ReadDone \/ Display \/ Exit \/ UNCHANGED vars
      <4>1. heap' = heap /\ head' = head /\ allocated' = allocated
        BY <3>8 DEF Read, ReadDone, Display, Exit, listVars, vars
      <4> QED
        BY <3>2, <4>1
    <3> QED
      BY <2>3, <3>4, <3>5, <3>6, <3>7, <3>8 DEF Next
  <2> QED
    BY <2>2, <2>3
<1> QED
  BY <1>1, <1>2, TypeCorrect, PTL DEF Spec, Inv

\* The nodes of the list, forwards and backwards, are the allocated cells.
THEOREM LinkedBothWaysHolds == Spec => []LinkedBothWays
<1>1. Inv => LinkedBothWays
  <2> SUFFICES ASSUME Inv, ~misled
               PROVE  LET walk == Walk(heap, head) IN
                      /\ ~Endless(heap, head)
                      /\ {walk[k] : k \in DOMAIN walk} = allocated
                      /\ \A k \in DOMAIN walk :
                           heap[walk[k]].prev = IF k = 1 THEN NULL ELSE walk[k - 1]
    BY DEF LinkedBothWays
  <2>1. PICK w : ListOf(heap, head, w) /\ CellsOf(w) = allocated
    BY DEF Inv, ListInv
  <2>2. heap \in [Cells -> Node] /\ head \in Pointer
    BY Zenon DEF Inv, TypeOK
  <2>3. Walk(heap, head) = w /\ ~Endless(heap, head)
    BY <2>1, <2>2, ListIsWalked
  <2>4. DOMAIN w = 1 .. Len(w)
    BY <2>1, ListTypes
  <2>5. {w[k] : k \in DOMAIN w} = allocated
    BY <2>1, <2>4 DEF CellsOf
  <2>6. \A k \in DOMAIN w : heap[w[k]].prev = IF k = 1 THEN NULL ELSE w[k - 1]
    BY <2>1, <2>4 DEF ListOf
  <2> QED
    BY <2>3, <2>5, <2>6
<1> QED
  BY <1>1, Invariant, PTL

\* What the list w says.
Persons(h, w) == [k \in 1 .. Len(w) |-> h[w[k]].person]

LEMMA PersonsType ==
  ASSUME NEW h \in Heaps, NEW hd, NEW w, ListOf(h, hd, w)
  PROVE  Persons(h, w) \in Seq(Person) /\ Len(Persons(h, w)) = Len(w) /\ Len(w) \in Nat
<1>1. Len(w) \in Nat /\ \A k \in 1 .. Len(w) : w[k] \in Cells
  BY ListTypes
<1>2. \A k \in 1 .. Len(w) : h[w[k]].person \in Person
  BY <1>1 DEF Heaps, Node
<1>3. Persons(h, w) \in [1 .. Len(w) -> Person]
  BY <1>2 DEF Persons
<1> QED
  BY <1>1, <1>3, FunctionIsSeq

\* An insertion and a removal of a cell are those of its contact.
LEMMA PersonsInserted ==
  ASSUME NEW h, NEW hd, NEW w, ListOf(h, hd, w), NEW c \in Cells, c \notin CellsOf(w),
         NEW k \in 1 .. Len(w) + 1, NEW g, NEW p, g[c].person = p,
         \A x \in Cells \ {c} : g[x].person = h[x].person
  PROVE  Persons(g, InsertAt(w, k, c)) = InsertAt(Persons(h, w), k, p)
<1> DEFINE u == InsertAt(w, k, c)
           L == Len(w)
<1>1. /\ L \in Nat /\ \A j \in 1 .. L : w[j] \in Cells \ {c}
  BY ListTypes DEF CellsOf
<1>2. Len(u) = L + 1
      /\ \A j \in 1 .. L + 1 : u[j] = IF j < k THEN w[j] ELSE IF j = k THEN c ELSE w[j - 1]
  <2>1. w \in Seq(Cells)
    BY DEF ListOf
  <2> QED
    BY <2>1, InsertAtPoints
<1> DEFINE s == Persons(h, w)
<1>3. Len(s) = L /\ \A j \in 1 .. L : s[j] = h[w[j]].person
  <2>1. s = [j \in 1 .. L |-> h[w[j]].person]
    BY DEF Persons
  <2> QED
    BY <1>1, <2>1
<1> HIDE DEF u, L, s
<1>4. k \in Int
  OBVIOUS
<1>5. ASSUME NEW j \in 1 .. L + 1
      PROVE  g[u[j]].person = IF j < k THEN s[j] ELSE IF j = k THEN p ELSE s[j - 1]
  <2>1. j < k => j \in 1 .. L
    BY <1>1, <1>4 DEF L
  <2>2. ~(j < k) /\ j # k => j - 1 \in 1 .. L
    BY <1>1, <1>4 DEF L
  <2>3. CASE j < k
    BY <1>1, <1>2, <1>3, <2>1, <2>3
  <2>4. CASE j = k
    BY <1>2, <1>4, <2>4
  <2>5. CASE ~(j < k) /\ j # k
    BY <1>1, <1>2, <1>3, <2>2, <2>5
  <2> QED
    BY <1>4, <2>3, <2>4, <2>5
<1>6. Persons(g, u) = [j \in 1 .. L + 1 |-> g[u[j]].person]
  BY <1>2 DEF Persons
<1>7. InsertAt(s, k, p) =
        [j \in 1 .. L + 1 |-> IF j < k THEN s[j] ELSE IF j = k THEN p ELSE s[j - 1]]
  BY <1>3 DEF InsertAt
<1>8. Persons(g, u) = InsertAt(s, k, p)
  BY <1>5, <1>6, <1>7
<1> QED
  BY <1>8 DEF u, s

LEMMA PersonsRemoved ==
  ASSUME NEW h, NEW hd, NEW w, ListOf(h, hd, w), NEW k \in 1 .. Len(w), NEW g,
         \A x \in Cells \ {w[k]} : g[x].person = h[x].person
  PROVE  Persons(g, RemoveAt(w, k)) = RemoveAt(Persons(h, w), k)
<1> DEFINE u == RemoveAt(w, k)
           L == Len(w)
           s == Persons(h, w)
<1>1. /\ L \in Nat /\ OnceEach(w) /\ k \in 1 .. L /\ \A j \in 1 .. L : w[j] \in Cells
  BY ListTypes, ListVisitsOnce
<1>2. Len(u) = L - 1 /\ \A j \in 1 .. L - 1 : u[j] = IF j < k THEN w[j] ELSE w[j + 1]
  <2>1. w \in Seq(Cells)
    BY DEF ListOf
  <2> QED
    BY <2>1, RemoveAtPoints
<1>3. Len(s) = L /\ \A j \in 1 .. L : s[j] = h[w[j]].person
  <2>1. s = [j \in 1 .. L |-> h[w[j]].person]
    BY DEF Persons
  <2> QED
    BY <1>1, <2>1
<1>4. \A j \in 1 .. L : j # k => w[j] \in Cells \ {w[k]}
  BY <1>1 DEF OnceEach
<1> HIDE DEF u, L, s
<1>5. ASSUME NEW j \in 1 .. L - 1
      PROVE  g[u[j]].person = IF j < k THEN s[j] ELSE s[j + 1]
  <2>1. j \in 1 .. L /\ j + 1 \in 1 .. L
    BY <1>1
  <2>2. CASE j < k
    <3>1. j # k
      BY <1>1, <2>2
    <3> QED
      BY <1>2, <1>3, <1>4, <2>1, <2>2, <3>1
  <2>3. CASE ~(j < k)
    <3>1. j + 1 # k
      BY <1>1, <2>3
    <3> QED
      BY <1>2, <1>3, <1>4, <2>1, <2>3, <3>1
  <2> QED
    BY <2>2, <2>3
<1>6. Persons(g, u) = [j \in 1 .. L - 1 |-> g[u[j]].person]
  BY <1>2 DEF Persons
<1>7. RemoveAt(s, k) = [j \in 1 .. L - 1 |-> IF j < k THEN s[j] ELSE s[j + 1]]
  BY <1>3 DEF RemoveAt
<1>8. Persons(g, u) = RemoveAt(s, k)
  BY <1>5, <1>6, <1>7
<1> QED
  BY <1>8 DEF u, s

\* An insertion puts a contact behind those of its last name and keeps the
\* order; a removal takes out the first contact of the name and keeps the rest.
THEOREM ActsOnSequenceHolds == Spec => ActsOnSequence
<1> DEFINE Place(s, k, p) ==
             /\ \A j \in 1 .. k - 1 : ~LastnameComparer(p.last, s[j].last)
             /\ k <= Len(s) => LastnameComparer(p.last, s[k].last)
           InsertStep(p) ==
             Inserts(p) /\ ~misled /\ allocated # Cells =>
                  \E k \in 1 .. Len(Contents) + 1 :
                    /\ Contents' = Before(Contents, k) \o <<p>> \o From(Contents, k)
                    /\ \A j \in 1 .. k - 1 : ~LastnameComparer(p.last, Contents[j].last)
                    /\ k <= Len(Contents) => LastnameComparer(p.last, Contents[k].last)
           DeleteStep(p) ==
             Delete(p) /\ ~misled /\ Len(Contents) > 1 =>
                  LET k == SearchInList(p) IN
                  Contents' = IF k = 0 THEN Contents
                              ELSE Before(Contents, k) \o From(Contents, k + 1)
<1>1. ASSUME TypeOK, TypeOK', ListInv, NEW p \in Typed PROVE InsertStep(p) /\ DeleteStep(p)
  <2>1. heap \in Heaps /\ head \in Pointer /\ allocated \subseteq Cells /\ p \in Person
    BY <1>1, Zenon DEF TypeOK, Heaps, Typed, Person
  <2>2. heap' \in Heaps /\ head' \in Pointer
    BY <1>1, Zenon DEF TypeOK, Heaps
  <2>3. ASSUME ~misled PROVE \E w : ListOf(heap, head, w) /\ CellsOf(w) = allocated
    BY <1>1, <2>3 DEF ListInv
  <2>4. ASSUME NEW w, ListOf(heap, head, w) PROVE Contents = Persons(heap, w)
    <3>1. Walk(heap, head) = w /\ DOMAIN w = 1 .. Len(w)
      BY <2>1, <2>4, ListIsWalked, ListTypes DEF Heaps
    <3> QED
      BY <3>1 DEF Contents, Persons
  <2>5. ASSUME NEW w, ListOf(heap', head', w) PROVE Contents' = Persons(heap', w)
    <3>1. Walk(heap', head') = w /\ DOMAIN w = 1 .. Len(w)
      BY <2>2, <2>5, ListIsWalked, ListTypes DEF Heaps
    <3> QED
      BY <3>1 DEF Contents, Persons
  <2>6. InsertStep(p)
    <3> SUFFICES ASSUME Inserts(p), ~misled, allocated # Cells
                 PROVE  \E k \in 1 .. Len(Contents) + 1 :
                          /\ Contents' = Before(Contents, k) \o <<p>> \o From(Contents, k)
                          /\ Place(Contents, k, p)
      OBVIOUS
    <3>1. InsertIntoList(p)
      BY DEF Inserts, Add, ReadRecord
    <3>2. PICK w : ListOf(heap, head, w) /\ CellsOf(w) = allocated
      BY <2>3
    <3>3. PICK c \in Cells \ allocated, k \in 1 .. Len(w) + 1 :
              /\ ListOf(heap', head', InsertAt(w, k, c))
              /\ heap'[c].person = p
              /\ \A x \in Cells \ {c} : heap'[x].person = heap[x].person
              /\ InOrder(heap, p.last, w, k)
      BY <2>1, <3>1, <3>2, InsertEffect
    <3> DEFINE s == Persons(heap, w)
    <3>4. Contents = s /\ Contents' = Persons(heap', InsertAt(w, k, c))
      BY <2>4, <2>5, <3>2, <3>3
    <3>5. s \in Seq(Person) /\ Len(s) = Len(w) /\ Len(w) \in Nat
      BY <2>1, <3>2, PersonsType
    <3>6. Persons(heap', InsertAt(w, k, c)) = InsertAt(s, k, p)
      BY <3>2, <3>3, PersonsInserted
    <3>7. \A j \in 1 .. Len(w) : s[j] = heap[w[j]].person
      BY DEF Persons
    <3> HIDE DEF s
    <3>8. k \in 1 .. Len(s) + 1
      BY <3>5
    <3>9. InsertAt(s, k, p) = Before(s, k) \o <<p>> \o From(s, k)
      BY <2>1, <3>5, <3>8, InsertAtIs
    <3>10. Place(s, k, p)
      <4>1. \A j \in 1 .. k - 1 : j \in 1 .. Len(w)
        BY <3>5
      <4>2. k <= Len(w) => k \in 1 .. Len(w)
        BY <3>5
      <4> QED
        BY <3>3, <3>5, <3>7, <4>1, <4>2 DEF InOrder
    <3> QED
      BY <3>4, <3>6, <3>8, <3>9, <3>10
  <2>7. DeleteStep(p)
    <3> SUFFICES ASSUME Delete(p), ~misled, Len(Contents) > 1
                 PROVE  LET k == SearchInList(p) IN
                        Contents' = IF k = 0 THEN Contents
                                    ELSE Before(Contents, k) \o From(Contents, k + 1)
      OBVIOUS
    <3> DEFINE k == SearchInList(p)
    <3>1. PICK w : ListOf(heap, head, w) /\ CellsOf(w) = allocated
      BY <2>3
    <3> DEFINE s == Persons(heap, w)
    <3>2. Contents = s
      BY <2>4, <3>1
    <3>3. s \in Seq(Person) /\ Len(s) = Len(w) /\ Len(w) \in Nat
      BY <2>1, <3>1, PersonsType
    <3>4. /\ k \in 0 .. Len(w)
          /\ k = 0 => UNCHANGED <<heap, allocated, head>>
          /\ k # 0 /\ Len(w) # 1 =>
               /\ ListOf(heap', head', RemoveAt(w, k))
               /\ \A x \in Cells \ {w[k]} : heap'[x].person = heap[x].person
      BY <2>1, <3>1, DeleteEffect
    <3> HIDE DEF k, s
    <3>5. Len(w) # 1
      BY <3>2, <3>3
    <3>6. CASE k = 0
      <4>1. ListOf(heap', head', w) /\ heap' = heap
        BY <3>1, <3>4, <3>6
      <4>2. Contents' = Persons(heap', w)
        BY <2>5, <4>1
      <4> QED
        BY <3>2, <3>6, <4>1, <4>2 DEF k, s
    <3>7. CASE k # 0
      <4>1. k \in 1 .. Len(w) /\ k \in 1 .. Len(s)
        BY <3>3, <3>4, <3>7
      <4>2. ListOf(heap', head', RemoveAt(w, k))
            /\ \A x \in Cells \ {w[k]} : heap'[x].person = heap[x].person
        BY <3>4, <3>5, <3>7
      <4>3. Contents' = Persons(heap', RemoveAt(w, k))
        BY <2>5, <4>2
      <4>4. Persons(heap', RemoveAt(w, k)) = RemoveAt(s, k)
        BY <3>1, <4>1, <4>2, PersonsRemoved DEF s
      <4>5. RemoveAt(s, k) = Before(s, k) \o From(s, k + 1)
        BY <3>3, <4>1, RemoveAtIs
      <4> QED
        BY <3>2, <3>7, <4>3, <4>4, <4>5 DEF k
    <3> QED
      BY <3>6, <3>7
  <2> QED
    BY <2>6, <2>7
<1>2. Inv /\ Inv' =>
        \A p \in Typed :
          /\ Inserts(p) /\ ~misled /\ allocated # Cells =>
               \E k \in 1 .. Len(Contents) + 1 :
                 /\ Contents' = Before(Contents, k) \o <<p>> \o From(Contents, k)
                 /\ \A j \in 1 .. k - 1 : ~LastnameComparer(p.last, Contents[j].last)
                 /\ k <= Len(Contents) => LastnameComparer(p.last, Contents[k].last)
          /\ Delete(p) /\ ~misled /\ Len(Contents) > 1 =>
               LET k == SearchInList(p) IN
               Contents' = IF k = 0 THEN Contents
                           ELSE Before(Contents, k) \o From(Contents, k + 1)
  BY <1>1, Zenon DEF Inv
<1> QED
  BY <1>2, Invariant, PTL DEF ActsOnSequence
=============================================================================
