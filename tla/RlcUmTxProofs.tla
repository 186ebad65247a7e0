---------------------------- MODULE RlcUmTxProofs ----------------------------
(***************************************************************************)
(* Proofs about RlcUmTx, for all SDU sizes, grants and lengths of the queue:*)
(* rlc_um_segment_5 and rlc_um_segment_10 lay out and fill the same PDU.    *)
(***************************************************************************)
EXTENDS RlcUmTx, DataLemmas

Sdu == [size : Nat, remaining : Nat \ {0}]

LEMMA SduSeq ==
  ASSUME NEW s, s \in Seq(Sdu)
  PROVE  /\ Len(s) \in Nat /\ DOMAIN s = 1 .. Len(s) /\ \A i \in 1 .. Len(s) : s[i] \in Sdu
         /\ \A i \in 1 .. Len(s) : s[i].remaining \in Nat \ {0}
<1>1. Len(s) \in Nat /\ DOMAIN s = 1 .. Len(s) /\ \A i \in 1 .. Len(s) : s[i] \in Sdu
  OBVIOUS
<1> QED
  BY <1>1 DEF Sdu

\* The n-th length indicator takes 2 bytes, then 1, then 2, ...
LiOf(n) == IF n % 2 = 0 THEN 1 ELSE 2

LEMMA LiFacts ==
  ASSUME NEW n \in Nat
  PROVE  /\ LiOf(n) \in {1, 2} /\ LiOf(0) = 1 /\ LiBytes(0) = 0
         /\ LiBytes(n) \in Nat /\ NextLi(LiOf(n)) = LiOf(n + 1)
         /\ LiBytes(n + 1) = LiBytes(n) + LiOf(n + 1)
<1>1. n \div 2 \in Nat /\ (n = 2 * (n \div 2) \/ n = 2 * (n \div 2) + 1)
  OBVIOUS
<1>2. \E k \in Nat : n = 2 * k \/ n = 2 * k + 1
  BY <1>1
<1> QED
  BY <1>2 DEF LiOf, LiBytes, NextLi

LEMMA LiBefore ==
  ASSUME NEW n \in Nat \ {0}
  PROVE  /\ LiBytes(n) = LiBytes(n - 1) + LiOf(n) /\ LiBytes(n - 1) \in Nat
         /\ LiOf(n) \in {1, 2} /\ NextLi(LiOf(n - 1)) = LiOf(n)
<1>1. PICK k \in Nat : n = k + 1 /\ k = n - 1
  OBVIOUS
<1> QED
  BY <1>1, LiFacts

\* The room that WholeQueue keeps for length indicators.
LEMMA WholeQueueIs ==
  ASSUME NEW n \in Nat
  PROVE  ((n * 3) \div 2) + (n % 2) = LiBytes(n)
<1>1. n \div 2 \in Nat /\ (n = 2 * (n \div 2) \/ n = 2 * (n \div 2) + 1)
  OBVIOUS
<1>2. \E k \in Nat : n = 2 * k \/ n = 2 * k + 1
  BY <1>1
<1> QED
  BY <1>2 DEF LiBytes

\* T[i] are the bytes of the first i SDUs of s.
Totals(T, s) ==
  /\ T[0] = 0 /\ \A i \in 0 .. Len(s) : T[i] \in Nat
  /\ \A i \in 1 .. Len(s) : T[i] = T[i - 1] + s[i].remaining
  /\ TotalRemaining(s) = T[Len(s)]

LEMMA TotalsExist ==
  ASSUME NEW s, s \in Seq(Sdu)
  PROVE  \E T : Totals(T, s)
<1> DEFINE N == Len(s)
<1>1. N \in Nat /\ DOMAIN s = 1 .. N /\ \A i \in 1 .. N : s[i].remaining \in Nat
  BY SduSeq
<1> HIDE DEF N
<1>2. PICK T : FoldTrace(T, LAMBDA n, sdu : n + sdu.remaining, 0, s, N)
  BY <1>1, FoldLeftTrace
<1>3. /\ T[0] = 0 /\ \A i \in 1 .. N : T[i] = T[i - 1] + s[i].remaining
      /\ TotalRemaining(s) = T[N]
  BY <1>2 DEF FoldTrace, TotalRemaining
<1> DEFINE S == {i \in 0 .. N : T[i] \in Nat}
<1>4. 0 \in S
  BY <1>1, <1>3
<1>5. ASSUME NEW n \in 0 .. N - 1, n \in S PROVE n + 1 \in S
  <2>1. n + 1 \in 1 .. N /\ (n + 1) - 1 = n
    BY <1>1
  <2> QED
    BY <2>1, <1>1, <1>3, <1>5
<1> HIDE DEF S
<1>6. \A n \in 0 .. N : n \in S
  BY <1>1, <1>4, <1>5, InductionUpTo
<1>7. Totals(T, s)
  BY <1>3, <1>6 DEF Totals, N, S
<1> QED
  BY <1>7

\* They grow.
LEMMA TotalsGrow ==
  ASSUME NEW s, s \in Seq(Sdu), NEW T, Totals(T, s), NEW i \in 0 .. Len(s)
  PROVE  \A j \in i + 1 .. Len(s) : T[i] < T[j]
<1> DEFINE N == Len(s)
           S == {n \in 0 .. N : n > i => T[i] < T[n]}
<1>1. N \in Nat /\ \A n \in 1 .. N : s[n].remaining \in Nat \ {0}
  BY SduSeq
<1>2. 0 \in S
  BY <1>1
<1>3. ASSUME NEW n \in 0 .. N - 1, n \in S PROVE n + 1 \in S
  <2>1. n + 1 \in 1 .. N /\ (n + 1) - 1 = n /\ n \in 0 .. N
    BY <1>1
  <2>2. T[n + 1] = T[n] + s[n + 1].remaining
    BY <2>1 DEF Totals
  <2>3. T[n] \in Nat /\ T[i] \in Nat /\ s[n + 1].remaining \in Nat \ {0}
    BY <2>1, <1>1 DEF Totals
  <2>4. n + 1 > i => T[i] < T[n + 1]
    BY <2>1, <2>2, <2>3, <1>3
  <2> QED
    BY <2>1, <2>4
<1> HIDE DEF S
<1>4. \A n \in 0 .. N : n \in S
  BY <1>1, <1>2, <1>3, InductionUpTo
<1> QED
  BY <1>4, <1>1 DEF S
-----------------------------------------------------------------------------
(* The pass that lays the PDU out.                                          *)

\* What is left of the PDU after i SDUs, each with its length indicator.
Room(T, room, i) == room - T[i] - LiBytes(i)

\* SDU m is the last of which the PDU has a part.
StopsIn(s, T, room, m) ==
  /\ m \in 1 .. Len(s) /\ s[m].remaining + LiOf(m) >= Room(T, room, m - 1)
  /\ \A i \in 1 .. m - 1 : s[i].remaining + LiOf(i) < Room(T, room, i - 1)

CutOf(s, T, room, m) ==
  IF s[m].remaining >= Room(T, room, m - 1) THEN 0 ELSE Room(T, room, m - 1) - s[m].remaining

CountGo(T, room, i) ==
  [go |-> TRUE, num_li |-> i, room |-> Room(T, room, i), cut |-> 0,
   extra |-> IF i = 0 THEN 0 ELSE LiOf(i), li |-> LiOf(i)]
CountEnd(T, room, m, cut) ==
  [go |-> FALSE, num_li |-> m - 1, room |-> Room(T, room, m - 1), cut |-> cut, extra |-> 0,
   li |-> LiOf(m - 1)]

LEMMA RoomFacts ==
  ASSUME NEW s, s \in Seq(Sdu), NEW T, Totals(T, s), NEW room \in Int
  PROVE  /\ \A i \in 0 .. Len(s) : Room(T, room, i) \in Int
         /\ \A i \in 1 .. Len(s) :
              Room(T, room, i) = Room(T, room, i - 1) - (s[i].remaining + LiOf(i))
<1>1. Len(s) \in Nat /\ \A i \in 1 .. Len(s) : s[i].remaining \in Nat \ {0}
  BY SduSeq
<1>2. ASSUME NEW i \in 0 .. Len(s) PROVE Room(T, room, i) \in Int
  <2>1. T[i] \in Nat /\ LiBytes(i) \in Nat
    BY <1>1, LiFacts DEF Totals
  <2> QED
    BY <2>1 DEF Room
<1>3. ASSUME NEW i \in 1 .. Len(s)
      PROVE  Room(T, room, i) = Room(T, room, i - 1) - (s[i].remaining + LiOf(i))
  <2>1. i - 1 \in Nat /\ i - 1 \in 0 .. Len(s) /\ (i - 1) + 1 = i
    BY <1>1
  <2>2. LiBytes(i) = LiBytes(i - 1) + LiOf(i) /\ LiBytes(i - 1) \in Nat /\ LiOf(i) \in {1, 2}
    BY <2>1, LiBefore
  <2>3. T[i] = T[i - 1] + s[i].remaining /\ T[i - 1] \in Nat /\ s[i].remaining \in Nat
    BY <1>1, <2>1 DEF Totals
  <2>4. /\ Room(T, room, i) = room - T[i] - LiBytes(i)
        /\ Room(T, room, i - 1) = room - T[i - 1] - LiBytes(i - 1)
    BY DEF Room
  <2>5. \A a, b, c, d \in Nat : room - (a + b) - (c + d) = (room - a - c) - (b + d)
    OBVIOUS
  <2>6. LiOf(i) \in Nat
    BY <2>2
  <2> QED
    BY <2>2, <2>3, <2>4, <2>5, <2>6
<1> QED
  BY <1>2, <1>3

LEMMA StopExists ==
  ASSUME NEW s, s \in Seq(Sdu), s # <<>>, NEW T, Totals(T, s), NEW room \in Int,
         room <= T[Len(s)] + LiBytes(Len(s) - 1)
  PROVE  \E m : StopsIn(s, T, room, m)
<1> DEFINE N == Len(s)
           S == {i \in 1 .. N : s[i].remaining + LiOf(i) >= Room(T, room, i - 1)}
<1>1. N \in Nat /\ N >= 1 /\ \A i \in 1 .. N : s[i].remaining \in Nat \ {0}
  BY SduSeq
<1>2. N \in S
  <2>1. LiBytes(N - 1) \in Nat /\ LiOf(N) \in {1, 2}
    BY <1>1, LiFacts
  <2>2. T[N] = T[N - 1] + s[N].remaining /\ T[N - 1] \in Nat /\ s[N].remaining \in Nat
    BY <1>1 DEF Totals
  <2>3. s[N].remaining + LiOf(N) >= Room(T, room, N - 1)
    BY <2>1, <2>2 DEF Room
  <2> QED
    BY <1>1, <2>3
<1>3. S \subseteq Nat
  OBVIOUS
<1>4. PICK m \in S : \A x \in S : m <= x
  BY <1>2, <1>3, LeastNatural
<1>5. \A i \in 1 .. m - 1 : i \notin S /\ i \in 1 .. N
  BY <1>1, <1>4
<1>6. \A i \in 1 .. m - 1 : s[i].remaining + LiOf(i) < Room(T, room, i - 1)
  <2> TAKE i \in 1 .. m - 1
  <2>1. i \in 1 .. N /\ ~(s[i].remaining + LiOf(i) >= Room(T, room, i - 1))
    BY <1>5
  <2>2. s[i].remaining \in Nat /\ LiOf(i) \in {1, 2} /\ Room(T, room, i - 1) \in Int
    <3>1. i - 1 \in 0 .. Len(s) /\ i \in Nat \ {0}
      BY <2>1
    <3>2. Room(T, room, i - 1) \in Int
      BY <3>1, RoomFacts
    <3> QED
      BY <1>1, <2>1, <3>1, <3>2, LiBefore
  <2> QED
    BY <2>1, <2>2
<1> QED
  BY <1>4, <1>6 DEF StopsIn

\* The room for SDU m, and what the PDU is shortened by.
LEMMA StopFacts ==
  ASSUME NEW s, s \in Seq(Sdu), NEW T, Totals(T, s), NEW room \in Int, room >= 1,
         NEW m, StopsIn(s, T, room, m)
  PROVE  /\ m \in 1 .. Len(s) /\ Room(T, room, m - 1) \in Nat \ {0}
         /\ \A i \in 1 .. m : Room(T, room, i - 1) >= Room(T, room, m - 1)
         /\ CutOf(s, T, room, m) \in 0 .. LiOf(m)
         /\ Room(T, room, m - 1) - CutOf(s, T, room, m) \in 1 .. s[m].remaining
<1>1. /\ Len(s) \in Nat /\ m \in 1 .. Len(s) /\ s[m].remaining \in Nat \ {0}
      /\ \A i \in 1 .. Len(s) : s[i].remaining \in Nat \ {0} /\ LiOf(i) \in {1, 2}
  <2>1. Len(s) \in Nat /\ \A i \in 1 .. Len(s) : s[i].remaining \in Nat \ {0}
    BY SduSeq
  <2>2. m \in 1 .. Len(s)
    BY DEF StopsIn
  <2>3. \A i \in 1 .. Len(s) : LiOf(i) \in {1, 2}
    BY DEF LiOf
  <2> QED
    BY <2>1, <2>2, <2>3
<1>2. Room(T, room, m - 1) >= 1 /\ Room(T, room, m - 1) \in Int
  <2>1. CASE m = 1
    <3>1. T[0] = 0 /\ LiBytes(0) = 0
      BY LiFacts DEF Totals
    <3> QED
      BY <2>1, <3>1 DEF Room
  <2>2. CASE m > 1
    <3>1. /\ m - 1 \in 1 .. m - 1 /\ m - 1 \in 1 .. Len(s)
          /\ Room(T, room, m - 1) \in Int /\ Room(T, room, (m - 1) - 1) \in Int
      <4>1. /\ m - 1 \in 1 .. m - 1 /\ m - 1 \in 1 .. Len(s)
            /\ m - 1 \in 0 .. Len(s) /\ (m - 1) - 1 \in 0 .. Len(s)
        BY <1>1, <2>2
      <4> QED
        BY <4>1, RoomFacts
    <3>2. s[m - 1].remaining + LiOf(m - 1) < Room(T, room, (m - 1) - 1)
      BY <3>1 DEF StopsIn
    <3>3. Room(T, room, m - 1) = Room(T, room, (m - 1) - 1) - (s[m - 1].remaining + LiOf(m - 1))
      BY <3>1, RoomFacts
    <3> QED
      BY <1>1, <3>1, <3>2, <3>3
  <2> QED
    BY <1>1, <2>1, <2>2
<1>3. \A i \in 1 .. m : Room(T, room, i - 1) >= Room(T, room, m - 1)
  <2> DEFINE S == {k \in 0 .. m - 1 : Room(T, room, (m - k) - 1) >= Room(T, room, m - 1)}
  <2>1. 0 \in S
    BY <1>1, <1>2
  <2>2. ASSUME NEW k \in 0 .. (m - 1) - 1, k \in S PROVE k + 1 \in S
    <3> DEFINE j == (m - k) - 1
    <3>1. j \in 1 .. Len(s) /\ (m - (k + 1)) - 1 = j - 1 /\ k + 1 \in 0 .. m - 1
      BY <1>1
    <3>2. Room(T, room, j) = Room(T, room, j - 1) - (s[j].remaining + LiOf(j))
      BY <3>1, RoomFacts
    <3>3. Room(T, room, j) \in Int /\ Room(T, room, j - 1) \in Int
      BY <3>1, RoomFacts
    <3>4. Room(T, room, j) >= Room(T, room, m - 1)
      BY <2>2
    <3>5. s[j].remaining \in Nat /\ LiOf(j) \in {1, 2}
      BY <1>1, <3>1
    <3> HIDE DEF j
    <3>6. Room(T, room, j - 1) >= Room(T, room, m - 1)
      BY <3>2, <3>3, <3>4, <3>5, <1>2
    <3> QED
      BY <3>1, <3>6
  <2>3. m - 1 \in Nat
    BY <1>1
  <2> HIDE DEF S
  <2>4. \A k \in 0 .. m - 1 : k \in S
    BY <2>1, <2>2, <2>3, InductionUpTo
  <2> TAKE i \in 1 .. m
  <2>5. m - i \in S /\ (m - (m - i)) - 1 = i - 1
    BY <1>1, <2>4
  <2> QED
    BY <2>5 DEF S
<1>4. s[m].remaining + LiOf(m) >= Room(T, room, m - 1)
  BY DEF StopsIn
<1>5. /\ CutOf(s, T, room, m) \in 0 .. LiOf(m)
      /\ Room(T, room, m - 1) - CutOf(s, T, room, m) \in 1 .. s[m].remaining
  <2> DEFINE x == Room(T, room, m - 1)
             y == s[m].remaining
             z == LiOf(m)
  <2>1. x \in Nat \ {0} /\ y \in Nat \ {0} /\ z \in {1, 2} /\ y + z >= x
    BY <1>1, <1>2, <1>4
  <2>2. CutOf(s, T, room, m) = IF y >= x THEN 0 ELSE x - y
    BY DEF CutOf
  <2> HIDE DEF x, y, z
  <2>3. CutOf(s, T, room, m) \in 0 .. z /\ x - CutOf(s, T, room, m) \in 1 .. y
    BY <2>1, <2>2
  <2> QED
    BY <2>3 DEF x, y, z
<1> QED
  BY <1>1, <1>2, <1>3, <1>5

\* One iteration of the pass: the SDU fits with its length indicator, it is the last,
\* or the pass is over.
LEMMA CountGoes ==
  ASSUME NEW a \in Int, NEW x \in Int, NEW e, NEW l, NEW l2 \in {1, 2}, NextLi(l) = l2,
         NEW sdu, sdu.remaining \in Nat, sdu.remaining + l2 < x
  PROVE  Count([go |-> TRUE, num_li |-> a, room |-> x, cut |-> 0, extra |-> e, li |-> l], sdu)
         = [go |-> TRUE, num_li |-> a + 1, room |-> x - (sdu.remaining + l2), cut |-> 0,
            extra |-> l2, li |-> l2]
<1> DEFINE y == sdu.remaining
<1>1. ~(y >= x) /\ ~(y + l2 = x) /\ y + l2 < x
  OBVIOUS
<1> QED
  BY <1>1 DEF Count

LEMMA CountStops ==
  ASSUME NEW a \in Int, NEW x \in Nat \ {0}, NEW e, NEW l, NEW l2 \in {1, 2}, NextLi(l) = l2,
         NEW sdu, sdu.remaining \in Nat, sdu.remaining + l2 >= x
  PROVE  Count([go |-> TRUE, num_li |-> a, room |-> x, cut |-> 0, extra |-> e, li |-> l], sdu)
         = [go |-> FALSE, num_li |-> a, room |-> x,
            cut |-> IF sdu.remaining >= x THEN 0 ELSE x - sdu.remaining,
            extra |-> 0, li |-> l]
<1> DEFINE y == sdu.remaining
           c == IF y >= x THEN 0 ELSE x - y
<1>1. CASE y >= x
  BY <1>1 DEF Count
<1>2. CASE ~(y >= x) /\ y + l2 = x
  <2>1. x - y = l2
    BY <1>2
  <2> QED
    BY <1>2, <2>1 DEF Count
<1>3. CASE ~(y >= x) /\ y + l2 # x
  <2>1. x - y = 1 /\ ~(y + l2 < x)
    BY <1>3
  <2> QED
    BY <1>3, <2>1 DEF Count
<1> QED
  BY <1>1, <1>2, <1>3

\* The whole pass.
LEMMA CountedIs ==
  ASSUME NEW s, s \in Seq(Sdu), NEW T, Totals(T, s), NEW room \in Int, room >= 1,
         NEW m, StopsIn(s, T, room, m)
  PROVE  FoldLeft(Count, [go |-> TRUE, num_li |-> 0, room |-> room, cut |-> 0, extra |-> 0,
                          li |-> 1], s)
         = CountEnd(T, room, m, CutOf(s, T, room, m))
<1> DEFINE start == [go |-> TRUE, num_li |-> 0, room |-> room, cut |-> 0, extra |-> 0,
                     li |-> 1]
           N     == Len(s)
           cut   == CutOf(s, T, room, m)
<1>1. /\ N \in Nat /\ DOMAIN s = 1 .. N /\ m \in 1 .. N
      /\ \A i \in 1 .. N : s[i].remaining \in Nat \ {0}
  BY SduSeq DEF StopsIn
<1>2. PICK C : FoldTrace(C, Count, start, s, N)
  BY <1>1, FoldLeftTrace
<1>3. /\ C[0] = start /\ \A i \in 1 .. N : C[i] = Count(C[i - 1], s[i])
      /\ FoldLeft(Count, start, s) = C[N]
  BY <1>2 DEF FoldTrace
<1> DEFINE S == {i \in 0 .. m - 1 : C[i] = CountGo(T, room, i)}
<1>4. 0 \in S
  <2>1. LiOf(0) = 1 /\ Room(T, room, 0) = room
    BY LiFacts DEF Totals, Room
  <2>2. CountGo(T, room, 0) = start
    BY <2>1 DEF CountGo
  <2>3. 0 \in 0 .. m - 1
    BY <1>1
  <2> QED
    BY <2>2, <2>3, <1>3
<1>5. ASSUME NEW n \in 0 .. (m - 1) - 1, n \in S PROVE n + 1 \in S
  <2> DEFINE i == n + 1
  <2>1. i \in 1 .. N /\ i \in 1 .. m - 1 /\ i - 1 = n /\ i # 0
    BY <1>1
  <2>2. NextLi(LiOf(n)) = LiOf(i) /\ LiOf(i) \in {1, 2}
    BY LiFacts
  <2>3. s[i].remaining + LiOf(i) < Room(T, room, n) /\ s[i].remaining \in Nat
    BY <1>1, <2>1 DEF StopsIn
  <2>4. Room(T, room, n) \in Int /\ Room(T, room, i) = Room(T, room, n) - (s[i].remaining + LiOf(i))
    <3>1. n \in 0 .. Len(s) /\ i \in 1 .. Len(s)
      BY <1>1, <2>1
    <3> HIDE DEF i
    <3>2. Room(T, room, n) \in Int
      BY <3>1, RoomFacts
    <3>3. Room(T, room, i) = Room(T, room, i - 1) - (s[i].remaining + LiOf(i))
      BY <3>1, RoomFacts
    <3> QED
      BY <2>1, <3>2, <3>3
  <2>5. C[i] = Count(CountGo(T, room, n), s[i])
    BY <1>3, <1>5, <2>1
  <2> HIDE DEF i
  <2>6. Count(CountGo(T, room, n), s[i])
        = [go |-> TRUE, num_li |-> n + 1, room |-> Room(T, room, n) - (s[i].remaining + LiOf(i)),
           cut |-> 0, extra |-> LiOf(i), li |-> LiOf(i)]
    <3> DEFINE e == IF n = 0 THEN 0 ELSE LiOf(n)
               x == Room(T, room, n)
               l == LiOf(n)
    <3>1. CountGo(T, room, n) =
            [go |-> TRUE, num_li |-> n, room |-> x, cut |-> 0, extra |-> e, li |-> l]
      BY DEF CountGo
    <3>2. n \in Int /\ x \in Int /\ NextLi(l) = LiOf(i) /\ s[i].remaining + LiOf(i) < x
      BY <2>2, <2>3, <2>4
    <3> HIDE DEF e, x, l
    <3>3. Count([go |-> TRUE, num_li |-> n, room |-> x, cut |-> 0, extra |-> e, li |-> l], s[i])
          = [go |-> TRUE, num_li |-> n + 1, room |-> x - (s[i].remaining + LiOf(i)), cut |-> 0,
             extra |-> LiOf(i), li |-> LiOf(i)]
      BY <2>2, <2>3, <3>2, CountGoes
    <3> QED
      BY <3>1, <3>3 DEF x
  <2>7. C[i] = CountGo(T, room, i)
    BY <2>1, <2>4, <2>5, <2>6 DEF CountGo, i
  <2> QED
    BY <2>1, <2>7 DEF i
<1> HIDE DEF S
<1>6. \A i \in 0 .. m - 1 : i \in S
  <2>1. m - 1 \in Nat
    BY <1>1
  <2> QED
    BY <2>1, <1>4, <1>5, InductionUpTo
<1>7. C[m] = CountEnd(T, room, m, cut)
  <2>1. m - 1 \in 0 .. m - 1 /\ m - 1 \in 0 .. N /\ (m - 1) + 1 = m /\ m - 1 \in Nat
    BY <1>1
  <2>2. NextLi(LiOf(m - 1)) = LiOf(m) /\ LiOf(m) \in {1, 2}
    <3>1. m \in Nat \ {0}
      BY <1>1
    <3> QED
      BY <3>1, LiBefore
  <2>3. s[m].remaining + LiOf(m) >= Room(T, room, m - 1) /\ s[m].remaining \in Nat
    BY <1>1 DEF StopsIn
  <2>4. Room(T, room, m - 1) \in Nat \ {0}
    BY StopFacts
  <2>5. C[m] = Count(CountGo(T, room, m - 1), s[m])
    BY <1>1, <1>3, <1>6, <2>1 DEF S
  <2>6. Count(CountGo(T, room, m - 1), s[m])
        = [go |-> FALSE, num_li |-> m - 1, room |-> Room(T, room, m - 1),
           cut |-> IF s[m].remaining >= Room(T, room, m - 1) THEN 0
                   ELSE Room(T, room, m - 1) - s[m].remaining,
           extra |-> 0, li |-> LiOf(m - 1)]
    BY <2>1, <2>2, <2>3, <2>4, CountStops DEF CountGo
  <2> QED
    BY <2>5, <2>6 DEF CountEnd, CutOf
<1> DEFINE E == {k \in 0 .. N - m : C[m + k] = CountEnd(T, room, m, cut)}
<1>8. 0 \in E
  BY <1>1, <1>7
<1>9. ASSUME NEW k \in 0 .. (N - m) - 1, k \in E PROVE k + 1 \in E
  <2>1. m + (k + 1) \in 1 .. N /\ (m + (k + 1)) - 1 = m + k /\ k + 1 \in 0 .. N - m
    BY <1>1
  <2>2. C[m + (k + 1)] = Count(CountEnd(T, room, m, cut), s[m + (k + 1)])
    BY <1>3, <1>9, <2>1
  <2>3. \A sdu : Count(CountEnd(T, room, m, cut), sdu) = CountEnd(T, room, m, cut)
    BY DEF Count, CountEnd
  <2> QED
    BY <2>1, <2>2, <2>3
<1> HIDE DEF E
<1>10. \A k \in 0 .. N - m : k \in E
  <2>1. N - m \in Nat
    BY <1>1
  <2> QED
    BY <2>1, <1>8, <1>9, InductionUpTo
<1>11. N - m \in E /\ m + (N - m) = N
  BY <1>1, <1>10
<1> QED
  BY <1>3, <1>11 DEF E
-----------------------------------------------------------------------------
(* The pass that fills the PDU.                                             *)

\* An element is added to a sequence of n.
LEMMA AppendSdu ==
  ASSUME NEW n \in Nat, NEW q, q = [j \in 1 .. n |-> q[j]], NEW x
  PROVE  Append(q, x) = [j \in 1 .. n + 1 |-> IF j = n + 1 THEN x ELSE q[j]]
<1> DEFINE V == {q[j] : j \in 1 .. n} \cup {x}
<1>1. q \in Seq(V) /\ x \in V
  OBVIOUS
<1>2. Len(q) = n
  BY <1>1
<1> HIDE DEF V
<1>3. Append(q, x) \in Seq(V) /\ Len(Append(q, x)) = n + 1
  BY <1>1, <1>2
<1>4. \A j \in 1 .. n + 1 : Append(q, x)[j] = IF j = n + 1 THEN x ELSE q[j]
  BY <1>1, <1>2
<1> QED
  BY <1>3, <1>4

\* The data fields that are followed by a length indicator.
Prefix(s, i) == [j \in 1 .. i |-> s[j].remaining]

\* The SDUs of the first i that stay when the last f bytes are taken of SDU m.
Kept(s, m, f) == IF s[m].remaining > f THEN 1 ELSE 0
Left(s, m, f, i) ==
  [j \in 1 .. (i - m) + Kept(s, m, f) |->
     IF j = Kept(s, m, f) THEN [s[m] EXCEPT !.remaining = @ - f] ELSE s[(m + j) - Kept(s, m, f)]]

Filling(x, l, p) ==
  [go |-> TRUE, room |-> x, li |-> l, lis |-> p, rest |-> 0, left |-> <<>>, last |-> FALSE,
   asserted |-> FALSE]
FilledUp(x, l, p, sdu) ==
  [go |-> FALSE, room |-> 0, li |-> l, lis |-> p, rest |-> x,
   left |-> IF sdu.remaining > x THEN Append(<<>>, [sdu EXCEPT !.remaining = @ - x]) ELSE <<>>,
   last |-> sdu.remaining = x, asserted |-> FALSE]
FillGo(s, T, room, i) == Filling(Room(T, room, i), LiOf(i), Prefix(s, i))
FillEnd(s, m, f, i) ==
  [go |-> FALSE, room |-> 0, li |-> LiOf(m - 1), lis |-> Prefix(s, m - 1), rest |-> f,
   left |-> Left(s, m, f, i), last |-> s[m].remaining = f, asserted |-> FALSE]

LEMMA PrefixNext ==
  ASSUME NEW s, NEW n \in Nat
  PROVE  Append(Prefix(s, n), s[n + 1].remaining) = Prefix(s, n + 1)
<1> DEFINE q == Prefix(s, n)
<1>1. q = [j \in 1 .. n |-> s[j].remaining]
  BY DEF Prefix
<1>2. q = [j \in 1 .. n |-> q[j]]
  BY <1>1
<1> HIDE DEF q
<1>3. Append(q, s[n + 1].remaining) =
        [j \in 1 .. n + 1 |-> IF j = n + 1 THEN s[n + 1].remaining ELSE q[j]]
  BY <1>2, AppendSdu
<1>4. \A j \in 1 .. n + 1 :
        (IF j = n + 1 THEN s[n + 1].remaining ELSE q[j]) = s[j].remaining
  BY <1>1
<1>5. Append(q, s[n + 1].remaining) = [j \in 1 .. n + 1 |-> s[j].remaining]
  BY <1>3, <1>4
<1> QED
  BY <1>5 DEF Prefix, q

LEMMA LeftNext ==
  ASSUME NEW s, NEW m \in Nat \ {0}, NEW f \in Int, s[m].remaining \in Int, NEW i \in Nat, i >= m
  PROVE  Append(Left(s, m, f, i), s[i + 1]) = Left(s, m, f, i + 1)
<1> DEFINE e == Kept(s, m, f)
           p == [s[m] EXCEPT !.remaining = @ - f]
           q == Left(s, m, f, i)
           n == (i - m) + e
<1>1. e \in {0, 1} /\ n \in Nat /\ ((i + 1) - m) + e = n + 1 /\ (m + (n + 1)) - e = i + 1
  BY DEF Kept
<1>2. /\ q = [j \in 1 .. n |-> IF j = e THEN p ELSE s[(m + j) - e]]
      /\ Left(s, m, f, i + 1) =
           [j \in 1 .. ((i + 1) - m) + e |-> IF j = e THEN p ELSE s[(m + j) - e]]
  BY DEF Left
<1> HIDE DEF e, p, q, n
<1>3. q = [j \in 1 .. n |-> q[j]]
  BY <1>2
<1>4. Append(q, s[i + 1]) = [j \in 1 .. n + 1 |-> IF j = n + 1 THEN s[i + 1] ELSE q[j]]
  BY <1>1, <1>3, AppendSdu
<1>5. n + 1 # e
  BY <1>1 DEF n
<1>6. \A j \in 1 .. n + 1 : (IF j = n + 1 THEN s[i + 1] ELSE q[j])
                            = IF j = e THEN p ELSE s[(m + j) - e]
  <2> TAKE j \in 1 .. n + 1
  <2>1. CASE j = n + 1
    BY <1>1, <1>5, <2>1
  <2>2. CASE j # n + 1
    <3>1. j \in 1 .. n
      BY <1>1, <2>2
    <3> QED
      BY <1>2, <2>2, <3>1
  <2> QED
    BY <2>1, <2>2
<1>7. Append(q, s[i + 1]) = Left(s, m, f, i + 1)
  <2>1. Left(s, m, f, i + 1) = [j \in 1 .. n + 1 |-> IF j = e THEN p ELSE s[(m + j) - e]]
    BY <1>1, <1>2
  <2> QED
    BY <2>1, <1>4, <1>6, Zenon
<1> QED
  BY <1>7 DEF q

\* One iteration of the pass: the SDU goes in whole and another follows, it is the last
\* and goes in whole or in part, or the pass is over.
LEMMA FillGoes ==
  ASSUME NEW x \in Int, NEW l, NEW l2 \in {1, 2}, NextLi(l) = l2, NEW p,
         NEW sdu, sdu.remaining \in Nat, sdu.remaining + l2 < x
  PROVE  Fill(Filling(x, l, p), sdu)
         = Filling(x - (sdu.remaining + l2), l2, Append(p, sdu.remaining))
<1> DEFINE y == sdu.remaining
<1>1. ~(y > x) /\ ~(y = x) /\ y + l2 < x
  OBVIOUS
<1> QED
  BY <1>1 DEF Fill, Filling

LEMMA FillStops ==
  ASSUME NEW x \in Int, NEW l, NEW p, NEW sdu, sdu.remaining \in Nat, sdu.remaining >= x
  PROVE  Fill(Filling(x, l, p), sdu) = FilledUp(x, l, p, sdu)
<1> DEFINE y == sdu.remaining
<1>1. CASE y > x
  <2>1. (y = x) = FALSE
    BY <1>1
  <2> QED
    BY <1>1, <2>1 DEF Fill, Filling, FilledUp
<1>2. CASE y = x
  <2>1. ~(y > x) /\ (y = x) = TRUE
    BY <1>2
  <2> QED
    BY <1>2, <2>1 DEF Fill, Filling, FilledUp
<1> QED
  BY <1>1, <1>2

LEMMA FillEnds ==
  ASSUME NEW s, NEW m \in Nat \ {0}, NEW f \in Int, s[m].remaining \in Int, NEW i \in Nat, i >= m
  PROVE  Fill(FillEnd(s, m, f, i), s[i + 1]) = FillEnd(s, m, f, i + 1)
<1> DEFINE q == Left(s, m, f, i)
           l == LiOf(m - 1)
           p == Prefix(s, m - 1)
           b == s[m].remaining = f
           x == s[i + 1]
<1>1. FillEnd(s, m, f, i) = [go |-> FALSE, room |-> 0, li |-> l, lis |-> p, rest |-> f,
                             left |-> q, last |-> b, asserted |-> FALSE]
  BY DEF FillEnd
<1>2. FillEnd(s, m, f, i + 1) = [go |-> FALSE, room |-> 0, li |-> l, lis |-> p, rest |-> f,
                                 left |-> Append(q, x), last |-> b, asserted |-> FALSE]
  BY LeftNext DEF FillEnd
<1> HIDE DEF q, l, p, b, x
<1>3. Fill([go |-> FALSE, room |-> 0, li |-> l, lis |-> p, rest |-> f, left |-> q,
            last |-> b, asserted |-> FALSE], x)
      = [go |-> FALSE, room |-> 0, li |-> l, lis |-> p, rest |-> f,
         left |-> Append(q, x), last |-> b, asserted |-> FALSE]
  BY DEF Fill
<1> QED
  BY <1>1, <1>2, <1>3 DEF x

\* The whole pass.
LEMMA FilledIs ==
  ASSUME NEW s, s \in Seq(Sdu), NEW T, Totals(T, s), NEW room \in Int, NEW m \in 1 .. Len(s),
         \A i \in 1 .. m - 1 : s[i].remaining + LiOf(i) < Room(T, room, i - 1),
         Room(T, room, m - 1) \in 1 .. s[m].remaining
  PROVE  FoldLeft(Fill, [go |-> TRUE, room |-> room, li |-> 1, lis |-> <<>>, rest |-> 0,
                         left |-> <<>>, last |-> FALSE, asserted |-> FALSE], s)
         = FillEnd(s, m, Room(T, room, m - 1), Len(s))
<1> DEFINE start == [go |-> TRUE, room |-> room, li |-> 1, lis |-> <<>>, rest |-> 0,
                     left |-> <<>>, last |-> FALSE, asserted |-> FALSE]
           N     == Len(s)
           f     == Room(T, room, m - 1)
<1>1. /\ N \in Nat /\ DOMAIN s = 1 .. N /\ m \in 1 .. N
      /\ \A i \in 1 .. N : s[i].remaining \in Nat \ {0}
  BY SduSeq
<1>2. PICK C : FoldTrace(C, Fill, start, s, N)
  BY <1>1, FoldLeftTrace
<1>3. /\ C[0] = start /\ \A i \in 1 .. N : C[i] = Fill(C[i - 1], s[i])
      /\ FoldLeft(Fill, start, s) = C[N]
  BY <1>2 DEF FoldTrace
<1> DEFINE S == {i \in 0 .. m - 1 : C[i] = FillGo(s, T, room, i)}
<1>4. 0 \in S
  <2>1. LiOf(0) = 1 /\ Room(T, room, 0) = room /\ Prefix(s, 0) = <<>>
    BY LiFacts DEF Totals, Room, Prefix
  <2>2. FillGo(s, T, room, 0) = start
    BY <2>1 DEF FillGo, Filling
  <2>3. 0 \in 0 .. m - 1
    BY <1>1
  <2> QED
    BY <2>2, <2>3, <1>3
<1>5. ASSUME NEW n \in 0 .. (m - 1) - 1, n \in S PROVE n + 1 \in S
  <2> DEFINE i == n + 1
             x == Room(T, room, n)
             l == LiOf(n)
             p == Prefix(s, n)
  <2>1. i \in 1 .. N /\ i \in 1 .. m - 1 /\ i - 1 = n /\ n \in Nat /\ n \in 0 .. Len(s)
    BY <1>1
  <2>2. NextLi(l) = LiOf(i) /\ LiOf(i) \in {1, 2}
    <3>1. i \in Nat \ {0}
      BY <2>1
    <3> QED
      BY <2>1, <3>1, LiBefore
  <2>3. s[i].remaining + LiOf(i) < x /\ s[i].remaining \in Nat
    BY <1>1, <2>1
  <2>4. Append(p, s[i].remaining) = Prefix(s, i)
    BY <2>1, PrefixNext
  <2> HIDE DEF i
  <2>5. x \in Int /\ Room(T, room, i) = x - (s[i].remaining + LiOf(i))
    <3>1. x \in Int
      BY <2>1, RoomFacts
    <3>2. Room(T, room, i) = Room(T, room, i - 1) - (s[i].remaining + LiOf(i))
      BY <2>1, RoomFacts
    <3> QED
      BY <2>1, <3>1, <3>2
  <2>6. C[i] = Fill(FillGo(s, T, room, n), s[i])
    BY <1>3, <1>5, <2>1
  <2>7. FillGo(s, T, room, n) = Filling(x, l, p)
    BY DEF FillGo
  <2> HIDE DEF x, l, p
  <2>8. Fill(Filling(x, l, p), s[i])
        = Filling(x - (s[i].remaining + LiOf(i)), LiOf(i), Append(p, s[i].remaining))
    <3> DEFINE d  == s[i]
               l2 == LiOf(i)
    <3>1. x \in Int /\ l2 \in {1, 2} /\ NextLi(l) = l2
      BY <2>2, <2>5
    <3>2. d.remaining \in Nat /\ d.remaining + l2 < x
      BY <2>3
    <3> HIDE DEF d, l2
    <3>3. Fill(Filling(x, l, p), d) = Filling(x - (d.remaining + l2), l2, Append(p, d.remaining))
      BY <3>1, <3>2, FillGoes
    <3> QED
      BY <3>3 DEF d, l2
  <2>9. C[i] = FillGo(s, T, room, i)
    BY <2>4, <2>5, <2>6, <2>7, <2>8 DEF FillGo
  <2>10. i \in 0 .. m - 1
    BY <2>1, <1>1
  <2> QED
    BY <2>9, <2>10 DEF i
<1> HIDE DEF S
<1>6. \A i \in 0 .. m - 1 : i \in S
  <2>1. m - 1 \in Nat
    BY <1>1
  <2> QED
    BY <2>1, <1>4, <1>5, InductionUpTo
<1>7. C[m] = FillEnd(s, m, f, m)
  <2> DEFINE l == LiOf(m - 1)
             p == Prefix(s, m - 1)
             q == [s[m] EXCEPT !.remaining = @ - f]
  <2>1. m - 1 \in 0 .. m - 1 /\ s[m].remaining \in Nat /\ f \in Int /\ s[m].remaining >= f
    BY <1>1
  <2>2. C[m] = Fill(FillGo(s, T, room, m - 1), s[m])
    BY <1>1, <1>3, <1>6, <2>1 DEF S
  <2>3. FillGo(s, T, room, m - 1) = Filling(f, l, p)
    BY DEF FillGo
  <2>4. Left(s, m, f, m) = IF s[m].remaining > f THEN Append(<<>>, q) ELSE <<>>
    <3>1. Append(<<>>, q) = <<q>>
      OBVIOUS
    <3>2. CASE s[m].remaining > f
      <4>1. Kept(s, m, f) = 1 /\ 1 .. (m - m) + 1 = {1}
        BY <1>1, <3>2 DEF Kept
      <4>2. Left(s, m, f, m) = [j \in {1} |-> IF j = 1 THEN q ELSE s[(m + j) - 1]]
        BY <4>1 DEF Left
      <4> QED
        BY <3>1, <3>2, <4>2
    <3>3. CASE ~(s[m].remaining > f)
      <4>1. Kept(s, m, f) = 0 /\ 1 .. (m - m) + 0 = {}
        BY <1>1, <3>3 DEF Kept
      <4> QED
        BY <3>3, <4>1 DEF Left
    <3> QED
      BY <3>2, <3>3
  <2> HIDE DEF f, l, p
  <2>5. Fill(Filling(f, l, p), s[m]) = FilledUp(f, l, p, s[m])
    BY <2>1, FillStops
  <2>6. FilledUp(f, l, p, s[m]) = FillEnd(s, m, f, m)
    BY <2>4 DEF FillEnd, FilledUp, l, p
  <2> QED
    BY <2>2, <2>3, <2>5, <2>6
<1> DEFINE E == {k \in 0 .. N - m : C[m + k] = FillEnd(s, m, f, m + k)}
<1>8. 0 \in E
  BY <1>1, <1>7
<1>9. ASSUME NEW k \in 0 .. (N - m) - 1, k \in E PROVE k + 1 \in E
  <2> DEFINE i == m + k
  <2>1. /\ i + 1 \in 1 .. N /\ (i + 1) - 1 = i /\ k + 1 \in 0 .. N - m /\ m + (k + 1) = i + 1
        /\ i \in Nat /\ i >= m /\ m \in Nat \ {0}
    BY <1>1
  <2>2. C[i + 1] = Fill(FillEnd(s, m, f, i), s[i + 1])
    BY <1>3, <1>9, <2>1
  <2>3. f \in Int /\ s[m].remaining \in Int
    BY <1>1
  <2> HIDE DEF i, f
  <2>4. C[i + 1] = FillEnd(s, m, f, i + 1)
    BY <2>1, <2>2, <2>3, FillEnds
  <2> QED
    BY <2>1, <2>4
<1> HIDE DEF E
<1>10. \A k \in 0 .. N - m : k \in E
  <2>1. N - m \in Nat
    BY <1>1
  <2> QED
    BY <2>1, <1>8, <1>9, InductionUpTo
<1>11. N - m \in E /\ m + (N - m) = N
  BY <1>1, <1>10
<1> QED
  BY <1>3, <1>11 DEF E
-----------------------------------------------------------------------------
(* What the PDU takes and what stays.                                       *)

LEMMA PrefixTotal ==
  ASSUME NEW s, s \in Seq(Sdu), NEW T, Totals(T, s), NEW n \in 0 .. Len(s)
  PROVE  /\ FoldLeft(+, 0, Prefix(s, n)) = T[n]
         /\ Len(Prefix(s, n)) = n
<1> DEFINE p == Prefix(s, n)
<1>1. Len(s) \in Nat /\ n \in Nat /\ n <= Len(s)
  BY SduSeq
<1>2. DOMAIN p = 1 .. n /\ \A i \in 1 .. n : p[i] = s[i].remaining
  BY DEF Prefix
<1>3. Len(p) = n
  <2>1. p = [j \in 1 .. n |-> s[j].remaining]
    BY DEF Prefix
  <2> QED
    BY <1>1, <2>1
<1> HIDE DEF p
<1>4. PICK C : FoldTrace(C, +, 0, p, n)
  BY <1>1, <1>2, FoldLeftTrace
<1>5. /\ C[0] = 0 /\ \A i \in 1 .. n : C[i] = C[i - 1] + p[i]
      /\ FoldLeft(+, 0, p) = C[n]
  BY <1>4 DEF FoldTrace
<1> DEFINE S == {i \in 0 .. n : C[i] = T[i]}
<1>6. 0 \in S
  <2>1. T[0] = 0 /\ 0 \in 0 .. n
    BY <1>1 DEF Totals
  <2> QED
    BY <2>1, <1>5
<1>7. ASSUME NEW i \in 0 .. n - 1, i \in S PROVE i + 1 \in S
  <2>1. i + 1 \in 1 .. n /\ i + 1 \in 1 .. Len(s) /\ (i + 1) - 1 = i
    BY <1>1
  <2>2. C[i + 1] = C[i] + s[i + 1].remaining /\ T[i + 1] = T[i] + s[i + 1].remaining
    BY <2>1, <1>2, <1>5 DEF Totals
  <2> QED
    BY <2>1, <2>2, <1>7
<1> HIDE DEF S
<1>8. \A i \in 0 .. n : i \in S
  BY <1>1, <1>6, <1>7, InductionUpTo
<1>9. C[n] = T[n]
  BY <1>1, <1>8 DEF S
<1> QED
  BY <1>3, <1>5, <1>9 DEF p

Sound(s) == \A i \in DOMAIN s : s[i].remaining \in 1 .. s[i].size

\* The SDU of which a part is taken.
LEMMA PartTaken ==
  ASSUME NEW d, d \in Sdu, NEW f \in Nat, d.remaining > f
  PROVE  LET p == [d EXCEPT !.remaining = @ - f]
         IN  p \in Sdu /\ p.remaining = d.remaining - f /\ p.size = d.size
BY DEF Sdu

LEMMA LeftFacts ==
  ASSUME NEW s, s \in Seq(Sdu), Sound(s), NEW T, Totals(T, s), NEW m \in 1 .. Len(s),
         NEW f \in 1 .. s[m].remaining
  PROVE  /\ Left(s, m, f, Len(s)) \in Seq(Sdu) /\ Sound(Left(s, m, f, Len(s)))
         /\ TotalRemaining(Left(s, m, f, Len(s))) = TotalRemaining(s) - (T[m - 1] + f)
<1> DEFINE N == Len(s)
           e == Kept(s, m, f)
           n == (N - m) + e
           q == Left(s, m, f, N)
           p == [s[m] EXCEPT !.remaining = @ - f]
<1>1. /\ N \in Nat /\ DOMAIN s = 1 .. N /\ m \in 1 .. N /\ \A i \in 1 .. N : s[i] \in Sdu
      /\ \A i \in 1 .. N : s[i].remaining \in Nat \ {0} /\ s[i].remaining \in 1 .. s[i].size
  BY SduSeq DEF Sound
<1>2. f \in Nat \ {0} /\ f <= s[m].remaining
  BY <1>1
<1>3. e = (IF s[m].remaining > f THEN 1 ELSE 0) /\ n \in Nat
  BY <1>1, <1>2 DEF Kept
<1>4. q = [j \in 1 .. n |-> IF j = e THEN p ELSE s[(m + j) - e]]
  BY DEF Left
<1>5. e = 1 => p \in Sdu /\ p.remaining = s[m].remaining - f /\ p.size = s[m].size
  BY <1>1, <1>2, <1>3, PartTaken
<1> HIDE DEF e, n, p, q
<1>6. \A j \in 1 .. n : /\ q[j] \in Sdu /\ q[j].remaining \in 1 .. q[j].size
                        /\ q[j].remaining = IF j = e THEN s[m].remaining - f
                                            ELSE s[(m + j) - e].remaining
  <2> TAKE j \in 1 .. n
  <2>1. CASE j = e
    <3>1. e = 1 /\ s[m].remaining > f
      BY <1>3, <2>1
    <3>2. s[m].remaining - f \in 1 .. s[m].size
      <4>1. s[m].remaining \in Nat /\ s[m].remaining \in 1 .. s[m].size /\ s[m].size \in Nat
        BY <1>1 DEF Sdu
      <4>2. \A a, b, c \in Nat : a \in 1 .. b /\ a > c => a - c \in 1 .. b
        OBVIOUS
      <4> QED
        BY <3>1, <4>1, <4>2, <1>2
    <3> QED
      BY <3>1, <3>2, <2>1, <1>4, <1>5
  <2>2. CASE j # e
    <3>1. (m + j) - e \in 1 .. N
      BY <2>2, <1>1, <1>3 DEF n
    <3>2. q[j] = s[(m + j) - e]
      BY <2>2, <1>4
    <3> QED
      BY <2>2, <3>1, <3>2, <1>1
  <2> QED
    BY <2>1, <2>2
<1>7. q \in Seq(Sdu) /\ Len(q) = n /\ DOMAIN q = 1 .. n
  <2>1. q \in [1 .. n -> Sdu]
    BY <1>4, <1>6
  <2> QED
    BY <1>3, <2>1
<1>8. Sound(q)
  BY <1>6, <1>7 DEF Sound
<1>9. PICK U : Totals(U, q)
  BY <1>7, TotalsExist
<1>10. /\ U[0] = 0 /\ TotalRemaining(q) = U[n] /\ \A j \in 0 .. n : U[j] \in Nat
       /\ \A j \in 1 .. n : U[j] = U[j - 1] + q[j].remaining
  BY <1>7, <1>9 DEF Totals
<1>11. /\ \A j \in 0 .. N : T[j] \in Nat
       /\ \A j \in 1 .. N : T[j] = T[j - 1] + s[j].remaining
       /\ TotalRemaining(s) = T[N]
  BY DEF Totals
<1>12. T[m] = T[m - 1] + s[m].remaining /\ T[m - 1] \in Nat /\ T[m] \in Nat
  BY <1>1, <1>11
<1> DEFINE S == {j \in 0 .. n : j >= e => U[j] = T[(m + j) - e] - (T[m - 1] + f)}
<1>13. 0 \in S
  <2>1. CASE e = 0
    <3>1. f = s[m].remaining /\ (m + 0) - e = m
      BY <2>1, <1>1, <1>2, <1>3
    <3> QED
      BY <2>1, <3>1, <1>2, <1>3, <1>10, <1>12
  <2>2. CASE e = 1
    BY <2>2, <1>3
  <2> QED
    BY <2>1, <2>2, <1>3
<1>14. ASSUME NEW j \in 0 .. n - 1, j \in S PROVE j + 1 \in S
  <2>1. j + 1 \in 1 .. n /\ (j + 1) - 1 = j
    BY <1>3
  <2>2. U[j + 1] = U[j] + q[j + 1].remaining /\ U[j] \in Nat
    BY <2>1, <1>3, <1>10
  <2>3. CASE j + 1 = e
    <3>1. e = 1 /\ j = 0 /\ (m + (j + 1)) - e = m
      BY <2>3, <1>1, <1>3
    <3>2. q[j + 1].remaining = s[m].remaining - f
      BY <2>1, <2>3, <1>6
    <3>3. U[j + 1] = T[m] - (T[m - 1] + f)
      BY <2>2, <3>1, <3>2, <1>1, <1>2, <1>10, <1>12
    <3> QED
      BY <2>1, <3>1, <3>3
  <2>4. CASE j + 1 # e
    <3> DEFINE k == (m + (j + 1)) - e
    <3>1. j >= e \/ j + 1 < e
      BY <2>4, <1>3
    <3>2. j >= e
      BY <3>1, <1>3
    <3>3. k \in 1 .. N /\ k - 1 = (m + j) - e
      BY <1>1, <1>3, <3>2, <2>1 DEF n
    <3>4. q[j + 1].remaining = s[k].remaining /\ s[k].remaining \in Nat
      BY <2>1, <2>4, <3>3, <1>1, <1>6
    <3>5. U[j] = T[k - 1] - (T[m - 1] + f)
      BY <1>14, <3>2, <3>3
    <3>6. T[k] = T[k - 1] + s[k].remaining /\ T[k - 1] \in Nat
      BY <1>1, <3>3, <1>11
    <3> HIDE DEF k
    <3>7. U[j + 1] = T[k] - (T[m - 1] + f)
      <4>1. \A a, b, c, d \in Nat : (a - (c + d)) + b = (a + b) - (c + d)
        OBVIOUS
      <4>2. U[j + 1] = (T[k - 1] - (T[m - 1] + f)) + s[k].remaining
        BY <2>2, <3>4, <3>5
      <4> QED
        BY <4>1, <4>2, <3>4, <3>6, <1>2, <1>12
    <3> QED
      BY <2>1, <3>7 DEF k
  <2> QED
    BY <2>3, <2>4
<1> HIDE DEF S
<1>15. \A j \in 0 .. n : j \in S
  BY <1>3, <1>13, <1>14, InductionUpTo
<1>16. n >= e /\ (m + n) - e = N /\ n \in 0 .. n
  BY <1>1, <1>3 DEF n
<1>17. U[n] = T[N] - (T[m - 1] + f)
  BY <1>15, <1>16 DEF S
<1> QED
  BY <1>7, <1>8, <1>10, <1>11, <1>17 DEF q
LEMMA AppendTotal ==
  ASSUME NEW s, s \in Seq(Sdu), Sound(s), NEW n \in Nat \ {0}
  PROVE  LET q == Append(s, [size |-> n, remaining |-> n])
         IN  q \in Seq(Sdu) /\ Sound(q) /\ TotalRemaining(q) = TotalRemaining(s) + n
<1> DEFINE d == [size |-> n, remaining |-> n]
           q == Append(s, d)
           N == Len(s)
<1>1. d \in Sdu /\ d.remaining = n /\ d.size = n
  BY DEF Sdu
<1> HIDE DEF d
<1>2. /\ q \in Seq(Sdu) /\ Len(q) = N + 1 /\ N \in Nat /\ q[N + 1] = d
      /\ \A i \in 1 .. N : q[i] = s[i]
      /\ DOMAIN q = 1 .. N + 1 /\ DOMAIN s = 1 .. N
  BY <1>1
<1> HIDE DEF q
<1>3. Sound(q)
  <2> SUFFICES ASSUME NEW i \in 1 .. N + 1 PROVE q[i].remaining \in 1 .. q[i].size
    BY <1>2 DEF Sound
  <2>1. CASE i = N + 1
    BY <2>1, <1>1, <1>2
  <2>2. CASE i # N + 1
    <3>1. i \in 1 .. N
      BY <2>2, <1>2
    <3> QED
      BY <3>1, <1>2 DEF Sound
  <2> QED
    BY <2>1, <2>2
<1>4. PICK T : Totals(T, s)
  BY TotalsExist
<1>5. PICK U : Totals(U, q)
  BY <1>2, TotalsExist
<1>6. /\ T[0] = 0 /\ TotalRemaining(s) = T[N]
      /\ \A i \in 1 .. N : T[i] = T[i - 1] + s[i].remaining
  BY <1>4 DEF Totals
<1>7. /\ U[0] = 0 /\ TotalRemaining(q) = U[N + 1]
      /\ \A i \in 1 .. N + 1 : U[i] = U[i - 1] + q[i].remaining
  BY <1>2, <1>5 DEF Totals
<1> DEFINE S == {i \in 0 .. N : U[i] = T[i]}
<1>8. 0 \in S
  BY <1>2, <1>6, <1>7
<1>9. ASSUME NEW i \in 0 .. N - 1, i \in S PROVE i + 1 \in S
  <2>1. i + 1 \in 1 .. N /\ i + 1 \in 1 .. N + 1 /\ (i + 1) - 1 = i
    BY <1>2
  <2>2. U[i + 1] = U[i] + q[i + 1].remaining
    BY <2>1, <1>7
  <2>3. T[i + 1] = T[i] + s[i + 1].remaining
    BY <2>1, <1>6
  <2> QED
    BY <2>1, <2>2, <2>3, <1>2, <1>9
<1> HIDE DEF S
<1>10. \A i \in 0 .. N : i \in S
  BY <1>2, <1>8, <1>9, InductionUpTo
<1>11. U[N] = T[N]
  BY <1>2, <1>10 DEF S
<1>12. U[N + 1] = U[N] + n
  <2>1. N + 1 \in 1 .. N + 1 /\ (N + 1) - 1 = N
    BY <1>2
  <2>2. U[N + 1] = U[(N + 1) - 1] + q[N + 1].remaining
    BY <2>1, <1>7
  <2> QED
    BY <2>1, <2>2, <1>1, <1>2
<1> QED
  BY <1>2, <1>3, <1>6, <1>7, <1>11, <1>12 DEF q, d

\* How the two passes divide the bytes after the header: m - 1 whole SDUs, each with
\* its length indicator, f bytes of SDU m, and what the PDU is shortened by.
Layout(s, room, m, f, cut) ==
  LET counted == FoldLeft(Count, [go |-> TRUE, num_li |-> 0, room |-> room, cut |-> 0,
                                  extra |-> 0, li |-> 1], s)
      whole   == FoldLeft(+, 0, Prefix(s, m - 1))
      left    == Left(s, m, f, Len(s))
  IN  /\ counted.cut = cut /\ counted.extra = 0 /\ counted.num_li = m - 1
      /\ FoldLeft(Fill, [go |-> TRUE, room |-> room - cut, li |-> 1, lis |-> <<>>, rest |-> 0,
                         left |-> <<>>, last |-> FALSE, asserted |-> FALSE], s)
         = FillEnd(s, m, f, Len(s))
      /\ cut \in 0 .. 2 /\ f \in Nat \ {0} /\ whole \in Nat /\ LiBytes(m - 1) \in Nat
      /\ Len(Prefix(s, m - 1)) = m - 1 /\ m - 1 \in Nat
      /\ room = whole + LiBytes(m - 1) + f + cut
      /\ left \in Seq(Sdu) /\ Sound(left)
      /\ TotalRemaining(left) = TotalRemaining(s) - (whole + f)
      /\ room = TotalRemaining(s) + LiBytes(Len(s) - 1) => left = <<>>

LEMMA LiGrows ==
  ASSUME NEW a \in Nat, NEW b \in Nat, a <= b
  PROVE  LiBytes(a) <= LiBytes(b)
BY DEF LiBytes

\* Room for everything: the pass stops in the last SDU, of which nothing is left.
LEMMA NothingLeft ==
  ASSUME NEW s, s \in Seq(Sdu), NEW T, Totals(T, s), NEW m, NEW room \in Int,
         room = T[Len(s)] + LiBytes(Len(s) - 1), StopsIn(s, T, room, m)
  PROVE  /\ m = Len(s) /\ Room(T, room, m - 1) = s[m].remaining
         /\ \A f : f = s[m].remaining => Left(s, m, f, Len(s)) = <<>>
<1> DEFINE N == Len(s)
<1>1. /\ N \in Nat /\ m \in 1 .. N /\ N >= 1 /\ s[m].remaining \in Nat \ {0}
      /\ m - 1 \in Nat /\ N - 1 \in Nat /\ m - 1 \in 0 .. N /\ m \in 0 .. N /\ N \in 0 .. N
      /\ m \in Nat \ {0} /\ m \in Nat
  BY SduSeq DEF StopsIn
<1>2. /\ T[m - 1] \in Nat /\ T[m] = T[m - 1] + s[m].remaining /\ T[m] \in Nat /\ T[N] \in Nat
  BY <1>1 DEF Totals
<1>3. /\ LiBytes(m) = LiBytes(m - 1) + LiOf(m) /\ LiBytes(m - 1) \in Nat /\ LiOf(m) \in {1, 2}
      /\ LiBytes(N - 1) \in Nat
  BY <1>1, LiBefore, LiFacts
<1>4. s[m].remaining + LiOf(m) >= room - T[m - 1] - LiBytes(m - 1)
  BY DEF StopsIn, Room
<1>5. T[m] + LiBytes(m) >= T[N] + LiBytes(N - 1)
  <2>1. \A a, b, c, d, e, g \in Nat :
          b + d >= (e + g) - a - c => (a + b) + (c + d) >= e + g
    OBVIOUS
  <2>2. LiOf(m) \in Nat
    BY <1>3
  <2>3. s[m].remaining + LiOf(m) >= (T[N] + LiBytes(N - 1)) - T[m - 1] - LiBytes(m - 1)
    BY <1>4
  <2> QED
    BY <1>1, <1>2, <1>3, <2>1, <2>2, <2>3
<1>6. ~(m < N)
  <2> SUFFICES ASSUME m < N PROVE FALSE
    OBVIOUS
  <2>1. T[m] < T[N]
    <3>1. N \in m + 1 .. Len(s)
      BY <1>1
    <3> QED
      BY <1>1, <3>1, TotalsGrow
  <2>2. LiBytes(m) <= LiBytes(N - 1)
    <3>1. m <= N - 1
      BY <1>1
    <3> QED
      BY <1>1, <3>1, LiGrows
  <2>3. LiBytes(m) \in Nat
    BY <1>1, LiFacts
  <2> QED
    BY <1>2, <1>3, <1>5, <2>1, <2>2, <2>3
<1>7. m = N
  BY <1>1, <1>6
<1>8. Room(T, room, m - 1) = s[m].remaining
  <2>1. room - T[m - 1] - LiBytes(m - 1) = s[m].remaining
    BY <1>1, <1>2, <1>3, <1>7
  <2> QED
    BY <2>1 DEF Room
<1>9. ASSUME NEW f, f = s[m].remaining PROVE Left(s, m, f, N) = <<>>
  <2>1. Kept(s, m, f) = 0
    BY <1>1, <1>9 DEF Kept
  <2>2. (N - m) + Kept(s, m, f) = 0
    BY <1>1, <1>7, <2>1
  <2> QED
    BY <2>2 DEF Left
<1> QED
  BY <1>7, <1>8, <1>9

LEMMA LayoutExists ==
  ASSUME NEW s, s \in Seq(Sdu), s # <<>>, Sound(s), NEW room \in Int, room >= 1,
         room <= TotalRemaining(s) + LiBytes(Len(s) - 1)
  PROVE  \E m, f, cut : Layout(s, room, m, f, cut)
<1> DEFINE N == Len(s)
<1>1. PICK T : Totals(T, s)
  BY TotalsExist
<1>2. TotalRemaining(s) = T[N] /\ N \in Nat
  BY <1>1, SduSeq DEF Totals
<1>3. PICK m : StopsIn(s, T, room, m)
  BY <1>1, <1>2, StopExists
<1> DEFINE cut   == CutOf(s, T, room, m)
           x     == Room(T, room, m - 1)
           room2 == room - cut
           f     == x - cut
<1>4. /\ m \in 1 .. N /\ x \in Nat \ {0} /\ cut \in 0 .. LiOf(m) /\ f \in 1 .. s[m].remaining
      /\ \A i \in 1 .. m : Room(T, room, i - 1) >= x
  BY <1>1, <1>3, StopFacts
<1>5. m - 1 \in Nat /\ m - 1 \in 0 .. N /\ LiOf(m) \in {1, 2} /\ s[m].remaining \in Nat \ {0}
      /\ LiBytes(m - 1) \in Nat /\ \A i \in 1 .. N : s[i].remaining \in Nat \ {0} /\ LiOf(i) \in {1, 2}
  <2>1. m - 1 \in Nat /\ m - 1 \in 0 .. N /\ m \in 1 .. N
    BY <1>2, <1>4
  <2>2. \A i \in 1 .. N : s[i].remaining \in Nat \ {0} /\ LiOf(i) \in {1, 2}
    <3> TAKE i \in 1 .. N
    <3>1. i \in Nat
      BY <1>2
    <3> QED
      BY <3>1, SduSeq, LiFacts
  <2> QED
    BY <2>1, <2>2, LiFacts
<1>6. cut \in 0 .. 2 /\ f \in Nat \ {0} /\ cut \in Nat
  BY <1>4, <1>5
<1>7. FoldLeft(Count, [go |-> TRUE, num_li |-> 0, room |-> room, cut |-> 0, extra |-> 0,
                       li |-> 1], s) = CountEnd(T, room, m, cut)
  BY <1>1, <1>3, CountedIs
<1>8. \A i \in 0 .. N : /\ Room(T, room, i) \in Int
                        /\ Room(T, room2, i) = Room(T, room, i) - cut
  <2> TAKE i \in 0 .. N
  <2>1. T[i] \in Nat /\ LiBytes(i) \in Nat
    BY <1>1, <1>2, LiFacts DEF Totals
  <2>2. cut \in Nat
    BY <1>6
  <2> HIDE DEF cut
  <2> QED
    BY <2>1, <2>2 DEF Room
<1>9. \A i \in 1 .. m - 1 : s[i].remaining + LiOf(i) < Room(T, room2, i - 1)
  <2> TAKE i \in 1 .. m - 1
  <2>1. i \in 1 .. N /\ i - 1 \in 0 .. N /\ i + 1 \in 1 .. m /\ (i + 1) - 1 = i /\ i \in 0 .. N
    BY <1>2, <1>4
  <2>2. Room(T, room, i) = Room(T, room, i - 1) - (s[i].remaining + LiOf(i))
    BY <1>1, <2>1, RoomFacts
  <2>3. Room(T, room, i) >= x
    BY <1>4, <2>1
  <2>4. Room(T, room, i) \in Int /\ Room(T, room, i - 1) \in Int
        /\ Room(T, room2, i - 1) = Room(T, room, i - 1) - cut
    BY <1>8, <2>1
  <2>5. s[i].remaining \in Nat /\ LiOf(i) \in Nat /\ x - cut \in Nat \ {0} /\ cut \in Nat /\ x \in Nat
    BY <1>4, <1>5, <1>6, <2>1
  <2> HIDE DEF x, cut, room2
  <2> QED
    BY <2>2, <2>3, <2>4, <2>5
<1>10. Room(T, room2, m - 1) = f
  BY <1>5, <1>8
<1>11. FoldLeft(Fill, [go |-> TRUE, room |-> room2, li |-> 1, lis |-> <<>>, rest |-> 0,
                       left |-> <<>>, last |-> FALSE, asserted |-> FALSE], s)
       = FillEnd(s, m, f, N)
  <2>1. room2 \in Int
    BY <1>6
  <2> HIDE DEF room2, f
  <2>2. Room(T, room2, m - 1) \in 1 .. s[m].remaining
    BY <1>4, <1>10 DEF f
  <2> QED
    BY <1>1, <1>4, <1>9, <1>10, <2>1, <2>2, FilledIs
<1>12. FoldLeft(+, 0, Prefix(s, m - 1)) = T[m - 1] /\ Len(Prefix(s, m - 1)) = m - 1
  BY <1>1, <1>5, PrefixTotal
<1>13. T[m - 1] \in Nat
  BY <1>1, <1>5 DEF Totals
<1>14. room = T[m - 1] + LiBytes(m - 1) + f + cut
  <2>1. x = room - T[m - 1] - LiBytes(m - 1)
    BY DEF Room
  <2>2. x \in Nat /\ cut \in Nat
    BY <1>4, <1>6
  <2>3. \A a, b, c \in Nat : \A r \in Int : (r - a - b) - c \in Int =>
          r = a + b + ((r - a - b) - c) + c
    OBVIOUS
  <2> HIDE DEF x, cut
  <2>4. room = T[m - 1] + LiBytes(m - 1) + ((room - T[m - 1] - LiBytes(m - 1)) - cut) + cut
    BY <2>2, <2>3, <1>5, <1>13
  <2> QED
    BY <2>1, <2>4
<1>15. /\ Left(s, m, f, N) \in Seq(Sdu) /\ Sound(Left(s, m, f, N))
       /\ TotalRemaining(Left(s, m, f, N)) = TotalRemaining(s) - (T[m - 1] + f)
  <2> HIDE DEF f
  <2> QED
    BY <1>1, <1>4, LeftFacts
<1>16. room = TotalRemaining(s) + LiBytes(N - 1) => Left(s, m, f, N) = <<>>
  <2> SUFFICES ASSUME room = TotalRemaining(s) + LiBytes(N - 1) PROVE Left(s, m, f, N) = <<>>
    OBVIOUS
  <2>1. x = s[m].remaining /\ \A g : g = s[m].remaining => Left(s, m, g, N) = <<>>
    BY <1>1, <1>2, <1>3, NothingLeft
  <2>2. cut = 0
    BY <2>1, <1>5 DEF CutOf
  <2>3. f = s[m].remaining
    BY <2>1, <2>2, <1>5
  <2> HIDE DEF f
  <2> QED
    BY <2>1, <2>3
<1> HIDE DEF cut, f
<1>17. Layout(s, room, m, f, cut)
  <2>1. /\ CountEnd(T, room, m, cut).cut = cut /\ CountEnd(T, room, m, cut).extra = 0
        /\ CountEnd(T, room, m, cut).num_li = m - 1
    BY DEF CountEnd
  <2> QED
    BY <1>5, <1>6, <1>7, <1>11, <1>12, <1>13, <1>14, <1>15, <1>16, <2>1, Zenon DEF Layout
<1> QED
  BY <1>17
-----------------------------------------------------------------------------
(* The sender.                                                              *)

UmTxInvariant ==
  /\ tx_sn_length \in {5, 10} /\ requested \in Nat /\ input_sdus \in Seq(Sdu)
  /\ OccupancyIsExact /\ PduFits /\ FiveBitExact /\ PassesAgree /\ GrantIsUsed

\* A step that hands no PDU to the MAC.
LEMMA NoPduStep ==
  ASSUME tb' = NoTb, requested' \in Nat
  PROVE  PduFits' /\ FiveBitExact' /\ PassesAgree' /\ GrantIsUsed'
<1>1. Len(<<>>) = 0
  OBVIOUS
<1>2. tb'.size = 0 /\ tb'.planned = 0 /\ tb'.li = <<>> /\ ~tb'.asserted
  BY DEF NoTb
<1>3. NoTb' = NoTb
  BY DEF NoTb
<1> QED
  BY <1>1, <1>2, <1>3 DEF PduFits, FiveBitExact, NoStrayBytes, PassesAgree, GrantIsUsed

\* The size of the PDU: as much as the grant allows, or all that waits.
LEMMA SizeFacts ==
  ASSUME UmTxInvariant, requested >= SmallestPdu, input_sdus # <<>>
  PROVE  LET size == DataPduSize(requested)
             all  == TotalRemaining(input_sdus) + LiBytes(Len(input_sdus) - 1)
         IN  /\ HeaderLength \in {1, 2} /\ size \in Nat /\ size <= requested
             /\ size - HeaderLength \in Nat \ {0} /\ size - HeaderLength <= all
             /\ size # requested => size - HeaderLength = all
             /\ TotalRemaining(input_sdus) \in Nat
<1> DEFINE s    == input_sdus
           N    == Len(s)
           B    == LiBytes(N - 1)
           b    == TotalRemaining(s)
           H    == HeaderLength
           size == DataPduSize(requested)
<1>1. s \in Seq(Sdu) /\ requested \in Nat /\ buffer_occupancy = b /\ H \in {1, 2}
  BY DEF UmTxInvariant, OccupancyIsExact, HeaderLength
<1>2. N \in Nat /\ N >= 1
  BY <1>1
<1>3. N - 1 \in Nat /\ B \in Nat
  <2>1. N - 1 \in Nat
    BY <1>2
  <2> QED
    BY <2>1, LiFacts
<1>4. b \in Nat /\ b >= 1
  <2>1. PICK T : Totals(T, s)
    BY <1>1, TotalsExist
  <2>2. N \in 0 + 1 .. Len(s) /\ 0 \in 0 .. Len(s) /\ N \in 0 .. N
    BY <1>2
  <2>3. T[0] < T[N]
    BY <1>1, <2>1, <2>2, TotalsGrow
  <2>4. T[0] = 0 /\ T[N] \in Nat /\ b = T[N]
    BY <2>1, <2>2 DEF Totals
  <2> QED
    BY <2>3, <2>4
<1>5. WholeQueue = b + H + B
  <2> DEFINE o == IF N <= 1 THEN 0 ELSE N - 1
  <2>1. o = N - 1 /\ o \in Nat
    <3>1. \A n \in Nat : n >= 1 => (IF n <= 1 THEN 0 ELSE n - 1) = n - 1 /\ n - 1 \in Nat
      OBVIOUS
    <3> HIDE DEF N
    <3> QED
      BY <1>2, <3>1
  <2>2. WholeQueue = buffer_occupancy + H + ((o * 3) \div 2) + (o % 2)
    BY DEF WholeQueue
  <2>3. ((o * 3) \div 2) + (o % 2) = B
    BY <1>3, <2>1, WholeQueueIs
  <2>4. (o * 3) \div 2 \in Nat /\ o % 2 \in Nat
    <3> HIDE DEF o
    <3>1. o \in Nat
      BY <2>1
    <3> QED
      BY <3>1
  <2>5. \A x, y, z, w \in Nat : x + y + z + w = x + y + (z + w)
    OBVIOUS
  <2> HIDE DEF o
  <2>6. b + H + ((o * 3) \div 2) + (o % 2) = b + H + (((o * 3) \div 2) + (o % 2))
    BY <2>4, <2>5, <1>1, <1>4
  <2> QED
    BY <2>2, <2>3, <2>6, <1>1
<1>6. size = IF requested >= b + H + B THEN b + H + B ELSE requested
  BY <1>5 DEF DataPduSize
<1>7. requested >= H + 1
  BY DEF SmallestPdu
<1> HIDE DEF N, B, b, H, size
<1>8. /\ size \in Nat /\ size <= requested /\ size - H \in Nat \ {0} /\ size - H <= b + B
      /\ size # requested => size - H = b + B
  <2>1. CASE requested >= b + H + B
    BY <2>1, <1>1, <1>3, <1>4, <1>6, <1>7
  <2>2. CASE ~(requested >= b + H + B)
    BY <2>2, <1>1, <1>3, <1>4, <1>6, <1>7
  <2> QED
    BY <2>1, <2>2
<1> QED
  BY <1>1, <1>4, <1>8 DEF N, B, b, H, size

\* What rlc_um_segment_5 and rlc_um_segment_10 do, in terms of the layout.
LEMMA SegmentIs ==
  ASSUME UmTxInvariant, Segment
  PROVE  LET s    == input_sdus
             size == DataPduSize(requested)
         IN  \E m, f, cut :
               /\ Layout(s, size - HeaderLength, m, f, cut)
               /\ input_sdus' = Left(s, m, f, Len(s))
               /\ buffer_occupancy' = buffer_occupancy - (FoldLeft(+, 0, Prefix(s, m - 1)) + f)
               /\ tb'.size = Shortened(size, cut) - 0 /\ tb'.li = Prefix(s, m - 1)
               /\ tb'.rest = f /\ tb'.planned = (m - 1) - 0 /\ tb'.asserted = FALSE
<1> DEFINE s       == input_sdus
           size    == DataPduSize(requested)
           room    == size - HeaderLength
           counted == Counted(room)
           filled  == Filled(room - counted.cut - counted.extra)
<1>1. /\ requested >= SmallestPdu /\ s # <<>>
      /\ s \in Seq(Sdu) /\ Sound(s)
  BY DEF Segment, UmTxInvariant, OccupancyIsExact, Sound
<1>2. room \in Nat \ {0} /\ room <= TotalRemaining(s) + LiBytes(Len(s) - 1)
  BY <1>1, SizeFacts
<1>3. PICK m, f, cut : Layout(s, room, m, f, cut)
  <2>1. room \in Int /\ room >= 1
    BY <1>2
  <2> HIDE DEF room, s
  <2> QED
    BY <1>1, <1>2, <2>1, LayoutExists
<1>4. counted.cut = cut /\ counted.extra = 0 /\ counted.num_li = m - 1 /\ cut \in 0 .. 2
  BY <1>3 DEF Layout, Counted
<1>5. filled = FillEnd(s, m, f, Len(s))
  <2>1. (room - counted.cut) - counted.extra = room - cut
    <3> HIDE DEF room, counted
    <3> QED
      BY <1>2, <1>4
  <2>2. Filled(room - cut) = FillEnd(s, m, f, Len(s))
    BY <1>3 DEF Layout, Filled
  <2> QED
    BY <2>1, <2>2
<1>6. /\ input_sdus' = filled.left
      /\ buffer_occupancy' = buffer_occupancy - (FoldLeft(+, 0, filled.lis) + filled.rest)
      /\ tb' = [size  |-> Shortened(size, counted.cut) - filled.room,
                first |-> Head(input_sdus).remaining = Head(input_sdus).size,
                last  |-> filled.last, li |-> filled.lis, rest |-> filled.rest,
                planned  |-> counted.num_li - (IF counted.extra > 0 THEN 1 ELSE 0),
                asserted |-> filled.asserted]
  BY DEF Segment
<1> HIDE DEF filled, counted, room, size
<1>7. /\ filled.left = Left(s, m, f, Len(s)) /\ filled.lis = Prefix(s, m - 1)
      /\ filled.rest = f /\ filled.room = 0 /\ filled.asserted = FALSE
  BY <1>5 DEF FillEnd
<1>8. (IF counted.extra > 0 THEN 1 ELSE 0) = 0
  BY <1>4
<1>9. /\ tb'.size = Shortened(size, counted.cut) - filled.room /\ tb'.li = filled.lis
      /\ tb'.rest = filled.rest /\ tb'.asserted = filled.asserted
      /\ tb'.planned = counted.num_li - (IF counted.extra > 0 THEN 1 ELSE 0)
  BY <1>6
<1>10. /\ tb'.size = Shortened(size, cut) - 0 /\ tb'.planned = (m - 1) - 0
  BY <1>4, <1>7, <1>8, <1>9
<1> QED
  BY <1>3, <1>6, <1>7, <1>9, <1>10 DEF room, size
LEMMA StrayNext ==
  StrayBytes' = tb'.size - (HeaderLength' + LiBytes(Len(tb'.li)) + FoldLeft(+, 0, tb'.li) + tb'.rest)
BY DEF StrayBytes, LiBytes, FoldLeft, MapThenFoldSet

LEMMA SegmentStep ==
  ASSUME UmTxInvariant, Segment
  PROVE  UmTxInvariant' /\ buffer_occupancy' < buffer_occupancy
<1> DEFINE s    == input_sdus
           size == DataPduSize(requested)
           H    == HeaderLength
           room == size - H
<1>1. PICK m, f, cut :
        /\ Layout(s, room, m, f, cut)
        /\ input_sdus' = Left(s, m, f, Len(s))
        /\ buffer_occupancy' = buffer_occupancy - (FoldLeft(+, 0, Prefix(s, m - 1)) + f)
        /\ tb'.size = Shortened(size, cut) - 0 /\ tb'.li = Prefix(s, m - 1)
        /\ tb'.rest = f /\ tb'.planned = (m - 1) - 0 /\ tb'.asserted = FALSE
  BY SegmentIs
<1> DEFINE whole == FoldLeft(+, 0, Prefix(s, m - 1))
           lis   == LiBytes(m - 1)
           left  == Left(s, m, f, Len(s))
<1>2. /\ cut \in 0 .. 2 /\ f \in Nat \ {0} /\ whole \in Nat /\ lis \in Nat
      /\ Len(Prefix(s, m - 1)) = m - 1 /\ m - 1 \in Nat
      /\ room = whole + lis + f + cut
      /\ left \in Seq(Sdu) /\ Sound(left)
      /\ TotalRemaining(left) = TotalRemaining(s) - (whole + f)
      /\ room = TotalRemaining(s) + LiBytes(Len(s) - 1) => left = <<>>
  BY <1>1 DEF Layout
<1>3. /\ H \in {1, 2} /\ size \in Nat /\ size <= requested /\ requested \in Nat
      /\ size # requested => room = TotalRemaining(s) + LiBytes(Len(s) - 1)
      /\ TotalRemaining(s) \in Nat
  <2>1. requested >= SmallestPdu /\ input_sdus # <<>> /\ requested \in Nat
    BY DEF Segment, UmTxInvariant
  <2> QED
    BY <2>1, SizeFacts
<1>4. /\ tx_sn_length' = tx_sn_length /\ requested' = requested /\ tx_sn_length \in {5, 10}
      /\ buffer_occupancy = TotalRemaining(s)
  BY DEF Segment, UmTxInvariant, OccupancyIsExact
<1>5. HeaderLength' = H
  BY <1>4 DEF HeaderLength
<1>6. size = H + lis + whole + f + cut
  <2>1. \A a, b, c, d, e \in Nat : \A x \in Int :
          x - a = c + b + d + e => x = a + b + c + d + e
    OBVIOUS
  <2>2. H \in Nat /\ cut \in Nat /\ f \in Nat /\ size \in Int
    <3> HIDE DEF whole, lis, size, H, left, room
    <3> QED
      BY <1>2, <1>3
  <2>3. size - H = whole + lis + f + cut
    BY <1>2
  <2> HIDE DEF whole, lis, size, H
  <2> QED
    BY <1>2, <2>1, <2>2, <2>3
<1>7. tb'.size = IF tx_sn_length = 5 THEN size - cut ELSE size
  <2>1. Shortened(size, cut) = IF tx_sn_length = 5 THEN size - cut ELSE size
    BY DEF Shortened
  <2>2. Shortened(size, cut) - 0 = Shortened(size, cut)
    <3>1. Shortened(size, cut) \in Int
      <4>1. \A a \in Nat : \A c \in 0 .. 2 : (IF tx_sn_length = 5 THEN a - c ELSE a) \in Int
        OBVIOUS
      <4> QED
        BY <1>2, <1>3, <2>1, <4>1
    <3> QED
      BY <3>1
  <2> QED
    BY <1>1, <2>1, <2>2
<1>8. StrayBytes' = tb'.size - (H + lis + whole + f)
  <2>1. Len(tb'.li) = m - 1
    BY <1>1, <1>2
  <2> QED
    BY <2>1, <1>1, <1>5, StrayNext
<1>9. input_sdus' = left /\ buffer_occupancy' = buffer_occupancy - (whole + f)
  BY <1>1
<1>10. tb'.planned = m - 1 /\ Len(tb'.li) = m - 1 /\ ~tb'.asserted
  <2>1. \A n \in Nat : n - 0 = n
    OBVIOUS
  <2> QED
    BY <2>1, <1>1, <1>2
<1> HIDE DEF whole, lis, left, size, H, s, room
<1>11. OccupancyIsExact'
  <2>1. (buffer_occupancy = TotalRemaining(input_sdus))'
    BY <1>2, <1>4, <1>9
  <2> QED
    BY <1>2, <1>9, <2>1 DEF OccupancyIsExact, Sound
<1>12. PduFits'
  BY <1>2, <1>3, <1>4, <1>7 DEF PduFits
<1>13. FiveBitExact'
  <2>1. tx_sn_length = 5 => StrayBytes' = 0
    BY <1>2, <1>3, <1>6, <1>7, <1>8
  <2> QED
    BY <2>1, <1>2, <1>4 DEF FiveBitExact, NoStrayBytes
<1>14. PassesAgree'
  BY <1>10 DEF PassesAgree
<1>15. GrantIsUsed'
  <2> SUFFICES ASSUME left # <<>> PROVE requested - tb'.size <= 2
    BY <1>4, <1>9 DEF GrantIsUsed
  <2>1. size = requested
    BY <1>2, <1>3
  <2> QED
    BY <2>1, <1>2, <1>3, <1>7
<1>16. buffer_occupancy' < buffer_occupancy
  BY <1>2, <1>3, <1>4, <1>9
<1> QED
  BY <1>2, <1>3, <1>4, <1>9, <1>11, <1>12, <1>13, <1>14, <1>15, <1>16 DEF UmTxInvariant

LEMMA TxInitially ==
  TxInit => UmTxInvariant
<1> SUFFICES ASSUME TxInit PROVE UmTxInvariant
  OBVIOUS
<1>1. tx_sn_length \in {5, 10} /\ requested \in Nat /\ input_sdus = <<>> /\ input_sdus \in Seq(Sdu)
  BY SnLengthAssumption DEF TxInit
<1>2. TotalRemaining(<<>>) = 0
  <2>1. PICK T : Totals(T, <<>>)
    BY <1>1, TotalsExist
  <2> QED
    BY <2>1 DEF Totals
<1>3. OccupancyIsExact
  BY <1>1, <1>2 DEF OccupancyIsExact, TxInit
<1>4. PduFits /\ FiveBitExact /\ PassesAgree /\ GrantIsUsed
  <2>1. Len(<<>>) = 0
    OBVIOUS
  <2>2. tb = NoTb /\ tb.size = 0 /\ tb.planned = 0 /\ tb.li = <<>> /\ ~tb.asserted
    BY DEF TxInit, NoTb
  <2> QED
    BY <1>1, <2>1, <2>2 DEF PduFits, FiveBitExact, NoStrayBytes, PassesAgree, GrantIsUsed
<1> QED
  BY <1>1, <1>3, <1>4 DEF UmTxInvariant

LEMMA TxStep ==
  ASSUME UmTxInvariant, [TxNext]_tx_vars
  PROVE  UmTxInvariant' /\ (tx_vars' # tx_vars /\ tb' # NoTb => buffer_occupancy' < buffer_occupancy)
<1>1. ASSUME NEW size \in TxSduSizes, DataReq(size)
      PROVE  UmTxInvariant' /\ tb' = NoTb
  <2> DEFINE q == Append(input_sdus, [size |-> size, remaining |-> size])
  <2>1. size \in Nat \ {0} /\ input_sdus \in Seq(Sdu) /\ Sound(input_sdus) /\ requested \in Nat
        /\ buffer_occupancy = TotalRemaining(input_sdus)
    BY SizesAssumption DEF UmTxInvariant, OccupancyIsExact, Sound
  <2>2. q \in Seq(Sdu) /\ Sound(q) /\ TotalRemaining(q) = TotalRemaining(input_sdus) + size
    BY <2>1, AppendTotal
  <2> HIDE DEF q
  <2>3. /\ input_sdus' = q /\ buffer_occupancy' = buffer_occupancy + size /\ tb' = NoTb
        /\ tx_sn_length' = tx_sn_length /\ requested' = requested
    BY <1>1 DEF DataReq, q
  <2>4. OccupancyIsExact'
    <3>1. (buffer_occupancy = TotalRemaining(input_sdus))'
      BY <2>1, <2>2, <2>3
    <3> QED
      BY <2>2, <2>3, <3>1 DEF OccupancyIsExact, Sound
  <2> QED
    BY <2>1, <2>2, <2>3, <2>4, NoPduStep DEF UmTxInvariant
<1>2. ASSUME NEW n \in Grants, MacStatus(n)
      PROVE  UmTxInvariant' /\ tb' = NoTb
  <2>1. /\ requested' \in Nat /\ tb' = NoTb /\ tx_sn_length' = tx_sn_length
        /\ input_sdus' = input_sdus /\ buffer_occupancy' = buffer_occupancy
    BY <1>2, SizesAssumption DEF MacStatus
  <2>2. OccupancyIsExact'
    BY <2>1 DEF UmTxInvariant, OccupancyIsExact
  <2> QED
    BY <2>1, <2>2, NoPduStep DEF UmTxInvariant
<1>3. ASSUME NothingToSend
      PROVE  UmTxInvariant' /\ tb' = NoTb
  <2>1. /\ requested' = requested /\ tb' = NoTb /\ tx_sn_length' = tx_sn_length
        /\ input_sdus' = input_sdus /\ buffer_occupancy' = buffer_occupancy
    BY <1>3 DEF NothingToSend
  <2>2. OccupancyIsExact'
    BY <2>1 DEF UmTxInvariant, OccupancyIsExact
  <2> QED
    BY <2>1, <2>2, NoPduStep DEF UmTxInvariant
<1>4. CASE Segment
  BY <1>4, SegmentStep
<1>5. CASE UNCHANGED tx_vars
  <2>1. /\ requested' = requested /\ tb' = tb /\ tx_sn_length' = tx_sn_length
        /\ input_sdus' = input_sdus /\ buffer_occupancy' = buffer_occupancy
    BY <1>5 DEF tx_vars
  <2>2. OccupancyIsExact'
    BY <2>1 DEF UmTxInvariant, OccupancyIsExact
  <2>3. PduFits' /\ PassesAgree' /\ GrantIsUsed'
    BY <2>1 DEF UmTxInvariant, PduFits, PassesAgree, GrantIsUsed, NoTb
  <2>4. FiveBitExact'
    <3>1. HeaderLength' = HeaderLength
      BY <2>1 DEF HeaderLength
    <3>2. StrayBytes' = StrayBytes
      BY <2>1, <3>1, StrayNext DEF StrayBytes
    <3> QED
      BY <2>1, <3>2 DEF UmTxInvariant, FiveBitExact, NoStrayBytes, NoTb
  <2>5. tx_vars' = tx_vars
    BY <1>5
  <2> QED
    BY <2>1, <2>2, <2>3, <2>4, <2>5 DEF UmTxInvariant
<1> QED
  BY <1>1, <1>2, <1>3, <1>4, <1>5 DEF TxNext

\* Every step of the sender, rlc_um_data_req, rlc_um_mac_status_indication and
\* rlc_um_mac_data_request, keeps the invariant: for any queue, grant and SN length.
THEOREM UmTxSafe == TxSpec => []UmTxInvariant
<1>1. UmTxInvariant /\ [TxNext]_tx_vars => UmTxInvariant'
  BY TxStep
<1> QED
  BY <1>1, TxInitially, PTL DEF TxSpec

\* Whatever SDUs PDCP submits and whatever the MAC grants, buffer_occupancy, which
\* rlc_um_get_buffer_occupancy reports, is the number of bytes that wait in input_sdus,
\* and no SDU without bytes stays in the queue.
THEOREM OccupancySafe == TxSpec => []OccupancyIsExact
<1>1. UmTxInvariant => OccupancyIsExact
  BY DEF UmTxInvariant
<1> QED
  BY <1>1, UmTxSafe, PTL

\* rlc_um_segment_5 and rlc_um_segment_10 never build a PDU larger than
\* nb_bytes_requested_by_mac.
THEOREM PduFitsSafe == TxSpec => []PduFits
<1>1. UmTxInvariant => PduFits
  BY DEF UmTxInvariant
<1> QED
  BY <1>1, UmTxSafe, PTL

\* rlc_um_segment_5 builds a PDU that is exactly its header, length indicators and data,
\* for every queue and grant.
THEOREM FiveBitSafe == TxSpec => []FiveBitExact
<1>1. UmTxInvariant => FiveBitExact
  BY DEF UmTxInvariant
<1> QED
  BY <1>1, UmTxSafe, PTL

\* The loop of rlc_um_segment_5 and rlc_um_segment_10 that fills the PDU writes as many
\* length indicators as the loop before it counted, and never reaches its assert(1!=1).
THEOREM PassesAgreeSafe == TxSpec => []PassesAgree
<1>1. UmTxInvariant => PassesAgree
  BY DEF UmTxInvariant
<1> QED
  BY <1>1, UmTxSafe, PTL

\* As long as SDUs remain in input_sdus, a PDU leaves at most two bytes of the grant.
THEOREM GrantSafe == TxSpec => []GrantIsUsed
<1>1. UmTxInvariant => GrantIsUsed
  BY DEF UmTxInvariant
<1> QED
  BY <1>1, UmTxSafe, PTL

\* Every PDU that rlc_um_mac_data_request hands to the MAC takes at least one byte from
\* input_sdus.
THEOREM ProgressSafe == TxSpec => SendsSomething
<1>1. UmTxInvariant /\ [TxNext]_tx_vars
      => [tb' # NoTb => buffer_occupancy' < buffer_occupancy]_tx_vars
  BY TxStep
<1> QED
  BY <1>1, UmTxSafe, PTL DEF TxSpec, SendsSomething
=============================================================================
