---------------------------- MODULE RlcAmRxProofs ----------------------------
(***************************************************************************)
(* Proofs about RlcAmRx, whatever arrives: up to the first PDU that a walk  *)
(* across the wrap misplaces the list stays sorted within the window,       *)
(* exactly the bytes before VR(R) are passed to PDCP, once and in sequence, *)
(* and a status report of any length acknowledges only what has been        *)
(* received and asks only for what has not.  Misplaced says which PDUs      *)
(* these are, so the proofs show that there are no others.                  *)
(***************************************************************************)
EXTENDS RlcAmRx, DataLemmas, SequenceTheorems

-----------------------------------------------------------------------------
(* Sequence numbers.                                                        *)

LEMMA RxFacts ==
  /\ WindowSize \in Nat /\ WindowSize >= 1 /\ SnModulo \in Nat /\ SnModulo \in Nat \ {0}
  /\ SnModulo = WindowSize + WindowSize /\ PduSize \in Nat /\ PduSize >= 1
BY AmWindowAssumption, PduSizeAssumption

LEMMA DivMod ==
  ASSUME NEW a \in Int, NEW b \in Nat \ {0}
  PROVE  a = b * (a \div b) + (a % b) /\ a % b \in 0 .. b - 1 /\ a \div b \in Int
OBVIOUS

LEMMA DivModUnique ==
  ASSUME NEW b \in Nat \ {0}, NEW q \in Int, NEW p \in Int,
         NEW r \in 0 .. b - 1, NEW s \in 0 .. b - 1, b * q + r = b * p + s
  PROVE  q = p /\ r = s
<1>1. ASSUME NEW c \in Int, NEW d \in Int, c < d
      PROVE  b * d >= b * c + b
  <2>1. b * (d - c) >= b
    BY <1>1
  <2>2. b * (d - c) = b * d - b * c
    OBVIOUS
  <2>3. b * d \in Int /\ b * c \in Int
    OBVIOUS
  <2> QED
    BY <2>1, <2>2, <2>3
<1>2. b * q \in Int /\ b * p \in Int
  OBVIOUS
<1>3. CASE q < p
  BY <1>1, <1>2, <1>3
<1>4. CASE p < q
  BY <1>1, <1>2, <1>4
<1> QED
  BY <1>3, <1>4

LEMMA DivModOf ==
  ASSUME NEW b \in Nat \ {0}, NEW q \in Int, NEW r \in 0 .. b - 1, NEW a \in Int,
         a = b * q + r
  PROVE  a % b = r /\ a \div b = q
<1>1. a = b * (a \div b) + (a % b) /\ a % b \in 0 .. b - 1 /\ a \div b \in Int
  BY DivMod
<1>2. b * (a \div b) + (a % b) = b * q + r
  BY <1>1
<1> QED
  BY <1>1, <1>2, DivModUnique

\* A number that is at most a modulus away from a residue.
LEMMA ModNear ==
  ASSUME NEW d \in Int, -SnModulo <= d, d < SnModulo + SnModulo
  PROVE  /\ d < 0 => d % SnModulo = d + SnModulo
         /\ 0 <= d /\ d < SnModulo => d % SnModulo = d
         /\ SnModulo <= d => d % SnModulo = d - SnModulo
<1>1. ASSUME d < 0
      PROVE  d % SnModulo = d + SnModulo
  <2>1. d + SnModulo \in 0 .. SnModulo - 1 /\ d = SnModulo * (-1) + (d + SnModulo)
    BY <1>1, RxFacts
  <2> QED
    BY <2>1, RxFacts, DivModOf
<1>2. ASSUME 0 <= d, d < SnModulo
      PROVE  d % SnModulo = d
  <2>1. d \in 0 .. SnModulo - 1 /\ d = SnModulo * 0 + d
    BY <1>2, RxFacts
  <2> QED
    BY <2>1, RxFacts, DivModOf
<1>3. ASSUME SnModulo <= d
      PROVE  d % SnModulo = d - SnModulo
  <2>1. d - SnModulo \in 0 .. SnModulo - 1 /\ d = SnModulo * 1 + (d - SnModulo)
    BY <1>3, RxFacts
  <2> QED
    BY <2>1, RxFacts, DivModOf
<1> QED
  BY <1>1, <1>2, <1>3

\* The SN of PDU n, from that of PDU k.
LEMMA SnOf ==
  ASSUME NEW k \in Nat, NEW n \in Nat, k - WindowSize <= n, n <= k + WindowSize
  PROVE  /\ n % SnModulo \in SN /\ k % SnModulo \in SN
         /\ n % SnModulo \in {(k % SnModulo) + (n - k), (k % SnModulo) + (n - k) - SnModulo,
                              (k % SnModulo) + (n - k) + SnModulo}
<1> DEFINE v == k % SnModulo
           q == k \div SnModulo
           d == v + (n - k)
<1>1. k = SnModulo * q + v /\ v \in 0 .. SnModulo - 1 /\ q \in Int
  <2>1. k \in Int /\ SnModulo \in Nat \ {0}
    BY RxFacts
  <2> QED
    BY <2>1, DivMod
<1> HIDE DEF v, q
<1>2. d \in Int /\ -SnModulo <= d /\ d < SnModulo + SnModulo
  BY <1>1, RxFacts
<1>3. SnModulo * q \in Int /\ n = SnModulo * q + d
  BY <1>1, RxFacts
<1> HIDE DEF d
<1> DEFINE Goal == /\ n % SnModulo \in 0 .. SnModulo - 1
                   /\ n % SnModulo \in {d, d - SnModulo, d + SnModulo}
<1>4. ASSUME NEW r \in 0 .. SnModulo - 1, NEW e \in {-1, 0, 1}, d = SnModulo * e + r
      PROVE  n % SnModulo = r
  <2>1. SnModulo * (q + e) = SnModulo * q + SnModulo * e
    BY <1>1, RxFacts
  <2>2. n = SnModulo * (q + e) + r /\ q + e \in Int /\ n \in Int
    <3>1. SnModulo * e \in Int
      BY RxFacts
    <3> QED
      BY <1>1, <1>3, <1>4, <2>1, <3>1, RxFacts
  <2>3. PICK p \in Int : n = SnModulo * p + r
    BY <2>2
  <2>4. SnModulo \in Nat \ {0}
    BY RxFacts
  <2> QED
    BY <2>2, <2>3, <2>4, DivModOf
<1>5. ASSUME d < 0 PROVE Goal
  <2>1. d + SnModulo \in 0 .. SnModulo - 1 /\ d = SnModulo * (-1) + (d + SnModulo)
    BY <1>2, <1>5, RxFacts
  <2>2. n % SnModulo = d + SnModulo
    BY <2>1, <1>4
  <2> QED
    BY <2>1, <2>2
<1>6. ASSUME 0 <= d, d < SnModulo PROVE Goal
  <2>1. d \in 0 .. SnModulo - 1 /\ d = SnModulo * 0 + d
    BY <1>2, <1>6, RxFacts
  <2>2. n % SnModulo = d
    BY <2>1, <1>4
  <2> QED
    BY <2>1, <2>2
<1>7. ASSUME SnModulo <= d PROVE Goal
  <2>1. d - SnModulo \in 0 .. SnModulo - 1 /\ d = SnModulo * 1 + (d - SnModulo)
    BY <1>2, <1>7, RxFacts
  <2>2. n % SnModulo = d - SnModulo
    BY <2>1, <1>4
  <2> QED
    BY <2>1, <2>2
<1> HIDE DEF Goal
<1>8. Goal
  BY <1>2, <1>5, <1>6, <1>7, RxFacts
<1>9. n % SnModulo \in SN /\ v \in SN
  BY <1>1, <1>8 DEF SN, Goal
<1>10. n % SnModulo \in {d, d - SnModulo, d + SnModulo}
  BY <1>8 DEF Goal
<1>11. n % SnModulo \in {v + (n - k), v + (n - k) - SnModulo, v + (n - k) + SnModulo}
  BY <1>1, <1>10, RxFacts DEF d
<1> QED
  BY <1>9, <1>11, Zenon DEF v

\* PDUs at most a window apart have the same SN only if they are the same.
LEMMA SameSn ==
  ASSUME NEW n \in Nat, NEW m \in Nat, m <= n + WindowSize, n <= m + WindowSize,
         n % SnModulo = m % SnModulo
  PROVE  n = m
<1> DEFINE u == n % SnModulo
           v == m % SnModulo
<1>1. u = v /\ m - WindowSize <= n
  BY RxFacts
<1>2. u \in SN /\ u \in {v + (n - m), v + (n - m) - SnModulo, v + (n - m) + SnModulo}
  BY <1>1, SnOf
<1> HIDE DEF u, v
<1>3. u \in Int
  BY <1>2, RxFacts DEF SN
<1> QED
  BY <1>1, <1>2, <1>3, RxFacts

\* Dist and Plus on the SNs of PDUs.
LEMMA DistOf ==
  ASSUME NEW k \in Nat, NEW n \in Nat, k - WindowSize <= n, n <= k + WindowSize
  PROVE  Dist(k % SnModulo, n % SnModulo) = IF n < k THEN n - k + SnModulo ELSE n - k
<1> DEFINE u == n % SnModulo
           v == k % SnModulo
<1>1. u \in SN /\ v \in SN
      /\ u \in {v + (n - k), v + (n - k) - SnModulo, v + (n - k) + SnModulo}
  BY SnOf
<1> HIDE DEF u, v
<1>2. u - v \in Int /\ -SnModulo <= u - v /\ u - v < SnModulo
  BY <1>1, RxFacts DEF SN
<1>3. /\ u - v < 0 => (u - v) % SnModulo = u - v + SnModulo
      /\ 0 <= u - v => (u - v) % SnModulo = u - v
  BY <1>2, RxFacts, ModNear
<1>4. (u - v) % SnModulo = IF n < k THEN n - k + SnModulo ELSE n - k
  BY <1>1, <1>2, <1>3, RxFacts DEF SN
<1> QED
  BY <1>4 DEF Dist, u, v

LEMMA PlusOf ==
  ASSUME NEW n \in Nat
  PROVE  Plus(n % SnModulo, 1) = (n + 1) % SnModulo /\ Plus(n % SnModulo, 1) \in SN
<1> DEFINE u == n % SnModulo
           w == (n + 1) % SnModulo
<1>1. n + 1 \in Nat /\ n - WindowSize <= n + 1 /\ n + 1 <= n + WindowSize
  BY RxFacts
<1>2. w \in SN /\ u \in SN /\ w \in {u + (n + 1 - n), u + (n + 1 - n) - SnModulo,
                                     u + (n + 1 - n) + SnModulo}
  BY <1>1, SnOf
<1> HIDE DEF u, w
<1>3. u \in Int /\ 0 <= u /\ u < SnModulo
  BY <1>2, RxFacts DEF SN
<1>4. PICK y \in Int : y = u + 1
  BY <1>3
<1>5. /\ y < SnModulo => y % SnModulo = y
      /\ SnModulo <= y => y % SnModulo = y - SnModulo
  <2>1. -SnModulo <= y /\ y < SnModulo + SnModulo /\ 0 <= y
    BY <1>3, <1>4, RxFacts
  <2> QED
    BY <2>1, ModNear
<1>6. y % SnModulo = w
  BY <1>2, <1>3, <1>4, <1>5, RxFacts DEF SN
<1> QED
  BY <1>2, <1>4, <1>6 DEF Plus, u, w

\* The order of SNs in a window from PDU k, on either side of the wrap.
LEMMA OrderOf ==
  ASSUME NEW k \in Nat, NEW n \in k .. k + WindowSize - 1, NEW m \in k .. k + WindowSize - 1,
         NEW v, v = k % SnModulo, NEW i, i = n % SnModulo, NEW j, j = m % SnModulo
  PROVE  /\ i \in SN /\ j \in SN /\ v \in SN
         /\ i = j <=> n = m
         /\ (i >= v <=> j >= v) => (i < j <=> n < m)
         /\ i >= v /\ j < v => n < m
         /\ v + WindowSize < SnModulo => i >= v
<1>1. n \in Nat /\ k - WindowSize <= n /\ n <= k + WindowSize
  BY RxFacts
<1>2. m \in Nat /\ k - WindowSize <= m /\ m <= k + WindowSize
  BY RxFacts
<1>3. i \in SN /\ v \in SN /\ i \in {v + (n - k), v + (n - k) - SnModulo, v + (n - k) + SnModulo}
  BY <1>1, SnOf
<1>4. j \in SN /\ j \in {v + (m - k), v + (m - k) - SnModulo, v + (m - k) + SnModulo}
  BY <1>2, SnOf
<1>5. i \in Int /\ j \in Int /\ v \in Int /\ 0 <= i /\ i < SnModulo /\ 0 <= j /\ j < SnModulo
      /\ 0 <= v /\ v < SnModulo
  BY <1>3, <1>4, RxFacts DEF SN
<1>6. i = v + (n - k) \/ i = v + (n - k) - SnModulo
  BY <1>3, <1>5, RxFacts
<1>7. j = v + (m - k) \/ j = v + (m - k) - SnModulo
  BY <1>4, <1>5, RxFacts
<1> QED
  BY <1>3, <1>4, <1>5, <1>6, <1>7, RxFacts

\* VR(MR) is below VR(R) if the window wraps.
LEMMA VrMrOf ==
  ASSUME vr_r \in SN
  PROVE  VrMr >= vr_r <=> vr_r + WindowSize < SnModulo
<1>1. vr_r \in Int /\ 0 <= vr_r /\ vr_r < SnModulo
  BY RxFacts DEF SN
<1>2. /\ vr_r + WindowSize < SnModulo => (vr_r + WindowSize) % SnModulo = vr_r + WindowSize
      /\ SnModulo <= vr_r + WindowSize
           => (vr_r + WindowSize) % SnModulo = vr_r + WindowSize - SnModulo
  BY <1>1, RxFacts, ModNear
<1> QED
  BY <1>1, <1>2, RxFacts DEF VrMr, Plus
-----------------------------------------------------------------------------
(* The list.                                                                *)

\* An element is a PDU or a segment of it, of which the last has its flag.
Shaped(c) ==
  /\ c \in Element /\ c.sn = c.n % SnModulo
  /\ ~c.rf => c.so = 0 /\ c.size = PduSize
  /\ c.rf => End(c) <= PduSize /\ (c.lsf <=> End(c) = PduSize)

\* Element d comes after c: a later PDU, or a later part of the same one.
Follows(c, d) == c.n < d.n \/ (c.n = d.n /\ c.rf /\ d.rf /\ End(c) <= d.so)

Sorted(list) == \A i \in 1 .. Len(list) - 1 : Follows(list[i], list[i + 1])

\* The elements of the list are of the window from PDU k.
InWindow(list, k) ==
  /\ list \in Seq(Element)
  /\ \A i \in 1 .. Len(list) : Shaped(list[i]) /\ list[i].n \in k .. k + WindowSize - 1

\* A segment that is marked as one of a complete PDU has its neighbours in the list.
Complete(list) ==
  \A i \in 1 .. Len(list) : list[i].all /\ list[i].rf =>
    /\ \/ list[i].so = 0
       \/ i > 1 /\ list[i - 1].n = list[i].n /\ list[i - 1].all /\ End(list[i - 1]) = list[i].so
    /\ list[i].lsf \/ (i < Len(list) /\ list[i + 1].n = list[i].n /\ list[i + 1].all)

\* A whole PDU is marked.
Wholes(list) == \A i \in 1 .. Len(list) : ~list[i].rf => list[i].all

\* x may enter the list at index i.
Fits(list, i, x) ==
  /\ i \in 1 .. Len(list) + 1
  /\ i > 1 => Follows(list[i - 1], x)
  /\ i <= Len(list) => Follows(x, list[i])

LEMMA ShapeFacts ==
  ASSUME NEW c, Shaped(c)
  PROVE  /\ c \in Element /\ c.n \in Nat /\ c.sn = c.n % SnModulo /\ c.sn \in SN
         /\ c.so \in Nat /\ End(c) \in Nat /\ c.so < End(c) /\ End(c) <= PduSize
         /\ c.rf \in BOOLEAN /\ c.all \in BOOLEAN /\ c.lsf \in BOOLEAN
         /\ ~c.rf => c.so = 0 /\ End(c) = PduSize
         /\ c.rf => (c.lsf <=> End(c) = PduSize)
<1>1. /\ c \in Element /\ c.n \in Nat /\ c.sn \in SN /\ c.so \in Nat /\ c.size \in Nat
      /\ c.size >= 1 /\ c.rf \in BOOLEAN /\ c.all \in BOOLEAN /\ c.lsf \in BOOLEAN
  BY RxFacts DEF Shaped, Element
<1> QED
  BY <1>1, RxFacts DEF Shaped, End

LEMMA FollowsTransitive ==
  ASSUME NEW c, NEW d, NEW e, Shaped(c), Shaped(d), Shaped(e), Follows(c, d), Follows(d, e)
  PROVE  Follows(c, e)
<1>1. /\ c.n \in Nat /\ d.n \in Nat /\ e.n \in Nat /\ End(c) \in Nat /\ End(d) \in Nat
      /\ d.so \in Nat /\ e.so \in Nat /\ d.so < End(d)
  BY ShapeFacts
<1> QED
  BY <1>1 DEF Follows

LEMMA SortedThroughout ==
  ASSUME NEW k \in Nat, NEW list, InWindow(list, k), Sorted(list),
         NEW i \in 1 .. Len(list), NEW j \in 1 .. Len(list), i < j
  PROVE  Follows(list[i], list[j])
<1> DEFINE N == Len(list) - i - 1
           S == {n \in Nat : i + 1 + n <= Len(list) => Follows(list[i], list[i + 1 + n])}
<1>1. Len(list) \in Nat /\ \A m \in 1 .. Len(list) : Shaped(list[m])
  BY DEF InWindow
<1>2. N \in Nat /\ 0 \in S
  BY <1>1 DEF Sorted
<1>3. ASSUME NEW n \in 0 .. N - 1, n \in S
      PROVE  n + 1 \in S
  <2>1. i \in Nat /\ n \in Nat /\ i + 1 + n \in 1 .. Len(list) - 1 /\ i + 1 + n + 1 = i + 1 + (n + 1)
    BY <1>1, <1>3
  <2>2. Follows(list[i], list[i + 1 + n])
    BY <1>1, <1>3, <2>1
  <2>3. PICK m \in 1 .. Len(list) - 1 : m = i + 1 + n
    BY <2>1
  <2>4. Follows(list[m], list[m + 1]) /\ m + 1 \in 1 .. Len(list) /\ m \in 1 .. Len(list)
    BY <1>1, <2>3 DEF Sorted
  <2>5. Follows(list[i], list[m + 1])
    BY <1>1, <2>2, <2>3, <2>4, FollowsTransitive
  <2> QED
    BY <2>1, <2>3, <2>5
<1> HIDE DEF S
<1>4. \A n \in 0 .. N : n \in S
  BY <1>2, <1>3, InductionUpTo
<1>5. PICK n \in 0 .. N : i + 1 + n = j
  <2>1. j - (i + 1) \in 0 .. N /\ i + 1 + (j - (i + 1)) = j
    BY <1>1
  <2> QED
    BY <2>1
<1>6. n \in S
  BY <1>4
<1> QED
  BY <1>1, <1>5, <1>6 DEF S
-----------------------------------------------------------------------------
(* rlc_am_rx_list_insert_pdu                                                *)

\* What the walks find out about an element c that x is placed next to.
LEMMA WalkOrder ==
  ASSUME NEW k \in Nat, vr_r = k % SnModulo, NEW c, NEW x, Shaped(c), Shaped(x),
         c.n \in k .. k + WindowSize - 1, x.n \in k .. k + WindowSize - 1
  PROVE  /\ c.sn \in Int /\ x.sn \in Int /\ vr_r \in Int /\ vr_r \in SN
         /\ c.sn = x.sn <=> c.n = x.n
         /\ (c.sn >= vr_r <=> x.sn >= vr_r) => (c.sn < x.sn => c.n < x.n) /\ (x.sn < c.sn => x.n < c.n)
         /\ c.sn >= vr_r /\ x.sn < vr_r => c.n < x.n
         /\ x.sn >= vr_r /\ c.sn < vr_r => x.n < c.n
         /\ vr_r + WindowSize < SnModulo => c.sn >= vr_r /\ x.sn >= vr_r
<1>1. c.sn = c.n % SnModulo /\ x.sn = x.n % SnModulo
  BY ShapeFacts
<1>2. PICK i, j : i = c.sn /\ j = x.sn
  OBVIOUS
<1>3. PICK n \in k .. k + WindowSize - 1, m \in k .. k + WindowSize - 1 : n = c.n /\ m = x.n
  OBVIOUS
<1>4. i = n % SnModulo /\ j = m % SnModulo
  BY <1>1, <1>2, <1>3
<1>5. /\ i \in SN /\ j \in SN /\ vr_r \in SN
      /\ i = j <=> n = m
      /\ (i >= vr_r <=> j >= vr_r) => (i < j <=> n < m)
      /\ i >= vr_r /\ j < vr_r => n < m
      /\ vr_r + WindowSize < SnModulo => i >= vr_r
  BY <1>4, OrderOf
<1>6. /\ (j >= vr_r <=> i >= vr_r) => (j < i <=> m < n)
      /\ j >= vr_r /\ i < vr_r => m < n
      /\ vr_r + WindowSize < SnModulo => j >= vr_r
  BY <1>4, OrderOf
<1>7. i \in Int /\ j \in Int /\ vr_r \in Int
  BY <1>5, RxFacts DEF SN
<1> QED
  BY <1>2, <1>3, <1>5, <1>6, <1>7

\* A list with one more element.
LEMMA Appended ==
  ASSUME NEW k \in Nat, NEW list, InWindow(list, k), NEW x \in Element
  PROVE  /\ Len(list) \in Nat /\ Len(list \o <<x>>) = Len(list) + 1
         /\ \A j \in 1 .. Len(list) : (list \o <<x>>)[j] = list[j]
         /\ (list \o <<x>>)[Len(list) + 1] = x
BY DEF InWindow

\* What holds where a PDU is placed.
PlacingAt(k, x) ==
  /\ k \in Nat /\ vr_r = k % SnModulo /\ InWindow(receiver_buffer, k)
  /\ Sorted(receiver_buffer) /\ Shaped(x) /\ x.n \in k .. k + WindowSize - 1

\* The walk from the head.
LEMMA UnwrappedFits ==
  ASSUME NEW k, NEW x, PlacingAt(k, x), vr_r + WindowSize < SnModulo,
         NEW i, i = PlaceUnwrapped(x), i # 0
  PROVE  Fits(receiver_buffer, i, x)
<1> DEFINE b == receiver_buffer
           I == {j \in 1 .. Len(b \o <<x>>) : StopsAt((b \o <<x>>)[j], x) \/ (b \o <<x>>)[j] = x}
<1>1. /\ Len(b) \in Nat /\ Len(b \o <<x>>) = Len(b) + 1
      /\ \A j \in 1 .. Len(b) : (b \o <<x>>)[j] = b[j]
      /\ (b \o <<x>>)[Len(b) + 1] = x
  BY Appended, ShapeFacts DEF PlacingAt
<1>2. Min(I) \in I /\ \A j \in I : Min(I) <= j
  <2>1. Len(b) + 1 \in I /\ I \subseteq Int /\ 1 \in Int /\ \A j \in I : 1 <= j
    BY <1>1
  <2> QED
    BY <2>1, MinIsLeast
<1>0. \A j \in 1 .. Len(b) : j \in I <=> (StopsAt(b[j], x) \/ b[j] = x)
  BY <1>1
<1>3. I # {} /\ i = (IF FitsAt(Min(I), x) THEN Min(I) ELSE 0)
  BY <1>2 DEF PlaceUnwrapped, SelectInSeq
<1>4. i = Min(I) /\ FitsAt(i, x)
  BY <1>3
<1>5. i \in 1 .. Len(b) + 1
  BY <1>1, <1>2, <1>4
<1> HIDE DEF I
<1>6. ASSUME i > 1
      PROVE  Follows(b[i - 1], x)
  <2>1. i - 1 \in 1 .. Len(b) /\ i - 1 \notin I
    BY <1>1, <1>2, <1>4, <1>5, <1>6
  <2>2. ~StopsAt(b[i - 1], x)
    BY <1>0, <2>1
  <2>3. PICK c : c = b[i - 1] /\ Shaped(c) /\ c.n \in k .. k + WindowSize - 1
    BY <2>1 DEF InWindow, PlacingAt
  <2>4. c.sn = x.sn => x.rf = c.rf /\ End(c) <= x.so
    BY <1>4, <1>6, <2>3 DEF FitsAt
  <2>5. /\ c.sn \in Int /\ x.sn \in Int
        /\ c.sn = x.sn <=> c.n = x.n
        /\ c.sn < x.sn => c.n < x.n
    BY <2>3, WalkOrder DEF PlacingAt
  <2>6. c.rf \in BOOLEAN /\ x.rf \in BOOLEAN
    BY <2>3, ShapeFacts DEF PlacingAt
  <2> QED
    BY <2>2, <2>3, <2>4, <2>5, <2>6 DEF StopsAt, Follows
<1>7. ASSUME i <= Len(b)
      PROVE  Follows(x, b[i])
  <2>1. i \in 1 .. Len(b) /\ (StopsAt(b[i], x) \/ b[i] = x)
    BY <1>0, <1>1, <1>2, <1>4, <1>5, <1>7
  <2>2. PICK c : c = b[i] /\ Shaped(c) /\ c.n \in k .. k + WindowSize - 1
    BY <2>1 DEF InWindow, PlacingAt
  <2>3. c.sn = x.sn => x.rf /\ c.rf /\ End(x) <= c.so
    BY <1>4, <1>7, <2>2 DEF FitsAt
  <2>4. /\ c.sn \in Int /\ x.sn \in Int
        /\ c.sn = x.sn <=> c.n = x.n
        /\ x.sn < c.sn => x.n < c.n
    BY <2>2, WalkOrder DEF PlacingAt
  <2> QED
    BY <2>1, <2>2, <2>3, <2>4 DEF StopsAt, Follows
<1> QED
  BY <1>5, <1>6, <1>7 DEF Fits

\* The walk from the head up to the wrap.
LEMMA BeforeWrapFits ==
  ASSUME NEW k, NEW x, PlacingAt(k, x), x.sn >= vr_r,
         NEW i, i = PlaceBeforeWrap(x), i # 0,
         i > 1 /\ receiver_buffer[i - 1].sn = x.sn => ~(x.so < End(receiver_buffer[i - 1]))
  PROVE  Fits(receiver_buffer, i, x)
<1> DEFINE b == receiver_buffer
           Stop(c) == c.sn < vr_r \/ StopsAt(c, x) \/ c = x
           I == {j \in 1 .. Len(b \o <<x>>) : Stop((b \o <<x>>)[j])}
<1>1. /\ Len(b) \in Nat /\ Len(b \o <<x>>) = Len(b) + 1
      /\ \A j \in 1 .. Len(b) : (b \o <<x>>)[j] = b[j]
      /\ (b \o <<x>>)[Len(b) + 1] = x
  BY Appended, ShapeFacts DEF PlacingAt
<1>2. Min(I) \in I /\ \A j \in I : Min(I) <= j
  <2>1. Len(b) + 1 \in I /\ I \subseteq Int /\ 1 \in Int /\ \A j \in I : 1 <= j
    BY <1>1
  <2> QED
    BY <2>1, MinIsLeast
<1>3. \A j \in 1 .. Len(b) : j \in I <=> Stop(b[j])
  BY <1>1
<1>4. /\ I # {}
      /\ i = (IF Min(I) <= Len(b) /\ b[Min(I)].sn < vr_r THEN Min(I)
              ELSE IF FitsAt(Min(I), x) THEN Min(I) ELSE 0)
  BY <1>2 DEF PlaceBeforeWrap, SelectInSeq
<1>5. i = Min(I) /\ ((i <= Len(b) /\ b[i].sn < vr_r) \/ FitsAt(i, x))
  BY <1>4
<1>6. i \in 1 .. Len(b) + 1
  BY <1>1, <1>2, <1>5
<1> HIDE DEF I
<1>7. ASSUME i > 1
      PROVE  Follows(b[i - 1], x)
  <2>1. i - 1 \in 1 .. Len(b) /\ i - 1 \notin I
    BY <1>1, <1>2, <1>5, <1>6, <1>7
  <2>2. ~Stop(b[i - 1])
    BY <1>3, <2>1
  <2>3. PICK c : c = b[i - 1] /\ Shaped(c) /\ c.n \in k .. k + WindowSize - 1
    BY <2>1 DEF InWindow, PlacingAt
  <2>4. /\ c.sn \in Int /\ x.sn \in Int /\ vr_r \in Int
        /\ c.sn = x.sn <=> c.n = x.n
        /\ (c.sn >= vr_r <=> x.sn >= vr_r) => (c.sn < x.sn => c.n < x.n)
    BY <2>3, WalkOrder DEF PlacingAt
  <2>5. c.rf \in BOOLEAN /\ x.rf \in BOOLEAN /\ x.so \in Nat /\ End(c) \in Nat
    BY <2>3, ShapeFacts DEF PlacingAt
  <2>6. c.sn = x.sn => ~(x.so < End(c))
    BY <1>7, <2>3
  <2> QED
    BY <2>2, <2>3, <2>4, <2>5, <2>6 DEF StopsAt, Follows
<1>8. ASSUME i <= Len(b)
      PROVE  Follows(x, b[i])
  <2>1. i \in 1 .. Len(b) /\ Stop(b[i])
    BY <1>1, <1>2, <1>3, <1>5, <1>6, <1>8
  <2>2. PICK c : c = b[i] /\ Shaped(c) /\ c.n \in k .. k + WindowSize - 1
    BY <2>1 DEF InWindow, PlacingAt
  <2>3. c.sn < vr_r \/ (c.sn = x.sn => x.rf /\ c.rf /\ End(x) <= c.so)
    BY <1>5, <1>8, <2>2 DEF FitsAt
  <2>4. /\ c.sn \in Int /\ x.sn \in Int /\ vr_r \in Int
        /\ c.sn = x.sn <=> c.n = x.n
        /\ (c.sn >= vr_r <=> x.sn >= vr_r) => (x.sn < c.sn => x.n < c.n)
        /\ x.sn >= vr_r /\ c.sn < vr_r => x.n < c.n
    BY <2>2, WalkOrder DEF PlacingAt
  <2> QED
    BY <2>1, <2>2, <2>3, <2>4 DEF StopsAt, Follows
<1> QED
  BY <1>6, <1>7, <1>8 DEF Fits

\* The walk from the tail.
LEMMA AfterWrapFits ==
  ASSUME NEW k, NEW x, PlacingAt(k, x), x.sn < vr_r, receiver_buffer # <<>>,
         NEW i, i = PlaceAfterWrap(x), i # 0,
         ~\A c \in ToSet(receiver_buffer) : c.sn < vr_r /\ x.sn < c.sn,
         i <= Len(receiver_buffer) /\ receiver_buffer[i].sn = x.sn
           => ~(receiver_buffer[i].so < End(x))
  PROVE  Fits(receiver_buffer, i, x)
<1> DEFINE b == receiver_buffer
           Stop(c) == \/ c.sn >= vr_r \/ c.sn < x.sn
                      \/ c.sn = x.sn /\ (~c.rf \/ ~x.rf \/ c.so <= x.so)
           I == {j \in 1 .. Len(b) : Stop(b[j])}
           p == IF I # {} THEN Max(I) ELSE 0
           Below == /\ x.rf /\ b[p].rf /\ End(b[p]) <= x.so
                    /\ p < Len(b) /\ b[p + 1].sn = x.sn => End(x) <= b[p + 1].so
<1>1. b \in Seq(Element) /\ Len(b) \in Nat /\ Len(b) >= 1 /\ k \in Nat
  BY DEF PlacingAt, InWindow
<1>2. i = IF p = 0 THEN (IF b[1].sn = x.sn THEN 0 ELSE Len(b) + 1)
          ELSE IF b[p].sn # x.sn THEN p + 1
          ELSE IF Below THEN p + 1 ELSE 0
  BY DEF PlaceAfterWrap, SelectLastInSeq
<1>3. I # {} => Max(I) \in I /\ \A j \in I : j <= Max(I)
  BY <1>1, MaxOfIndices
<1>4. \A j \in 1 .. Len(b) : /\ Shaped(b[j]) /\ b[j].n \in k .. k + WindowSize - 1
                             /\ b[j].rf \in BOOLEAN /\ b[j].so \in Nat
  BY ShapeFacts DEF PlacingAt, InWindow
<1>5. Shaped(x) /\ x.rf \in BOOLEAN /\ x.so \in Nat /\ End(x) \in Nat /\ x.n \in Nat
  BY ShapeFacts DEF PlacingAt
<1>6. \A j \in 1 .. Len(b) :
        /\ b[j].sn \in Int /\ x.sn \in Int /\ vr_r \in Int
        /\ b[j].sn = x.sn <=> b[j].n = x.n
        /\ b[j].sn < vr_r => (b[j].sn < x.sn => b[j].n < x.n) /\ (x.sn < b[j].sn => x.n < b[j].n)
        /\ b[j].sn >= vr_r => b[j].n < x.n
  <2> TAKE j \in 1 .. Len(b)
  <2>1. PICK c : c = b[j] /\ Shaped(c) /\ c.n \in k .. k + WindowSize - 1
    BY <1>4
  <2>2. /\ c.sn \in Int /\ x.sn \in Int /\ vr_r \in Int
        /\ c.sn = x.sn <=> c.n = x.n
        /\ (c.sn >= vr_r <=> x.sn >= vr_r)
             => (c.sn < x.sn => c.n < x.n) /\ (x.sn < c.sn => x.n < c.n)
        /\ c.sn >= vr_r /\ x.sn < vr_r => c.n < x.n
    BY <2>1, WalkOrder DEF PlacingAt
  <2> QED
    BY <2>1, <2>2
<1>7. I # {}
  <2> SUFFICES ASSUME I = {} PROVE FALSE
    OBVIOUS
  <2>1. \A j \in 1 .. Len(b) : ~Stop(b[j])
    OBVIOUS
  <2>2. b[1].sn # x.sn /\ 1 \in 1 .. Len(b)
    <3>1. p = 0
      OBVIOUS
    <3> HIDE DEF p
    <3> QED
      BY <1>1, <1>2, <3>1
  <2>3. x.n < b[1].n
    BY <1>6, <2>1, <2>2
  <2>4. ASSUME NEW j \in 1 .. Len(b)
        PROVE  b[j].sn < vr_r /\ x.sn < b[j].sn
    <3>1. b[1].n <= b[j].n /\ b[1].n \in Nat /\ b[j].n \in Nat
      <4>1. CASE j = 1
        BY <1>4, <2>2, <4>1, ShapeFacts
      <4>2. CASE j # 1
        <5>1. Follows(b[1], b[j])
          BY <1>1, <2>2, <4>2, SortedThroughout DEF PlacingAt
        <5>2. b[1].n \in Nat /\ b[j].n \in Nat
          BY <1>4, <2>2, ShapeFacts
        <5> QED
          BY <5>1, <5>2 DEF Follows
      <4> QED
        BY <4>1, <4>2
    <3>2. x.n # b[j].n
      BY <1>5, <2>3, <3>1
    <3> QED
      BY <1>6, <2>1, <3>2
  <2>5. \A c \in ToSet(b) : \E j \in 1 .. Len(b) : c = b[j]
    BY <1>1 DEF ToSet
  <2> QED
    BY <2>4, <2>5
<1>8. p \in 1 .. Len(b) /\ Stop(b[p]) /\ \A j \in 1 .. Len(b) : p < j => ~Stop(b[j])
  <2>1. p = Max(I)
    BY <1>7
  <2> HIDE DEF p
  <2>2. p \in I /\ \A j \in I : j <= p
    BY <1>3, <1>7, <2>1
  <2>3. \A j \in 1 .. Len(b) : j \in I <=> Stop(b[j])
    OBVIOUS
  <2>4. I \subseteq 1 .. Len(b)
    OBVIOUS
  <2> HIDE DEF I, Stop
  <2> QED
    BY <1>1, <2>2, <2>3, <2>4
<1> HIDE DEF I, p
<1>9. i = p + 1 /\ (b[p].sn # x.sn \/ Below)
  BY <1>1, <1>2, <1>8
<1>10. Follows(b[p], x)
  BY <1>4, <1>5, <1>6, <1>8, <1>9 DEF Follows
<1>11. ASSUME i <= Len(b)
       PROVE  Follows(x, b[i])
  <2>1. i \in 1 .. Len(b) /\ p \in 1 .. Len(b) - 1 /\ ~Stop(b[i]) /\ p + 1 = i
    BY <1>1, <1>8, <1>9, <1>11
  <2>2. PICK c : c = b[i] /\ Shaped(c) /\ c.n \in k .. k + WindowSize - 1
                 /\ c.rf \in BOOLEAN /\ c.so \in Nat
    BY <1>4, <2>1
  <2>3. /\ c.sn \in Int /\ x.sn \in Int /\ vr_r \in Int
        /\ c.sn = x.sn <=> c.n = x.n
        /\ c.sn < vr_r => (x.sn < c.sn => x.n < c.n)
    BY <1>6, <2>1, <2>2
  <2>4. c.sn = x.sn => ~(c.so < End(x))
    BY <1>11, <2>2
  <2> QED
    BY <1>5, <2>1, <2>2, <2>3, <2>4 DEF Follows
<1>12. i \in 1 .. Len(b) + 1 /\ i - 1 = p
  BY <1>1, <1>8, <1>9
<1> QED
  BY <1>10, <1>11, <1>12 DEF Fits

\* A PDU in the window enters the list where it belongs.
LEMMA PlaceFits ==
  ASSUME NEW k, NEW x, PlacingAt(k, x), NEW i, i = Place(x), i # 0, ~Misplaced(x, i)
  PROVE  Fits(receiver_buffer, i, x)
<1>1. k \in Nat /\ Shaped(x) /\ x.n \in k .. k + WindowSize - 1 /\ vr_r = k % SnModulo
      /\ receiver_buffer \in Seq(Element)
  BY DEF PlacingAt, InWindow
<1>2. vr_r \in SN /\ vr_r \in Int /\ x.sn \in Int
      /\ (vr_r + WindowSize < SnModulo => x.sn >= vr_r)
  BY <1>1, WalkOrder
<1>3. InRxWindow(x.sn)
  <2>1. x.n \in Nat /\ k - WindowSize <= x.n /\ x.n <= k + WindowSize /\ ~(x.n < k)
        /\ x.n - k < WindowSize
    BY <1>1, RxFacts
  <2>2. Dist(vr_r, x.sn) = x.n - k
    <3>1. PICK n \in Nat : n = x.n
      BY <2>1
    <3>2. Dist(k % SnModulo, n % SnModulo) = n - k
      BY <1>1, <2>1, <3>1, DistOf
    <3>3. x.sn = n % SnModulo
      BY <1>1, <3>1, ShapeFacts
    <3> QED
      BY <1>1, <3>1, <3>2, <3>3
  <2> QED
    BY <2>1, <2>2 DEF InRxWindow
<1>4. CASE receiver_buffer = <<>>
  BY <1>4 DEF Place, Fits
<1>5. CASE receiver_buffer # <<>> /\ VrMr >= vr_r
  <2>1. i = PlaceUnwrapped(x)
    BY <1>5 DEF Place
  <2> QED
    BY <1>2, <1>5, <2>1, VrMrOf, UnwrappedFits
<1>6. CASE receiver_buffer # <<>> /\ ~(VrMr >= vr_r)
  <2>1. VrMr < vr_r
    <3>1. VrMr \in Int
      BY <1>2, RxFacts DEF VrMr, Plus
    <3> QED
      BY <1>2, <1>6, <3>1
  <2>2. /\ ~(x.sn < vr_r /\ \A c \in ToSet(receiver_buffer) : c.sn < vr_r /\ x.sn < c.sn)
        /\ i <= Len(receiver_buffer) /\ receiver_buffer[i].sn = x.sn
             => ~(receiver_buffer[i].so < End(x))
        /\ i > 1 /\ receiver_buffer[i - 1].sn = x.sn
             => ~(x.so < End(receiver_buffer[i - 1]))
    BY <1>3, <1>6, <2>1 DEF Misplaced
  <2>3. CASE x.sn >= vr_r
    <3>1. i = PlaceBeforeWrap(x)
      BY <1>6, <2>3 DEF Place
    <3> QED
      BY <2>2, <2>3, <3>1, BeforeWrapFits
  <2>4. CASE ~(x.sn >= vr_r)
    <3>1. i = PlaceAfterWrap(x) /\ x.sn < vr_r
      BY <1>2, <1>6, <2>4 DEF Place
    <3> QED
      BY <1>6, <2>2, <3>1, AfterWrapFits
  <2> QED
    BY <2>3, <2>4
<1> QED
  BY <1>4, <1>5, <1>6
-----------------------------------------------------------------------------
(* The list with the new element.                                           *)

LEMMA Inserted ==
  ASSUME NEW k \in Nat, NEW list, InWindow(list, k), NEW x \in Element,
         NEW i \in 1 .. Len(list) + 1, NEW L, L = InsertAt(list, i, x)
  PROVE  /\ L \in Seq(Element) /\ Len(list) \in Nat /\ Len(L) = Len(list) + 1
         /\ \A j \in 1 .. Len(L) :
              L[j] = IF j < i THEN list[j] ELSE IF j = i THEN x ELSE list[j - 1]
<1>1. list \in Seq(Element) /\ Len(list) \in Nat /\ i \in Nat /\ i - 1 \in 0 .. Len(list)
  BY DEF InWindow
<1> DEFINE A == SubSeq(list, 1, i - 1)
           B == SubSeq(list, i, Len(list))
<1>2. /\ A \in Seq(Element) /\ Len(A) = i - 1 /\ \A j \in 1 .. i - 1 : A[j] = list[j]
  BY <1>1, SubSeqProperties
<1>3. /\ B \in Seq(Element) /\ Len(B) = Len(list) - i + 1
      /\ \A j \in 1 .. Len(list) - i + 1 : B[j] = list[i + j - 1]
  BY <1>1, SubSeqProperties
<1>4. L = A \o <<x>> \o B
  BY DEF InsertAt
<1> HIDE DEF A, B
<1>5. /\ A \o <<x>> \in Seq(Element) /\ Len(A \o <<x>>) = i
      /\ \A j \in 1 .. i : (A \o <<x>>)[j] = IF j < i THEN list[j] ELSE x
  BY <1>1, <1>2
<1> DEFINE C == A \o <<x>>
<1> HIDE DEF C
<1>6. /\ C \in Seq(Element) /\ Len(C) = i
      /\ \A j \in 1 .. i : C[j] = IF j < i THEN list[j] ELSE x
  BY <1>5 DEF C
<1>7. L = C \o B
  BY <1>4 DEF C
<1>8. L \in Seq(Element) /\ Len(L) = Len(list) + 1
  <2>1. L \in Seq(Element) /\ Len(L) = Len(C) + Len(B)
    <3>1. B \in Seq(Element) /\ C \in Seq(Element)
      BY <1>3, <1>6
    <3> QED
      BY <1>7, <3>1, ConcatProperties
  <2> QED
    BY <1>1, <1>3, <1>6, <2>1
<1>9. ASSUME NEW j \in 1 .. Len(L)
      PROVE  L[j] = IF j < i THEN list[j] ELSE IF j = i THEN x ELSE list[j - 1]
  <2>1. CASE j <= i
    BY <1>1, <1>3, <1>6, <1>7, <1>8, <2>1
  <2>2. CASE j > i
    <3>1. L[j] = B[j - i] /\ j - i \in 1 .. Len(list) - i + 1
      BY <1>1, <1>3, <1>6, <1>7, <1>8, <2>2
    <3>2. i + (j - i) - 1 = j - 1
      BY <1>1
    <3> QED
      BY <1>1, <1>3, <2>2, <3>1, <3>2
  <2> QED
    BY <1>1, <2>1, <2>2
<1> QED
  BY <1>1, <1>8, <1>9

\* The elements about index j of the list with the new element.
LEMMA InsertedKeeps ==
  ASSUME NEW k \in Nat, NEW list, InWindow(list, k), Sorted(list), Complete(list),
         Wholes(list), NEW x, Shaped(x), x.n \in k .. k + WindowSize - 1, ~x.all,
         NEW i, Fits(list, i, x), NEW L, L = InsertAt(list, i, x)
  PROVE  /\ InWindow(L, k) /\ Sorted(L) /\ Complete(L) /\ i \in 1 .. Len(L) /\ L[i] = x
         /\ \A j \in 1 .. Len(L) : j # i /\ ~L[j].rf => L[j].all
         /\ i > 1 => list # <<>> /\ L[1] = list[1]
         /\ \A j \in 1 .. Len(L) : j # i => \E m \in 1 .. Len(list) : L[j] = list[m]
<1>1. i \in 1 .. Len(list) + 1 /\ x \in Element
  BY ShapeFacts DEF Fits
<1>2. /\ L \in Seq(Element) /\ Len(list) \in Nat /\ Len(L) = Len(list) + 1
      /\ \A j \in 1 .. Len(L) :
           L[j] = IF j < i THEN list[j] ELSE IF j = i THEN x ELSE list[j - 1]
  BY <1>1, Inserted
<1>3. i \in 1 .. Len(L) /\ L[i] = x
  BY <1>1, <1>2
<1>4. \A j \in 1 .. Len(L) : j # i => \E m \in 1 .. Len(list) : L[j] = list[m]
  <2> SUFFICES ASSUME NEW j \in 1 .. Len(L), j # i
               PROVE  \E m \in 1 .. Len(list) : L[j] = list[m]
    OBVIOUS
  <2>1. CASE j < i
    BY <1>1, <1>2, <2>1
  <2>2. CASE j > i
    <3>1. j - 1 \in 1 .. Len(list) /\ L[j] = list[j - 1]
      BY <1>1, <1>2, <2>2
    <3> QED
      BY <3>1
  <2> QED
    BY <1>1, <2>1, <2>2
<1>5. InWindow(L, k)
  <2>1. \A m \in 1 .. Len(list) : Shaped(list[m]) /\ list[m].n \in k .. k + WindowSize - 1
    BY DEF InWindow
  <2>2. \A j \in 1 .. Len(L) : Shaped(L[j]) /\ L[j].n \in k .. k + WindowSize - 1
    BY <1>3, <1>4, <2>1
  <2> QED
    BY <1>2, <2>2 DEF InWindow
<1>6. Sorted(L)
  <2> SUFFICES ASSUME NEW j \in 1 .. Len(L) - 1
               PROVE  Follows(L[j], L[j + 1])
    BY DEF Sorted
  <2>1. CASE j + 1 < i
    <3>1. L[j] = list[j] /\ L[j + 1] = list[j + 1] /\ j \in 1 .. Len(list) - 1
      BY <1>1, <1>2, <2>1
    <3> QED
      BY <3>1 DEF Sorted
  <2>2. CASE j + 1 = i
    <3>1. L[j] = list[j] /\ L[j + 1] = x /\ i > 1 /\ j = i - 1
      BY <1>1, <1>2, <2>2
    <3> QED
      BY <3>1 DEF Fits
  <2>3. CASE j = i
    <3>1. L[j] = x /\ L[j + 1] = list[j] /\ i <= Len(list)
      BY <1>1, <1>2, <2>3
    <3> QED
      BY <2>3, <3>1 DEF Fits
  <2>4. CASE j > i
    <3>1. L[j] = list[j - 1] /\ L[j + 1] = list[j] /\ j - 1 \in 1 .. Len(list) - 1
      BY <1>1, <1>2, <2>4
    <3>2. (j - 1) + 1 = j
      OBVIOUS
    <3> QED
      BY <3>1, <3>2 DEF Sorted
  <2> QED
    BY <1>1, <1>2, <2>1, <2>2, <2>3, <2>4
<1>7. \A j \in 1 .. Len(L) : j # i /\ ~L[j].rf => L[j].all
  BY <1>4 DEF Wholes
<1>8. i > 1 => list # <<>> /\ L[1] = list[1]
  BY <1>1, <1>2
<1>9. ASSUME i > 1, i <= Len(list), list[i].all, list[i].rf, list[i - 1].n = list[i].n
      PROVE  End(list[i - 1]) # list[i].so
  <2>1. Follows(list[i - 1], x) /\ Follows(x, list[i])
    BY <1>9 DEF Fits
  <2>2. i \in 1 .. Len(list) /\ i - 1 \in 1 .. Len(list)
    BY <1>1, <1>2, <1>9
  <2>3. PICK c, d : c = list[i - 1] /\ d = list[i] /\ Shaped(c) /\ Shaped(d)
    BY <2>2 DEF InWindow
  <2>4. /\ c.n \in Nat /\ d.n \in Nat /\ x.n \in Nat /\ End(c) \in Nat /\ End(x) \in Nat
        /\ x.so \in Nat /\ d.so \in Nat /\ x.so < End(x)
    BY <2>3, ShapeFacts
  <2> QED
    BY <1>9, <2>1, <2>3, <2>4 DEF Follows
<1> QED
  <2>1. ASSUME NEW j \in 1 .. Len(L), L[j].all, L[j].rf
        PROVE  /\ \/ L[j].so = 0
                  \/ j > 1 /\ L[j - 1].n = L[j].n /\ L[j - 1].all /\ End(L[j - 1]) = L[j].so
               /\ L[j].lsf \/ (j < Len(L) /\ L[j + 1].n = L[j].n /\ L[j + 1].all)
    <3>1. j # i
      BY <1>3, <2>1
    <3> DEFINE C(m) == /\ \/ list[m].so = 0
                          \/ m > 1 /\ list[m - 1].n = list[m].n /\ list[m - 1].all
                                   /\ End(list[m - 1]) = list[m].so
                       /\ \/ list[m].lsf
                          \/ m < Len(list) /\ list[m + 1].n = list[m].n /\ list[m + 1].all
    <3>2. \A m \in 1 .. Len(list) : list[m].all /\ list[m].rf => C(m)
      BY DEF Complete
    <3>3. ASSUME i > 1, i <= Len(list), list[i - 1].all, list[i - 1].rf
          PROVE  list[i - 1].lsf
      <4>1. i - 1 \in 1 .. Len(list) /\ (i - 1) + 1 = i /\ i \in 1 .. Len(list)
        BY <1>1, <1>2, <3>3
      <4>2. C(i - 1)
        BY <3>2, <3>3, <4>1
      <4>3. list[i - 1].lsf \/ (list[i].n = list[i - 1].n /\ list[i].all)
        BY <4>1, <4>2
      <4> SUFFICES ASSUME list[i].n = list[i - 1].n, list[i].all PROVE FALSE
        BY <4>3
      <4>4. Follows(list[i - 1], list[i])
        BY <4>1, <1>2 DEF Sorted
      <4>5. PICK c, d : c = list[i - 1] /\ d = list[i] /\ Shaped(c) /\ Shaped(d)
        BY <4>1 DEF InWindow
      <4>6. c.n \in Nat /\ End(c) \in Nat /\ d.so \in Nat /\ c.so \in Nat /\ c.so < End(c)
        BY <4>5, ShapeFacts
      <4>7. d.rf /\ d.so # 0
        BY <4>4, <4>5, <4>6 DEF Follows
      <4>8. C(i)
        BY <3>2, <4>1, <4>5, <4>7
      <4>9. End(list[i - 1]) = list[i].so
        BY <4>5, <4>7, <4>8
      <4> QED
        BY <1>9, <3>3, <4>5, <4>7, <4>9
    <3>4. CASE j < i
      <4>1. L[j] = list[j] /\ j \in 1 .. Len(list) /\ (j > 1 => L[j - 1] = list[j - 1])
            /\ j < Len(L) /\ (j + 1 < i => L[j + 1] = list[j + 1])
        BY <1>1, <1>2, <3>4
      <4>2. C(j)
        BY <2>1, <3>2, <4>1
      <4>3. j + 1 = i => L[j].lsf \/ j = Len(list)
        BY <1>1, <1>2, <2>1, <3>3, <4>1
      <4> QED
        BY <1>1, <1>2, <3>4, <4>1, <4>2, <4>3
    <3>5. CASE j > i
      <4>1. PICK m \in 1 .. Len(list) : m = j - 1
        BY <1>1, <1>2, <3>5
      <4>2. /\ L[j] = list[m] /\ (j - 1 # i => L[j - 1] = list[m - 1]) /\ j > 1
            /\ j < Len(L) => L[j + 1] = list[m + 1]
            /\ m < Len(list) <=> j < Len(L)
        BY <1>1, <1>2, <3>5, <4>1
      <4>3. C(m)
        BY <2>1, <3>2, <4>1, <4>2
      <4>4. j - 1 = i => list[m].so = 0
        BY <1>9, <2>1, <4>1, <4>2, <4>3
      <4> QED
        BY <4>1, <4>2, <4>3, <4>4
    <3> QED
      BY <1>1, <3>1, <3>4, <3>5
  <2>2. Complete(L)
    BY <2>1 DEF Complete
  <2> QED
    BY <1>3, <1>4, <1>5, <1>6, <1>7, <1>8, <2>2
-----------------------------------------------------------------------------
(* rlc_am_rx_mark_all_segments_received                                     *)

\* d is c, perhaps marked.
MarkOf(c, d) ==
  /\ Shaped(d) /\ d.n = c.n /\ d.sn = c.sn /\ d.so = c.so /\ End(d) = End(c)
  /\ d.rf = c.rf /\ d.lsf = c.lsf /\ (c.all => d.all)

LEMMA MarkedElement ==
  ASSUME NEW c, Shaped(c), NEW d, d = [c EXCEPT !.all = TRUE]
  PROVE  MarkOf(c, d) /\ d.all
<1>1. c \in Element
  BY ShapeFacts
<1>2. /\ d \in Element /\ d.n = c.n /\ d.sn = c.sn /\ d.so = c.so /\ d.size = c.size
      /\ d.rf = c.rf /\ d.lsf = c.lsf /\ d.all
  BY <1>1 DEF Element
<1>3. End(d) = End(c)
  BY <1>2 DEF End
<1> QED
  BY <1>2, <1>3 DEF Shaped, MarkOf

LEMMA UnmarkedElement ==
  ASSUME NEW c, Shaped(c)
  PROVE  MarkOf(c, c)
BY DEF MarkOf

\* Marking keeps what the list is like otherwise.
LEMMA MarksKeep ==
  ASSUME NEW k \in Nat, NEW L, InWindow(L, k), Sorted(L), NEW R \in Seq(Element),
         Len(R) = Len(L), \A j \in 1 .. Len(L) : MarkOf(L[j], R[j])
  PROVE  InWindow(R, k) /\ Sorted(R)
<1>1. Len(L) \in Nat
  BY DEF InWindow
<1>2. \A j \in 1 .. Len(L) : Shaped(R[j]) /\ R[j].n \in k .. k + WindowSize - 1
  BY DEF MarkOf, InWindow
<1>3. ASSUME NEW j \in 1 .. Len(L) - 1
      PROVE  Follows(R[j], R[j + 1])
  <2>1. j \in 1 .. Len(L) /\ j + 1 \in 1 .. Len(L)
    BY <1>1
  <2> QED
    BY <2>1 DEF Sorted, Follows, MarkOf
<1> QED
  BY <1>2, <1>3 DEF InWindow, Sorted

\* The first and the last of the neighbours of element i with its SN.
FirstOf(L, i) == Max({j \in 1 .. i : j = 1 \/ L[j - 1].sn # L[i].sn})
LastOf(L, i) == Min({j \in i .. Len(L) : j = Len(L) \/ L[j + 1].sn # L[i].sn})

\* They are the elements of its PDU.
LEMMA SegmentsOf ==
  ASSUME NEW k \in Nat, NEW L, InWindow(L, k), Sorted(L), NEW i \in 1 .. Len(L),
         NEW lo, lo = FirstOf(L, i), NEW hi, hi = LastOf(L, i)
  PROVE  /\ lo \in 1 .. i /\ hi \in i .. Len(L)
         /\ \A j \in 1 .. Len(L) : j \in lo .. hi <=> L[j].n = L[i].n
<1>1. Len(L) \in Nat /\ i \in Nat
  BY DEF InWindow
<1> DEFINE A == {j \in 1 .. i : j = 1 \/ L[j - 1].sn # L[i].sn}
           B == {j \in i .. Len(L) : j = Len(L) \/ L[j + 1].sn # L[i].sn}
<1>2. lo \in A /\ \A j \in A : j <= lo
  <2>1. 1 \in A /\ A \subseteq 1 .. i /\ lo = Max(A)
    BY <1>1 DEF FirstOf
  <2> HIDE DEF A
  <2> QED
    BY <1>1, <2>1, MaxOfIndices
<1>3. hi \in B /\ \A j \in B : hi <= j
  <2>1. Len(L) \in B /\ B \subseteq Int /\ hi = Min(B) /\ \A j \in B : i <= j
    BY <1>1 DEF LastOf
  <2>2. B # {} /\ i \in Int
    BY <1>1, <2>1
  <2> HIDE DEF B
  <2>3. Min(B) \in B /\ \A j \in B : Min(B) <= j
    BY <2>1, <2>2, MinIsLeast
  <2> QED
    BY <2>1, <2>3
<1>4. lo \in 1 .. i /\ hi \in i .. Len(L)
  BY <1>2, <1>3
<1> HIDE DEF A, B
<1>5. \A j \in 1 .. Len(L) : /\ L[j].n \in Nat /\ L[j].sn = L[j].n % SnModulo
                             /\ L[j].n \in k .. k + WindowSize - 1
  BY ShapeFacts DEF InWindow
<1>6. \A j \in 1 .. Len(L) : L[j].sn = L[i].sn <=> L[j].n = L[i].n
  <2> TAKE j \in 1 .. Len(L)
  <2>1. PICK n \in Nat, m \in Nat : n = L[j].n /\ m = L[i].n
    BY <1>5
  <2>2. n <= m + WindowSize /\ m <= n + WindowSize
    BY <1>5, <2>1, RxFacts
  <2>3. n % SnModulo = m % SnModulo => n = m
    BY <2>2, SameSn
  <2> QED
    BY <1>5, <2>1, <2>3
<1>7. \A p, q \in 1 .. Len(L) : p <= q => L[p].n <= L[q].n
  <2> SUFFICES ASSUME NEW p \in 1 .. Len(L), NEW q \in 1 .. Len(L), p <= q
               PROVE  L[p].n <= L[q].n
    OBVIOUS
  <2>1. CASE p = q
    BY <1>5, <2>1
  <2>2. CASE p < q
    <3>1. Follows(L[p], L[q])
      BY <2>2, SortedThroughout
    <3> QED
      BY <1>5, <3>1 DEF Follows
  <2> QED
    BY <1>1, <2>1, <2>2
<1>8. ASSUME NEW j \in 1 .. Len(L), j \in lo .. hi
      PROVE  L[j].n = L[i].n
  <2>1. CASE j = i
    BY <2>1
  <2>2. CASE j < i
    <3>1. j + 1 \in 1 .. i /\ j + 1 \notin A
      BY <1>1, <1>2, <1>4, <1>8, <2>2
    <3>2. L[(j + 1) - 1].sn = L[i].sn /\ (j + 1) - 1 = j
      BY <1>1, <3>1 DEF A
    <3> QED
      BY <1>6, <3>2
  <2>3. CASE j > i
    <3>1. j - 1 \in i .. Len(L) /\ j - 1 \notin B
      BY <1>1, <1>3, <1>4, <1>8, <2>3
    <3>2. L[(j - 1) + 1].sn = L[i].sn /\ (j - 1) + 1 = j
      BY <1>1, <3>1 DEF B
    <3> QED
      BY <1>6, <3>2
  <2> QED
    BY <1>1, <2>1, <2>2, <2>3
<1>9. ASSUME NEW j \in 1 .. Len(L), j \notin lo .. hi
      PROVE  L[j].n # L[i].n
  <2>1. CASE j < lo
    <3>1. lo - 1 \in 1 .. Len(L) /\ L[lo - 1].sn # L[i].sn /\ j <= lo - 1 /\ lo - 1 <= i
      BY <1>1, <1>2, <1>4, <2>1 DEF A
    <3>2. PICK p \in 1 .. Len(L) : p = lo - 1
      BY <3>1
    <3>3. L[p].n # L[i].n /\ L[j].n <= L[p].n /\ L[p].n <= L[i].n
      BY <1>6, <1>7, <3>1, <3>2
    <3> QED
      BY <1>5, <3>3
  <2>2. CASE j > hi
    <3>1. hi + 1 \in 1 .. Len(L) /\ L[hi + 1].sn # L[i].sn /\ hi + 1 <= j /\ i <= hi + 1
      BY <1>1, <1>3, <1>4, <2>2 DEF B
    <3>2. PICK p \in 1 .. Len(L) : p = hi + 1
      BY <3>1
    <3>3. L[p].n # L[i].n /\ L[p].n <= L[j].n /\ L[i].n <= L[p].n
      BY <1>6, <1>7, <3>1, <3>2
    <3> QED
      BY <1>5, <3>3
  <2> QED
    BY <1>1, <1>4, <1>9, <2>1, <2>2
<1> QED
  BY <1>4, <1>8, <1>9

\* The new element, and with it the segments of its PDU, are marked when all of the
\* PDU is there.
LEMMA MarkedKeeps ==
  ASSUME NEW k \in Nat, NEW L, InWindow(L, k), Sorted(L), Complete(L),
         NEW i \in 1 .. Len(L), ~L[i].all,
         \A j \in 1 .. Len(L) : j # i /\ ~L[j].rf => L[j].all,
         NEW R, R = Marked(L, i)
  PROVE  /\ Len(R) = Len(L) /\ InWindow(R, k) /\ Sorted(R) /\ Complete(R) /\ Wholes(R)
         /\ \A j \in 1 .. Len(L) : MarkOf(L[j], R[j])
         /\ R[i].all => \A j \in 1 .. Len(L) : L[j].n = L[i].n => R[j].all
         /\ \A j \in 1 .. Len(L) : R[j].all => L[j].all \/ (L[j].n = L[i].n /\ R[i].all)
<1> DEFINE lo == FirstOf(L, i)
           hi == LastOf(L, i)
<1>1. /\ lo \in 1 .. i /\ hi \in i .. Len(L)
      /\ \A j \in 1 .. Len(L) : j \in lo .. hi <=> L[j].n = L[i].n
  BY SegmentsOf
<1>2. R = IF ~L[i].rf THEN [L EXCEPT ![i].all = TRUE]
          ELSE IF AllSegments(L, lo, hi)
               THEN [j \in DOMAIN L |-> IF j \in lo .. hi THEN [L[j] EXCEPT !.all = TRUE]
                                                         ELSE L[j]]
          ELSE L
  BY DEF Marked, FirstOf, LastOf
<1> HIDE DEF lo, hi
<1>3. L \in Seq(Element) /\ Len(L) \in Nat /\ DOMAIN L = 1 .. Len(L) /\ i \in Nat
  BY DEF InWindow
<1>4. \A j \in 1 .. Len(L) : Shaped(L[j]) /\ L[j].rf \in BOOLEAN /\ L[j].all \in BOOLEAN
  BY ShapeFacts DEF InWindow
<1>5. \A j \in 1 .. Len(L) : [L[j] EXCEPT !.all = TRUE] \in Element
  <2> TAKE j \in 1 .. Len(L)
  <2>1. L[j] \in Element
    BY <1>4, ShapeFacts
  <2> QED
    BY <2>1 DEF Element
<1>6. CASE ~L[i].rf
  <2>1. /\ R \in Seq(Element) /\ Len(R) = Len(L) /\ R[i] = [L[i] EXCEPT !.all = TRUE]
        /\ \A j \in 1 .. Len(L) : j # i => R[j] = L[j]
    BY <1>2, <1>3, <1>5, <1>6
  <2>2. \A j \in 1 .. Len(L) : MarkOf(L[j], R[j])
    BY <1>4, <2>1, MarkedElement, UnmarkedElement
  <2>3. InWindow(R, k) /\ Sorted(R)
    BY <2>1, <2>2, MarksKeep
  <2>4. R[i].all /\ ~R[i].rf
    BY <1>4, <1>6, <2>1, MarkedElement DEF MarkOf
  <2>5. \A j \in 1 .. Len(L) : j # i => L[j].n # L[i].n
    <3> SUFFICES ASSUME NEW j \in 1 .. Len(L), j # i, L[j].n = L[i].n
                 PROVE  FALSE
      OBVIOUS
    <3>1. CASE j < i
      <4>1. Follows(L[j], L[i]) /\ L[i].n \in Nat
        BY <1>4, <3>1, SortedThroughout, ShapeFacts
      <4> QED
        BY <1>6, <4>1 DEF Follows
    <3>2. CASE i < j
      <4>1. Follows(L[i], L[j]) /\ L[i].n \in Nat
        BY <1>4, <3>2, SortedThroughout, ShapeFacts
      <4> QED
        BY <1>6, <4>1 DEF Follows
    <3> QED
      BY <1>3, <3>1, <3>2
  <2>6. Wholes(R)
    BY <1>3, <2>1, <2>4 DEF Wholes
  <2>7. Complete(R)
    <3> SUFFICES ASSUME NEW j \in 1 .. Len(L), R[j].all, R[j].rf
                 PROVE  /\ \/ R[j].so = 0
                           \/ /\ j > 1 /\ R[j - 1].n = R[j].n /\ R[j - 1].all
                              /\ End(R[j - 1]) = R[j].so
                        /\ R[j].lsf \/ (j < Len(R) /\ R[j + 1].n = R[j].n /\ R[j + 1].all)
      BY <2>1 DEF Complete
    <3>1. j # i /\ R[j] = L[j]
      BY <2>1, <2>4
    <3>2. /\ \/ L[j].so = 0
             \/ j > 1 /\ L[j - 1].n = L[j].n /\ L[j - 1].all /\ End(L[j - 1]) = L[j].so
          /\ L[j].lsf \/ (j < Len(L) /\ L[j + 1].n = L[j].n /\ L[j + 1].all)
      BY <3>1 DEF Complete
    <3>3. j > 1 => /\ R[j - 1].n = L[j - 1].n /\ (L[j - 1].all => R[j - 1].all)
                   /\ End(R[j - 1]) = End(L[j - 1])
      BY <1>3, <2>2 DEF MarkOf
    <3>4. j < Len(L) => R[j + 1].n = L[j + 1].n /\ (L[j + 1].all => R[j + 1].all)
      BY <1>3, <2>2 DEF MarkOf
    <3> QED
      BY <2>1, <3>1, <3>2, <3>3, <3>4
  <2> QED
    BY <2>1, <2>2, <2>3, <2>4, <2>5, <2>6, <2>7
<1>7. CASE L[i].rf /\ ~AllSegments(L, lo, hi)
  <2>1. R = L
    BY <1>2, <1>7
  <2>2. \A j \in 1 .. Len(L) : MarkOf(L[j], R[j])
    BY <1>4, <2>1, UnmarkedElement
  <2>3. Wholes(R)
    BY <1>7, <2>1 DEF Wholes
  <2> QED
    BY <2>1, <2>2, <2>3
<1>8. CASE L[i].rf /\ AllSegments(L, lo, hi)
  <2>1. /\ R \in Seq(Element) /\ Len(R) = Len(L)
        /\ \A j \in 1 .. Len(L) : j \in lo .. hi => R[j] = [L[j] EXCEPT !.all = TRUE]
        /\ \A j \in 1 .. Len(L) : j \notin lo .. hi => R[j] = L[j]
    <3>1. R = [j \in 1 .. Len(L) |-> IF j \in lo .. hi THEN [L[j] EXCEPT !.all = TRUE]
                                                      ELSE L[j]]
      BY <1>2, <1>3, <1>8
    <3>2. \A j \in 1 .. Len(L) : R[j] \in Element
      BY <1>3, <1>5, <3>1
    <3> QED
      BY <1>3, <3>1, <3>2
  <2>2. \A j \in 1 .. Len(L) : MarkOf(L[j], R[j])
    BY <1>4, <2>1, MarkedElement, UnmarkedElement
  <2>3. InWindow(R, k) /\ Sorted(R)
    BY <2>1, <2>2, MarksKeep
  <2>4. \A j \in 1 .. Len(L) : j \in lo .. hi => R[j].all
    BY <1>4, <2>1, MarkedElement
  <2>5. R[i].all
    BY <1>1, <1>3, <2>4
  <2>6. Wholes(R)
    BY <1>8, <2>1, <2>2 DEF Wholes, MarkOf
  <2>7. Complete(R)
    <3>1. PICK h \in lo + 1 .. hi :
            L[h].lsf /\ \A j \in lo + 1 .. h : L[j].rf /\ L[j].so <= End(L[j - 1])
      BY <1>8 DEF AllSegments
    <3>2. h = hi /\ h \in 1 .. Len(L)
      <4>1. h \in 1 .. Len(L) /\ h \in Nat
        BY <1>1, <1>3
      <4> SUFFICES ASSUME h # hi PROVE FALSE
        BY <4>1
      <4>2. h + 1 \in lo .. hi /\ h \in lo .. hi /\ h + 1 \in 1 .. Len(L) /\ h \in 1 .. Len(L) - 1
        BY <1>1, <1>3, <4>1
      <4>3. L[h].n = L[i].n /\ L[h + 1].n = L[i].n /\ Follows(L[h], L[h + 1])
        BY <1>1, <4>1, <4>2 DEF Sorted
      <4>4. h \in lo + 1 .. h
        BY <1>1
      <4>5. L[h].rf
        BY <3>1, <4>4
      <4>6. PICK c, d : c = L[h] /\ d = L[h + 1] /\ Shaped(c) /\ Shaped(d)
        BY <1>4, <4>1, <4>2
      <4>7. /\ End(c) = PduSize /\ d.so \in Nat /\ d.so < End(d) /\ End(d) <= PduSize
            /\ End(d) \in Nat /\ c.n \in Nat
        BY <3>1, <4>5, <4>6, ShapeFacts
      <4> QED
        BY <4>3, <4>6, <4>7, RxFacts DEF Follows
    <3> SUFFICES ASSUME NEW j \in 1 .. Len(L), R[j].all, R[j].rf
                 PROVE  /\ \/ R[j].so = 0
                           \/ /\ j > 1 /\ R[j - 1].n = R[j].n /\ R[j - 1].all
                              /\ End(R[j - 1]) = R[j].so
                        /\ R[j].lsf \/ (j < Len(R) /\ R[j + 1].n = R[j].n /\ R[j + 1].all)
      BY <2>1 DEF Complete
    <3>3. R[j].so = L[j].so /\ R[j].n = L[j].n /\ R[j].lsf = L[j].lsf /\ R[j].rf = L[j].rf
      BY <2>2 DEF MarkOf
    <3>4. j > 1 => /\ R[j - 1].n = L[j - 1].n /\ (L[j - 1].all => R[j - 1].all)
                   /\ End(R[j - 1]) = End(L[j - 1])
      BY <1>3, <2>2 DEF MarkOf
    <3>5. j < Len(L) => R[j + 1].n = L[j + 1].n /\ (L[j + 1].all => R[j + 1].all)
      BY <1>3, <2>2 DEF MarkOf
    <3>6. CASE j \notin lo .. hi
      <4>1. L[j].all /\ L[j].rf
        BY <2>1, <3>6
      <4>2. /\ \/ L[j].so = 0
               \/ j > 1 /\ L[j - 1].n = L[j].n /\ L[j - 1].all /\ End(L[j - 1]) = L[j].so
            /\ L[j].lsf \/ (j < Len(L) /\ L[j + 1].n = L[j].n /\ L[j + 1].all)
        BY <4>1 DEF Complete
      <4> QED
        BY <2>1, <3>3, <3>4, <3>5, <4>2
    <3>7. CASE j \in lo .. hi
      <4>1. j = lo => L[j].so = 0
        BY <1>8 DEF AllSegments
      <4>2. j # lo => j > 1 /\ R[j - 1].n = R[j].n /\ R[j - 1].all /\ End(R[j - 1]) = R[j].so
        <5> SUFFICES ASSUME j # lo
                     PROVE  j > 1 /\ R[j - 1].n = R[j].n /\ R[j - 1].all /\ End(R[j - 1]) = R[j].so
          OBVIOUS
        <5>1. /\ j > 1 /\ j - 1 \in lo .. hi /\ j - 1 \in 1 .. Len(L) /\ j \in lo + 1 .. h
              /\ j - 1 \in 1 .. Len(L) - 1 /\ (j - 1) + 1 = j
          BY <1>1, <1>3, <3>2, <3>7
        <5>2. L[j - 1].n = L[i].n /\ L[j].n = L[i].n /\ L[j].so <= End(L[j - 1])
          BY <1>1, <3>1, <3>7, <5>1
        <5>3. Follows(L[j - 1], L[j])
          BY <5>1 DEF Sorted
        <5>4. PICK c, d : c = L[j - 1] /\ d = L[j] /\ Shaped(c) /\ Shaped(d)
          BY <1>4, <5>1
        <5>5. c.n \in Nat /\ End(c) \in Nat /\ d.so \in Nat
          BY <5>4, ShapeFacts
        <5>6. End(L[j - 1]) = L[j].so
          BY <5>2, <5>3, <5>4, <5>5 DEF Follows
        <5> QED
          BY <2>4, <3>3, <3>4, <5>1, <5>2, <5>6
      <4>3. j = hi => R[j].lsf
        BY <3>1, <3>2, <3>3
      <4>4. j # hi => j < Len(R) /\ R[j + 1].n = R[j].n /\ R[j + 1].all
        <5> SUFFICES ASSUME j # hi
                     PROVE  j < Len(R) /\ R[j + 1].n = R[j].n /\ R[j + 1].all
          OBVIOUS
        <5>1. j < Len(L) /\ j + 1 \in lo .. hi /\ j + 1 \in 1 .. Len(L)
          BY <1>1, <1>3, <3>7
        <5>2. L[j + 1].n = L[i].n /\ L[j].n = L[i].n
          BY <1>1, <3>7, <5>1
        <5> QED
          BY <2>1, <2>4, <3>3, <3>5, <5>1, <5>2
      <4> QED
        BY <3>3, <4>1, <4>2, <4>3, <4>4
    <3> QED
      BY <3>6, <3>7
  <2>8. \A j \in 1 .. Len(L) : R[j].all => L[j].all \/ (L[j].n = L[i].n /\ R[i].all)
    BY <1>1, <2>1, <2>5
  <2>9. \A j \in 1 .. Len(L) : L[j].n = L[i].n => R[j].all
    BY <1>1, <2>4
  <2> QED
    BY <2>1, <2>2, <2>3, <2>6, <2>7, <2>8, <2>9
<1> QED
  BY <1>6, <1>7, <1>8
-----------------------------------------------------------------------------
(* rlc_am_rx_list_reassemble_rlc_sdus                                       *)

LEMMA NextSn ==
  ASSUME NEW k \in Nat, NEW c, NEW d, Shaped(c), Shaped(d),
         c.n \in k .. k + WindowSize - 1, d.n \in k .. k + WindowSize - 1
  PROVE  /\ d.sn = c.sn <=> d.n = c.n
         /\ d.sn = Plus(c.sn, 1) <=> d.n = c.n + 1
<1>1. PICK n \in Nat, m \in Nat : n = c.n /\ m = d.n
  BY ShapeFacts
<1>2. /\ m <= n + WindowSize /\ n <= m + WindowSize /\ n + 1 \in Nat
      /\ m <= (n + 1) + WindowSize /\ n + 1 <= m + WindowSize
  BY <1>1, RxFacts
<1>3. m % SnModulo = n % SnModulo => m = n
  BY <1>2, SameSn
<1>4. m % SnModulo = (n + 1) % SnModulo => m = n + 1
  <2>1. PICK y \in Nat : y = n + 1
    BY <1>2
  <2>2. m % SnModulo = y % SnModulo => m = y
    BY <1>2, <2>1, SameSn
  <2> QED
    BY <2>1, <2>2
<1>5. c.sn = n % SnModulo /\ d.sn = m % SnModulo
  BY <1>1, ShapeFacts
<1>6. Plus(c.sn, 1) = (n + 1) % SnModulo
  BY <1>5, PlusOf
<1> QED
  BY <1>1, <1>3, <1>4, <1>5, <1>6

\* Element c, of a complete PDU, is its last part.
Closes(c) == ~(c.rf /\ ~c.lsf)

\* The first t elements are marked and have no gap, and so do no more of them.
LongestRun(R, t) ==
  /\ t \in 0 .. Len(R)
  /\ \A j \in 1 .. t : R[j].all
  /\ \A j \in 1 .. t - 1 : R[j + 1].n = R[j].n \/ R[j + 1].n = R[j].n + 1
  /\ t >= 1 /\ t < Len(R) /\ R[t + 1].all
       => R[t + 1].n # R[t].n /\ R[t + 1].n # R[t].n + 1
  /\ Len(R) >= 1 /\ R[1].all => t >= 1

\* The elements that leave the list are the longest run from its head.
LEMMA TakenRun ==
  ASSUME NEW k \in Nat, NEW R, InWindow(R, k), Sorted(R), NEW t, t = Reassembled(R)
  PROVE  LongestRun(R, t)
<1> DEFINE Link(j) == R[j].all /\ (j > 1 => R[j].sn \in {R[j - 1].sn, Plus(R[j - 1].sn, 1)})
           K == {h \in 0 .. Len(R) : \A j \in 1 .. h : Link(j)}
<1>1. Len(R) \in Nat
  BY DEF InWindow
<1>2. t \in K /\ \A h \in K : h <= t
  <2>1. 0 \in K /\ K \subseteq Int /\ Len(R) \in Int /\ \A h \in K : h <= Len(R)
    BY <1>1
  <2>2. t = Max(K)
    BY DEF Reassembled
  <2> HIDE DEF K
  <2>3. Max(K) \in K /\ \A h \in K : h <= Max(K)
    <3>1. K # {}
      BY <2>1
    <3> QED
      BY <2>1, <3>1, MaxIsGreatest
  <2> QED
    BY <2>2, <2>3
<1>3. t \in 0 .. Len(R) /\ \A j \in 1 .. t : Link(j)
  BY <1>2
<1>4. t < Len(R) => ~Link(t + 1)
  <2> SUFFICES ASSUME t < Len(R), Link(t + 1) PROVE FALSE
    OBVIOUS
  <2>1. t + 1 \in 0 .. Len(R) /\ \A j \in 1 .. t + 1 : j \in 1 .. t \/ j = t + 1
    BY <1>1, <1>3
  <2> HIDE DEF Link
  <2>2. t + 1 \in K
    BY <1>3, <2>1
  <2> QED
    BY <1>1, <1>2, <1>3, <2>2
<1> HIDE DEF K
<1>5. \A j \in 1 .. Len(R) - 1 :
        R[j + 1].sn \in {R[j].sn, Plus(R[j].sn, 1)}
          <=> (R[j + 1].n = R[j].n \/ R[j + 1].n = R[j].n + 1)
  <2> TAKE j \in 1 .. Len(R) - 1
  <2>1. PICK c, d : /\ c = R[j] /\ d = R[j + 1] /\ Shaped(c) /\ Shaped(d)
                    /\ c.n \in k .. k + WindowSize - 1 /\ d.n \in k .. k + WindowSize - 1
    <3>1. j \in 1 .. Len(R) /\ j + 1 \in 1 .. Len(R)
      BY <1>1
    <3> QED
      BY <3>1 DEF InWindow
  <2>2. /\ d.sn = c.sn <=> d.n = c.n
        /\ d.sn = Plus(c.sn, 1) <=> d.n = c.n + 1
    BY <2>1, NextSn
  <2> QED
    BY <2>1, <2>2
<1>6. ASSUME NEW j \in 1 .. t - 1
      PROVE  R[j + 1].n = R[j].n \/ R[j + 1].n = R[j].n + 1
  <2>1. j + 1 \in 1 .. t /\ j + 1 > 1 /\ (j + 1) - 1 = j /\ j \in 1 .. Len(R) - 1
    BY <1>1, <1>3
  <2>2. Link(j + 1)
    BY <1>3, <2>1
  <2>3. R[j + 1].sn \in {R[j].sn, Plus(R[j].sn, 1)}
    BY <2>1, <2>2
  <2> QED
    BY <1>5, <2>1, <2>3
<1>7. ASSUME t >= 1, t < Len(R), R[t + 1].all
      PROVE  R[t + 1].n # R[t].n /\ R[t + 1].n # R[t].n + 1
  <2>1. t + 1 > 1 /\ (t + 1) - 1 = t /\ t \in 1 .. Len(R) - 1
    BY <1>1, <1>3, <1>7
  <2>2. R[t + 1].sn \notin {R[t].sn, Plus(R[t].sn, 1)}
    BY <1>4, <1>7, <2>1
  <2> QED
    BY <1>5, <2>1, <2>2
<1>8. Len(R) >= 1 /\ R[1].all => t >= 1
  <2> SUFFICES ASSUME Len(R) >= 1, R[1].all, t = 0 PROVE FALSE
    BY <1>3
  <2>1. ~Link(1)
    BY <1>4
  <2> QED
    BY <2>1
<1> QED
  BY <1>3, <1>6, <1>7, <1>8 DEF LongestRun

\* The run is a run of whole PDUs, byte after byte.
LEMMA TakenWhole ==
  ASSUME NEW k \in Nat, NEW R, InWindow(R, k), Sorted(R), Complete(R), Wholes(R),
         NEW t, t = Reassembled(R), t >= 1
  PROVE  /\ t \in 1 .. Len(R) /\ R[1].so = 0
         /\ \A j \in 1 .. t - 1 :
              IF Closes(R[j]) THEN /\ R[j + 1].n = R[j].n + 1 /\ R[j + 1].so = 0
                                   /\ End(R[j]) = PduSize
              ELSE R[j + 1].n = R[j].n /\ R[j + 1].so = End(R[j])
         /\ Closes(R[t]) /\ End(R[t]) = PduSize
         /\ t < Len(R) => R[t].n < R[t + 1].n /\ ~(R[t + 1].all /\ R[t + 1].n = R[t].n + 1)
<1>1. /\ t \in 0 .. Len(R) /\ Len(R) \in Nat
      /\ \A j \in 1 .. t : R[j].all
      /\ \A j \in 1 .. t - 1 : R[j + 1].n = R[j].n \/ R[j + 1].n = R[j].n + 1
      /\ t < Len(R) /\ R[t + 1].all => R[t + 1].n # R[t].n /\ R[t + 1].n # R[t].n + 1
  <2>1. Len(R) \in Nat
    BY DEF InWindow
  <2>2. LongestRun(R, t)
    BY TakenRun
  <2> QED
    BY <2>1, <2>2 DEF LongestRun
<1>2. t \in 1 .. Len(R)
  BY <1>1
<1>3. \A j \in 1 .. Len(R) :
        /\ R[j].n \in Nat /\ R[j].so \in Nat /\ End(R[j]) \in Nat /\ R[j].so < End(R[j])
        /\ End(R[j]) <= PduSize /\ R[j].rf \in BOOLEAN /\ R[j].lsf \in BOOLEAN
        /\ ~R[j].rf => R[j].so = 0 /\ End(R[j]) = PduSize
        /\ R[j].rf => (R[j].lsf <=> End(R[j]) = PduSize)
  BY ShapeFacts DEF InWindow
<1>4. \A j \in 1 .. Len(R) : Closes(R[j]) <=> End(R[j]) = PduSize
  BY <1>3 DEF Closes
<1>5. \A j \in 1 .. Len(R) - 1 : Follows(R[j], R[j + 1]) /\ j \in 1 .. Len(R) /\ j + 1 \in 1 .. Len(R)
  BY <1>1 DEF Sorted
<1>6. \A j \in 1 .. Len(R) - 1 : R[j].n = R[j + 1].n =>
        R[j].rf /\ R[j + 1].rf /\ End(R[j]) <= R[j + 1].so /\ ~Closes(R[j]) /\ R[j + 1].so # 0
  <2> TAKE j \in 1 .. Len(R) - 1
  <2> HAVE R[j].n = R[j + 1].n
  <2>1. R[j].rf /\ R[j + 1].rf /\ End(R[j]) <= R[j + 1].so
    BY <1>3, <1>5 DEF Follows
  <2>2. /\ R[j].so < End(R[j]) /\ R[j + 1].so < End(R[j + 1]) /\ End(R[j + 1]) <= PduSize
        /\ End(R[j]) \in Nat /\ R[j].so \in Nat /\ R[j + 1].so \in Nat /\ End(R[j + 1]) \in Nat
    BY <1>3, <1>5
  <2>3. End(R[j]) # PduSize /\ R[j + 1].so # 0
    BY <2>1, <2>2, RxFacts
  <2> QED
    BY <1>4, <1>5, <2>1, <2>3
<1>7. \A j \in 1 .. Len(R) : R[j].all /\ R[j].rf =>
        /\ \/ R[j].so = 0
           \/ j > 1 /\ R[j - 1].n = R[j].n /\ R[j - 1].all /\ End(R[j - 1]) = R[j].so
        /\ R[j].lsf \/ (j < Len(R) /\ R[j + 1].n = R[j].n /\ R[j + 1].all)
  BY DEF Complete
<1>8. R[1].so = 0
  BY <1>1, <1>2, <1>3, <1>7
<1>9. ASSUME NEW j \in 1 .. t - 1
      PROVE  IF Closes(R[j]) THEN /\ R[j + 1].n = R[j].n + 1 /\ R[j + 1].so = 0
                                  /\ End(R[j]) = PduSize
             ELSE R[j + 1].n = R[j].n /\ R[j + 1].so = End(R[j])
  <2>1. /\ j \in 1 .. Len(R) - 1 /\ j \in 1 .. t /\ j + 1 \in 1 .. t
        /\ j \in 1 .. Len(R) /\ j + 1 \in 1 .. Len(R) /\ (j + 1) - 1 = j
    BY <1>1
  <2>2. R[j].all /\ R[j + 1].all
    BY <1>1, <2>1
  <2>3. CASE R[j + 1].n = R[j].n
    <3>1. ~Closes(R[j]) /\ R[j + 1].rf /\ R[j + 1].so # 0
      BY <1>6, <2>1, <2>3
    <3>2. End(R[j]) = R[j + 1].so
      BY <1>7, <2>1, <2>2, <3>1
    <3> QED
      BY <2>3, <3>1, <3>2
  <2>4. CASE R[j + 1].n = R[j].n + 1
    <3>1. R[j + 1].n # R[j].n
      BY <1>3, <2>1, <2>4
    <3>2. Closes(R[j])
      BY <1>7, <2>1, <2>2, <3>1 DEF Closes
    <3>3. R[j + 1].so = 0
      BY <1>3, <1>7, <2>1, <2>2, <3>1
    <3> QED
      BY <1>4, <2>1, <2>4, <3>2, <3>3
  <2> QED
    BY <1>1, <2>3, <2>4
<1>10. Closes(R[t])
  <2>1. R[t].all /\ (R[t].rf => R[t].lsf \/ (t < Len(R) /\ R[t + 1].n = R[t].n /\ R[t + 1].all))
    BY <1>1, <1>2, <1>7
  <2> QED
    BY <1>1, <2>1 DEF Closes
<1>11. ASSUME t < Len(R)
       PROVE  R[t].n < R[t + 1].n /\ ~(R[t + 1].all /\ R[t + 1].n = R[t].n + 1)
  <2>1. t \in 1 .. Len(R) - 1
    BY <1>2, <1>11
  <2>2. R[t].n # R[t + 1].n
    BY <1>6, <1>10, <2>1
  <2>3. Follows(R[t], R[t + 1])
    BY <1>5, <2>1
  <2> QED
    BY <1>1, <1>11, <2>2, <2>3 DEF Follows
<1> QED
  BY <1>2, <1>4, <1>8, <1>9, <1>10, <1>11

\* The first byte of an element in the stream, and the one after its last.
StartsAt(c) == c.n * PduSize + c.so
EndsAt(c) == c.n * PduSize + End(c)

LEMMA StreamFacts ==
  ASSUME NEW c, Shaped(c)
  PROVE  StartsAt(c) \in Nat /\ EndsAt(c) \in Nat /\ EndsAt(c) = StartsAt(c) + c.size
<1>1. c.n * PduSize \in Nat
  BY RxFacts, ShapeFacts
<1>2. c.so \in Nat /\ c.size \in Nat
  BY ShapeFacts, RxFacts DEF Element
<1> QED
  BY <1>1, <1>2 DEF StartsAt, EndsAt, End

\* The elements of the run follow each other in the stream.
LEMMA RunInStream ==
  ASSUME NEW c, NEW d, Shaped(c), Shaped(d),
         IF Closes(c) THEN d.n = c.n + 1 /\ d.so = 0 /\ End(c) = PduSize
         ELSE d.n = c.n /\ d.so = End(c)
  PROVE  StartsAt(d) = EndsAt(c)
<1>1. c.n \in Nat /\ PduSize \in Nat
  BY RxFacts, ShapeFacts
<1>2. CASE Closes(c)
  <2>1. (c.n + 1) * PduSize = c.n * PduSize + PduSize /\ c.n * PduSize \in Nat
    BY <1>1
  <2> QED
    BY <1>1, <1>2, <2>1 DEF StartsAt, EndsAt
<1>3. CASE ~Closes(c)
  BY <1>3 DEF StartsAt, EndsAt
<1> QED
  BY <1>2, <1>3

\* The states that the fold of Passed goes through.
PassTrace(F, s, N) ==
  /\ F[0] = [at |-> delivered, bad |-> garbled]
  /\ \A j \in 1 .. N : F[j] = IF F[j - 1].at = s[j].n * PduSize + s[j].so
                              THEN [F[j - 1] EXCEPT !.at = @ + s[j].size]
                              ELSE [F[j - 1] EXCEPT !.bad = TRUE]
  /\ Passed(s) = F[N]

LEMMA PassTraceExists ==
  ASSUME NEW s, NEW N \in Nat, DOMAIN s = 1 .. N
  PROVE  \E F : PassTrace(F, s, N)
<1> DEFINE start == [at |-> delivered, bad |-> garbled]
<1> HIDE DEF start
<1>1. PICK F : FoldTrace(F, LAMBDA q, c : IF q.at = c.n * PduSize + c.so
                                         THEN [q EXCEPT !.at = @ + c.size]
                                         ELSE [q EXCEPT !.bad = TRUE],
                         start, s, N)
  BY FoldLeftTrace
<1>2. /\ F[0] = start
      /\ \A j \in 1 .. N : F[j] = IF F[j - 1].at = s[j].n * PduSize + s[j].so
                                  THEN [F[j - 1] EXCEPT !.at = @ + s[j].size]
                                  ELSE [F[j - 1] EXCEPT !.bad = TRUE]
      /\ Passed(s) = F[N]
  BY <1>1 DEF FoldTrace, Passed, start
<1> QED
  BY <1>2 DEF PassTrace, start

\* The run of t elements that reassembly takes from the list R.
RunOf(R, k, t) ==
  /\ k \in Nat /\ InWindow(R, k) /\ Sorted(R) /\ Complete(R) /\ Wholes(R)
  /\ t = Reassembled(R) /\ t >= 1

\* out is what PDCP has when k whole PDUs have been passed on in sequence.
UpTo(out, k) == out.at = k * PduSize /\ out.bad = FALSE

\* The run starts where what has been passed on ends, and ends with PDU m - 1.
RunUpTo(R, k, t, m) ==
  /\ RunOf(R, k, t) /\ R[1].n = k /\ m = R[t].n + 1
  /\ delivered = k * PduSize /\ garbled = FALSE

\* What PDCP has when the first t elements of R have been passed on.
PassedOf(R, t) == Passed(SubSeq(R, 1, t))

\* What reassembly of the run passes to PDCP.
LEMMA PassedRun ==
  ASSUME NEW k, NEW R, NEW t, NEW m, RunUpTo(R, k, t, m)
  PROVE  UpTo(PassedOf(R, t), m)
<1>0. /\ k \in Nat /\ InWindow(R, k) /\ Sorted(R) /\ Complete(R) /\ Wholes(R)
      /\ t = Reassembled(R) /\ t >= 1 /\ delivered = k * PduSize /\ garbled = FALSE
      /\ R[1].n = k /\ m = R[t].n + 1
  BY DEF RunOf, RunUpTo
<1>1. /\ t \in 1 .. Len(R) /\ R[1].so = 0 /\ End(R[t]) = PduSize
      /\ \A j \in 1 .. t - 1 :
           IF Closes(R[j]) THEN /\ R[j + 1].n = R[j].n + 1 /\ R[j + 1].so = 0
                                /\ End(R[j]) = PduSize
           ELSE R[j + 1].n = R[j].n /\ R[j + 1].so = End(R[j])
  BY <1>0, TakenWhole
<1>2. R \in Seq(Element) /\ Len(R) \in Nat /\ t \in Nat /\ \A j \in 1 .. t : Shaped(R[j])
  BY <1>0, <1>1 DEF InWindow
<1> DEFINE s == SubSeq(R, 1, t)
<1>3. DOMAIN s = 1 .. t /\ \A j \in 1 .. t : s[j] = R[j]
  BY <1>1, <1>2, SubSeqProperties
<1> HIDE DEF s
<1>4. PICK F : PassTrace(F, s, t)
  BY <1>2, <1>3, PassTraceExists
<1>5. F[0] = [at |-> delivered, bad |-> garbled] /\ PassedOf(R, t) = F[t]
  BY <1>4 DEF PassTrace, PassedOf, s
<1>6. ASSUME NEW j \in 1 .. t, NEW a, F[j - 1] = [at |-> a, bad |-> FALSE],
             a = StartsAt(R[j])
      PROVE  F[j] = [at |-> EndsAt(R[j]), bad |-> FALSE]
  <2>1. F[j] = IF F[j - 1].at = R[j].n * PduSize + R[j].so
               THEN [F[j - 1] EXCEPT !.at = @ + R[j].size]
               ELSE [F[j - 1] EXCEPT !.bad = TRUE]
    BY <1>3, <1>4 DEF PassTrace
  <2>2. PICK f, c : f = F[j - 1] /\ c = R[j]
    OBVIOUS
  <2>3. f.at = c.n * PduSize + c.so
    BY <1>6, <2>2 DEF StartsAt
  <2>4. F[j] = [f EXCEPT !.at = @ + c.size]
    BY <2>1, <2>2, <2>3
  <2>5. f = [at |-> a, bad |-> FALSE]
    BY <1>6, <2>2
  <2>6. F[j] = [at |-> a + c.size, bad |-> FALSE]
    BY <2>4, <2>5
  <2>7. EndsAt(R[j]) = a + R[j].size
    BY <1>2, <1>6, StreamFacts
  <2> QED
    BY <2>2, <2>6, <2>7
<1> DEFINE S == {j \in 0 .. t : j >= 1 => F[j] = [at |-> EndsAt(R[j]), bad |-> FALSE]}
<1>7. 0 \in S
  BY <1>2
<1>8. ASSUME NEW n \in 0 .. t - 1, n \in S
      PROVE  n + 1 \in S
  <2>1. n + 1 \in 1 .. t /\ n + 1 \in 0 .. t /\ (n + 1) - 1 = n
    BY <1>2
  <2>2. CASE n = 0
    <3>1. F[0] = [at |-> delivered, bad |-> FALSE]
      BY <1>0, <1>5
    <3>2. 1 \in 1 .. t /\ 1 - 1 = 0 /\ 0 + 1 = 1
      BY <1>1
    <3>3. delivered = StartsAt(R[1])
      <4>1. k * PduSize \in Nat
        BY <1>0, RxFacts
      <4> QED
        BY <1>0, <1>1, <4>1 DEF StartsAt
    <3>4. F[1] = [at |-> EndsAt(R[1]), bad |-> FALSE]
      BY <1>6, <3>1, <3>2, <3>3
    <3> QED
      BY <2>1, <2>2, <3>2, <3>4
  <2>3. CASE n # 0
    <3>1. n \in 1 .. t - 1 /\ n \in 1 .. t
      BY <1>2, <2>3
    <3>2. F[n] = [at |-> EndsAt(R[n]), bad |-> FALSE]
      BY <1>8, <3>1
    <3>3. EndsAt(R[n]) = StartsAt(R[n + 1])
      BY <1>1, <1>2, <2>1, <3>1, RunInStream
    <3>4. F[n + 1] = [at |-> EndsAt(R[n + 1]), bad |-> FALSE]
      BY <1>6, <2>1, <3>2, <3>3
    <3> QED
      BY <2>1, <3>4
  <2> QED
    BY <2>2, <2>3
<1> HIDE DEF S
<1>9. \A n \in 0 .. t : n \in S
  BY <1>2, <1>7, <1>8, InductionUpTo
<1>10. F[t] = [at |-> EndsAt(R[t]), bad |-> FALSE]
  BY <1>1, <1>2, <1>9 DEF S
<1>11. EndsAt(R[t]) = (R[t].n + 1) * PduSize
  <2>1. R[t].n \in Nat
    BY <1>1, <1>2, ShapeFacts
  <2>2. (R[t].n + 1) * PduSize = R[t].n * PduSize + PduSize
    BY <2>1, RxFacts
  <2> QED
    BY <1>1, <2>2 DEF EndsAt
<1>12. UpTo(F[t], m)
  BY <1>0, <1>10, <1>11 DEF UpTo
<1> QED
  BY <1>5, <1>12
-----------------------------------------------------------------------------
(* rlc_am_rx_update_vr_r                                                    *)

\* The states that the fold of NextVrR goes through.
VrTrace(G, list, i, N) ==
  /\ G[0] = [go |-> TRUE, vr |-> vr_r]
  /\ \A j \in 1 .. N :
       LET c == list[i + j - 1]
       IN  G[j] = IF G[j - 1].go /\ c.all /\ c.sn = G[j - 1].vr
                  THEN [G[j - 1] EXCEPT !.vr = IF c.rf /\ ~c.lsf THEN @ ELSE Plus(@, 1)]
                  ELSE [G[j - 1] EXCEPT !.go = FALSE]
  /\ NextVrR(list, i) = G[N].vr

LEMMA VrTraceExists ==
  ASSUME NEW list \in Seq(Element), NEW i \in 1 .. Len(list)
  PROVE  \E G : VrTrace(G, list, i, Len(list) - i + 1)
<1> DEFINE start == [go |-> TRUE, vr |-> vr_r]
           s     == SubSeq(list, i, Len(list))
           N     == Len(list) - i + 1
<1>1. N \in Nat /\ DOMAIN s = 1 .. N /\ \A j \in 1 .. N : s[j] = list[i + j - 1]
  <2>1. Len(list) \in Nat /\ N \in Nat /\ N >= 1
    OBVIOUS
  <2>2. s \in Seq(Element) /\ Len(s) = N /\ \A j \in 1 .. N : s[j] = list[i + j - 1]
    BY <2>1, SubSeqProperties
  <2> QED
    BY <2>1, <2>2
<1> HIDE DEF start, s, N
<1>2. PICK G : FoldTrace(G, LAMBDA q, c : IF q.go /\ c.all /\ c.sn = q.vr
                         THEN [q EXCEPT !.vr = IF c.rf /\ ~c.lsf THEN @ ELSE Plus(@, 1)]
                         ELSE [q EXCEPT !.go = FALSE],
                         start, s, N)
  BY <1>1, FoldLeftTrace
<1>3. /\ G[0] = start
      /\ \A j \in 1 .. N :
           G[j] = IF G[j - 1].go /\ s[j].all /\ s[j].sn = G[j - 1].vr
                  THEN [G[j - 1] EXCEPT !.vr = IF s[j].rf /\ ~s[j].lsf THEN @ ELSE Plus(@, 1)]
                  ELSE [G[j - 1] EXCEPT !.go = FALSE]
      /\ NextVrR(list, i) = G[N].vr
  BY <1>2 DEF FoldTrace, NextVrR, start, s
<1>4. VrTrace(G, list, i, N)
  BY <1>1, <1>3 DEF VrTrace, start
<1> QED
  BY <1>4 DEF N

\* VR(R) after element c.
VrAfter(c) == IF Closes(c) THEN Plus(c.sn, 1) ELSE c.sn

\* VR(R) moves to the PDU after the run.
LEMMA VrRun ==
  ASSUME NEW k \in Nat, NEW R, InWindow(R, k), Sorted(R), Complete(R), Wholes(R),
         NEW t, t = Reassembled(R), t >= 1, NEW i \in 1 .. t, R[i].sn = vr_r
  PROVE  NextVrR(R, i) = (R[t].n + 1) % SnModulo
<1> DEFINE N == Len(R) - i + 1
<1>1. /\ t \in 1 .. Len(R) /\ Closes(R[t])
      /\ \A j \in 1 .. t - 1 :
           IF Closes(R[j]) THEN R[j + 1].n = R[j].n + 1 ELSE R[j + 1].n = R[j].n
      /\ t < Len(R) => ~(R[t + 1].all /\ R[t + 1].n = R[t].n + 1)
  BY TakenWhole
<1>2. \A j \in 1 .. t : R[j].all
  <2>1. LongestRun(R, t)
    BY TakenRun
  <2> QED
    BY <2>1 DEF LongestRun
<1>3. /\ R \in Seq(Element) /\ Len(R) \in Nat /\ t \in Nat /\ i \in 1 .. Len(R)
      /\ N \in Nat /\ N >= 1
  BY <1>1 DEF InWindow
<1>4. \A j \in 1 .. Len(R) : Shaped(R[j]) /\ R[j].n \in k .. k + WindowSize - 1
  BY DEF InWindow
<1>5. PICK G : VrTrace(G, R, i, N)
  BY <1>3, VrTraceExists
<1>6. ASSUME NEW j \in 1 .. N, NEW v, G[j - 1] = [go |-> TRUE, vr |-> v],
             R[i + j - 1].all, R[i + j - 1].sn = v
      PROVE  G[j] = [go |-> TRUE, vr |-> VrAfter(R[i + j - 1])]
  <2>1. PICK g, c : g = G[j - 1] /\ c = R[i + j - 1]
    OBVIOUS
  <2>2. G[j] = IF g.go /\ c.all /\ c.sn = g.vr
               THEN [g EXCEPT !.vr = IF c.rf /\ ~c.lsf THEN @ ELSE Plus(@, 1)]
               ELSE [g EXCEPT !.go = FALSE]
    BY <1>5, <2>1 DEF VrTrace
  <2>3. g = [go |-> TRUE, vr |-> v] /\ c.all /\ c.sn = v
    BY <1>6, <2>1
  <2>4. G[j] = [g EXCEPT !.vr = IF c.rf /\ ~c.lsf THEN @ ELSE Plus(@, 1)]
    BY <2>2, <2>3
  <2>5. G[j] = [go |-> TRUE, vr |-> IF c.rf /\ ~c.lsf THEN v ELSE Plus(v, 1)]
    BY <2>3, <2>4
  <2>6. VrAfter(c) = IF c.rf /\ ~c.lsf THEN v ELSE Plus(v, 1)
    BY <2>3 DEF VrAfter, Closes
  <2> QED
    BY <2>1, <2>5, <2>6
<1>7. ASSUME NEW j \in 1 .. N, NEW v, NEW h, G[j - 1] = [go |-> h, vr |-> v],
             ~(h /\ R[i + j - 1].all /\ R[i + j - 1].sn = v)
      PROVE  G[j] = [go |-> FALSE, vr |-> v]
  <2>1. PICK g, c : g = G[j - 1] /\ c = R[i + j - 1]
    OBVIOUS
  <2>2. G[j] = IF g.go /\ c.all /\ c.sn = g.vr
               THEN [g EXCEPT !.vr = IF c.rf /\ ~c.lsf THEN @ ELSE Plus(@, 1)]
               ELSE [g EXCEPT !.go = FALSE]
    BY <1>5, <2>1 DEF VrTrace
  <2>3. g = [go |-> h, vr |-> v] /\ ~(h /\ c.all /\ c.sn = v)
    BY <1>7, <2>1
  <2>4. G[j] = [g EXCEPT !.go = FALSE]
    BY <2>2, <2>3
  <2> QED
    BY <2>3, <2>4
<1> DEFINE At(j) == IF i + j - 1 <= t THEN [go |-> TRUE, vr |-> VrAfter(R[i + j - 1])]
                    ELSE [go |-> FALSE, vr |-> VrAfter(R[t])]
           S == {j \in 0 .. N : j >= 1 => G[j] = At(j)}
<1>8. 0 \in S
  BY <1>3
<1>9. ASSUME NEW n \in 0 .. N - 1, n \in S
      PROVE  n + 1 \in S
  <2>1. /\ n + 1 \in 1 .. N /\ n + 1 \in 0 .. N /\ (n + 1) - 1 = n /\ i + (n + 1) - 1 = i + n
        /\ i + n \in 1 .. Len(R) /\ n \in Nat /\ i \in Nat
    BY <1>3
  <2> SUFFICES G[n + 1] = At(n + 1)
    BY <2>1
  <2>2. CASE n = 0
    <3>1. G[0] = [go |-> TRUE, vr |-> vr_r]
      BY <1>5 DEF VrTrace
    <3>2. i + 1 - 1 = i /\ 1 - 1 = 0 /\ 0 + 1 = 1 /\ 1 \in 1 .. N /\ R[i].all
      BY <1>2, <1>3
    <3>3. G[1] = [go |-> TRUE, vr |-> VrAfter(R[i])]
      BY <1>6, <3>1, <3>2
    <3>4. At(1) = [go |-> TRUE, vr |-> VrAfter(R[i])]
      BY <1>3, <3>2
    <3> QED
      BY <2>2, <3>2, <3>3, <3>4
  <2>3. CASE n # 0 /\ i + n <= t
    <3>1. PICK e \in 1 .. t - 1 : e = i + n - 1
      BY <1>3, <2>1, <2>3
    <3>2. e + 1 = i + n /\ e \in 1 .. Len(R) /\ e + 1 \in 1 .. Len(R) /\ e + 1 \in 1 .. t /\ e <= t
          /\ n >= 1
      BY <1>1, <1>3, <2>1, <2>3, <3>1
    <3>3. G[n] = [go |-> TRUE, vr |-> VrAfter(R[e])]
      BY <1>9, <3>1, <3>2
    <3>4. R[e + 1].sn = VrAfter(R[e])
      <4>1. PICK c, d : /\ c = R[e] /\ d = R[e + 1] /\ Shaped(c) /\ Shaped(d)
                        /\ c.n \in k .. k + WindowSize - 1 /\ d.n \in k .. k + WindowSize - 1
        BY <1>4, <3>2
      <4>2. /\ d.sn = c.sn <=> d.n = c.n
            /\ d.sn = Plus(c.sn, 1) <=> d.n = c.n + 1
        BY <4>1, NextSn
      <4>3. IF Closes(c) THEN d.n = c.n + 1 ELSE d.n = c.n
        BY <1>1, <4>1
      <4> QED
        BY <4>1, <4>2, <4>3 DEF VrAfter
    <3>5. R[e + 1].all
      BY <1>2, <3>2
    <3>6. G[n + 1] = [go |-> TRUE, vr |-> VrAfter(R[i + (n + 1) - 1])]
      BY <1>6, <2>1, <3>2, <3>3, <3>4, <3>5
    <3> QED
      BY <2>1, <2>3, <3>6
  <2>4. CASE n # 0 /\ i + n = t + 1
    <3>1. i + n - 1 = t /\ n >= 1 /\ t < Len(R) /\ t + 1 \in 1 .. Len(R)
      BY <1>3, <2>1, <2>4
    <3>2. G[n] = [go |-> TRUE, vr |-> VrAfter(R[t])]
      <4>1. G[n] = At(n) /\ i + n - 1 <= t
        BY <1>3, <1>9, <3>1
      <4> QED
        BY <3>1, <4>1
    <3>3. ~(R[t + 1].all /\ R[t + 1].sn = VrAfter(R[t]))
      <4>1. PICK c, d : /\ c = R[t] /\ d = R[t + 1] /\ Shaped(c) /\ Shaped(d)
                        /\ c.n \in k .. k + WindowSize - 1 /\ d.n \in k .. k + WindowSize - 1
        BY <1>1, <1>4, <3>1
      <4>2. d.sn = Plus(c.sn, 1) <=> d.n = c.n + 1
        BY <4>1, NextSn
      <4> QED
        BY <1>1, <3>1, <4>1, <4>2 DEF VrAfter
    <3>4. ~(TRUE /\ R[i + (n + 1) - 1].all /\ R[i + (n + 1) - 1].sn = VrAfter(R[t]))
      BY <2>1, <2>4, <3>3
    <3>5. G[n + 1] = [go |-> FALSE, vr |-> VrAfter(R[t])]
      BY <1>7, <2>1, <3>2, <3>4
    <3> QED
      BY <1>3, <2>1, <2>4, <3>5
  <2>5. CASE n # 0 /\ i + n > t + 1
    <3>1. ~(i + n - 1 <= t) /\ n >= 1 /\ ~(i + n <= t)
      BY <1>3, <2>1, <2>5
    <3>2. G[n] = [go |-> FALSE, vr |-> VrAfter(R[t])]
      BY <1>9, <3>1
    <3>3. G[n + 1] = [go |-> FALSE, vr |-> VrAfter(R[t])]
      BY <1>7, <2>1, <3>2
    <3> QED
      BY <2>1, <3>1, <3>3
  <2> QED
    BY <1>3, <2>1, <2>2, <2>3, <2>4, <2>5
<1> HIDE DEF S
<1>10. \A n \in 0 .. N : n \in S
  <2> HIDE DEF N
  <2> QED
    BY <1>3, <1>8, <1>9, InductionUpTo
<1>11. G[N].vr = VrAfter(R[t])
  <2>1. N \in S /\ i + N - 1 = Len(R)
    BY <1>3, <1>10
  <2>2. G[N] = At(N)
    BY <1>3, <2>1 DEF S
  <2>3. i + N - 1 <= t => Len(R) = t
    BY <1>1, <1>3, <2>1
  <2> HIDE DEF N
  <2> QED
    BY <2>1, <2>2, <2>3
<1>12. VrAfter(R[t]) = (R[t].n + 1) % SnModulo
  <2>1. PICK n \in Nat : n = R[t].n /\ R[t].sn = n % SnModulo
    BY <1>1, <1>4, ShapeFacts
  <2>2. Plus(R[t].sn, 1) = (n + 1) % SnModulo
    BY <2>1, PlusOf
  <2> QED
    BY <1>1, <2>1, <2>2 DEF VrAfter
<1> QED
  BY <1>5, <1>11, <1>12 DEF VrTrace
-----------------------------------------------------------------------------
(* The inductive invariant.                                                 *)

\* The list when k PDUs have been passed on and s have been sent.
ListSound(list, k, s) ==
  /\ InWindow(list, k) /\ Sorted(list) /\ Complete(list) /\ Wholes(list)
  /\ \A j \in 1 .. Len(list) : list[j].n < s
  /\ Len(list) >= 1 => ~(list[1].all /\ list[1].n = k)

RxInvariant ==
  /\ {vr_h, vr_x, vr_ms} \subseteq SN
  /\ {t_reordering, status_requested, t_status_prohibit} \subseteq BOOLEAN
  /\ InOrder \in Nat /\ delivered = InOrder * PduSize /\ garbled = FALSE
  /\ vr_r = InOrder % SnModulo
  /\ sent \in Nat /\ InOrder <= sent /\ sent <= InOrder + WindowSize
  /\ ListSound(receiver_buffer, InOrder, sent)

LEMMA InOrderOf ==
  ASSUME NEW m \in Nat, NEW d, d = m * PduSize
  PROVE  d \in Nat /\ d \div PduSize = m /\ d % PduSize = 0
<1>1. d \in Int /\ d \in Nat /\ m * PduSize = PduSize * m /\ PduSize * m \in Int
  BY RxFacts
<1>2. d = PduSize * m + 0 /\ 0 \in 0 .. PduSize - 1 /\ PduSize \in Nat \ {0}
  BY <1>1, RxFacts
<1> QED
  BY <1>1, <1>2, DivModOf

\* PDUs as they arrive.
LEMMA PduShape ==
  ASSUME NEW n \in Nat, NEW x \in Pdus(n)
  PROVE  Shaped(x) /\ x.n = n /\ x.sn = n % SnModulo /\ ~x.all
<1>1. n % SnModulo \in SN
  BY RxFacts, SnOf
<1>2. CASE x = Whole(n)
  <2>1. x \in Element
    BY <1>1, <1>2, RxFacts DEF Whole, Element
  <2> QED
    BY <1>2, <2>1, RxFacts DEF Whole, Shaped
<1>3. CASE x # Whole(n)
  <2>1. PICK p \in {q \in (0 .. PduSize - 1) \X (1 .. PduSize - 1) : q[1] + q[2] <= PduSize} :
          x = Part(n, p[1], p[2])
    BY <1>3 DEF Pdus
  <2>2. PICK so, size : so = p[1] /\ size = p[2]
    OBVIOUS
  <2>3. so \in 0 .. PduSize - 1 /\ size \in 1 .. PduSize - 1 /\ so + size <= PduSize
    BY <2>1, <2>2
  <2>4. x = [n |-> n, sn |-> n % SnModulo, rf |-> TRUE, so |-> so, size |-> size,
             lsf |-> so + size = PduSize, all |-> FALSE]
    BY <2>1, <2>2 DEF Part
  <2>5. x \in Element
    BY <1>1, <2>3, <2>4, RxFacts DEF Element
  <2>6. x.rf /\ (x.lsf <=> End(x) = PduSize) /\ End(x) <= PduSize
    BY <2>3, <2>4 DEF End
  <2> QED
    BY <2>4, <2>5, <2>6 DEF Shaped
<1> QED
  BY <1>2, <1>3

\* The list with a new element, marked.
LEMMA NewList ==
  ASSUME NEW k \in Nat, NEW list, NEW s \in Nat, ListSound(list, k, s),
         NEW x, Shaped(x), x.n \in k .. k + WindowSize - 1, ~x.all,
         NEW i, Fits(list, i, x), NEW u \in Nat, s <= u, x.n < u,
         NEW R, R = Marked(InsertAt(list, i, x), i)
  PROVE  /\ InWindow(R, k) /\ Sorted(R) /\ Complete(R) /\ Wholes(R)
         /\ i \in 1 .. Len(R) /\ R[i].n = x.n /\ R[i].sn = x.sn
         /\ \A j \in 1 .. Len(R) : R[j].n < u
         /\ x.n # k \/ ~R[i].all => ~(R[1].all /\ R[1].n = k)
         /\ x.n = k => R[1].n = k
         /\ x.n = k /\ R[i].all => \A j \in 1 .. i : R[j].all /\ R[j].n = k
<1> DEFINE L == InsertAt(list, i, x)
<1>1. /\ InWindow(list, k) /\ Sorted(list) /\ Complete(list) /\ Wholes(list)
      /\ \A j \in 1 .. Len(list) : list[j].n < s
      /\ Len(list) >= 1 => ~(list[1].all /\ list[1].n = k)
  BY DEF ListSound
<1>2. /\ InWindow(L, k) /\ Sorted(L) /\ Complete(L) /\ i \in 1 .. Len(L) /\ L[i] = x
      /\ \A j \in 1 .. Len(L) : j # i /\ ~L[j].rf => L[j].all
      /\ i > 1 => list # <<>> /\ L[1] = list[1]
      /\ \A j \in 1 .. Len(L) : j # i => \E m \in 1 .. Len(list) : L[j] = list[m]
  BY <1>1, InsertedKeeps
<1> HIDE DEF L
<1>3. R = Marked(L, i)
  BY DEF L
<1>4. /\ Len(R) = Len(L) /\ InWindow(R, k) /\ Sorted(R) /\ Complete(R) /\ Wholes(R)
      /\ \A j \in 1 .. Len(L) : MarkOf(L[j], R[j])
      /\ R[i].all => \A j \in 1 .. Len(L) : L[j].n = L[i].n => R[j].all
      /\ \A j \in 1 .. Len(L) : R[j].all => L[j].all \/ (L[j].n = L[i].n /\ R[i].all)
  BY <1>2, <1>3, MarkedKeeps
<1>5. Len(L) \in Nat /\ i \in Nat /\ 1 \in 1 .. Len(L) /\ list \in Seq(Element)
  BY <1>1, <1>2 DEF InWindow
<1>6. \A j \in 1 .. Len(L) : R[j].n = L[j].n /\ R[j].sn = L[j].sn /\ R[j].n \in Nat
                             /\ R[j].n \in k .. k + WindowSize - 1
  BY <1>2, <1>4, ShapeFacts DEF MarkOf, InWindow
<1>7. \A j \in 1 .. Len(R) : R[j].n < u
  <2>1. \A m \in 1 .. Len(list) : list[m].n \in Nat
    BY <1>1, ShapeFacts DEF InWindow
  <2> QED
    BY <1>1, <1>2, <1>4, <1>6, <2>1
<1>8. \A j \in 1 .. i : R[j].n <= x.n
  <2> TAKE j \in 1 .. i
  <2>1. j \in 1 .. Len(R) /\ i \in 1 .. Len(R)
    BY <1>2, <1>4, <1>5
  <2>2. CASE j = i
    BY <1>2, <1>6, <2>2
  <2>3. CASE j < i
    <3>1. Follows(R[j], R[i])
      BY <1>4, <2>1, <2>3, SortedThroughout
    <3> QED
      BY <1>2, <1>4, <1>6, <2>1, <3>1 DEF Follows
  <2> QED
    BY <1>5, <2>2, <2>3
<1>9. x.n = k => \A j \in 1 .. i : R[j].n = k
  BY <1>2, <1>5, <1>6, <1>8
<1>10. x.n = k => R[1].n = k
  BY <1>2, <1>5, <1>9
<1>11. ASSUME x.n # k \/ ~R[i].all, R[1].all, R[1].n = k
       PROVE  FALSE
  <2>1. L[1].all
    BY <1>2, <1>4, <1>5, <1>6, <1>11
  <2>2. i # 1
    BY <1>2, <2>1
  <2>3. list # <<>> /\ list[1].all /\ list[1].n = k
    BY <1>2, <1>5, <1>6, <1>11, <2>1, <2>2
  <2> QED
    BY <1>1, <1>5, <2>3
<1>12. ASSUME x.n = k, R[i].all
       PROVE  \A j \in 1 .. i : R[j].all /\ R[j].n = k
  BY <1>2, <1>4, <1>5, <1>6, <1>9, <1>12
<1> QED
  BY <1>2, <1>4, <1>6, <1>7, <1>10, <1>11, <1>12

LEMMA RestOf ==
  ASSUME NEW R \in Seq(Element), NEW t \in 0 .. Len(R)
  PROVE  /\ SubSeq(R, t + 1, Len(R)) \in Seq(Element)
         /\ Len(SubSeq(R, t + 1, Len(R))) = Len(R) - t
         /\ \A j \in 1 .. Len(R) - t : SubSeq(R, t + 1, Len(R))[j] = R[t + j]
<1>1. t + 1 \in Int /\ Len(R) \in Int /\ t \in Nat /\ \A j \in t + 1 .. Len(R) : R[j] \in Element
  OBVIOUS
<1>2. /\ SubSeq(R, t + 1, Len(R)) \in Seq(Element)
      /\ Len(SubSeq(R, t + 1, Len(R))) = (IF t + 1 <= Len(R) THEN Len(R) - (t + 1) + 1 ELSE 0)
      /\ \A j \in 1 .. Len(R) - (t + 1) + 1 :
           SubSeq(R, t + 1, Len(R))[j] = R[(t + 1) + j - 1]
  BY <1>1, SubSeqProperties
<1> DEFINE Q == SubSeq(R, t + 1, Len(R))
<1> HIDE DEF Q
<1>3. /\ Q \in Seq(Element) /\ Len(Q) = (IF t + 1 <= Len(R) THEN Len(R) - (t + 1) + 1 ELSE 0)
      /\ \A j \in 1 .. Len(R) - (t + 1) + 1 : Q[j] = R[(t + 1) + j - 1]
  BY <1>2, Zenon DEF Q
<1>4. Len(R) - (t + 1) + 1 = Len(R) - t /\ Len(Q) = Len(R) - t
  BY <1>1, <1>3
<1>5. \A j \in 1 .. Len(R) - t : (t + 1) + j - 1 = t + j
  BY <1>1
<1>6. Q \in Seq(Element) /\ Len(Q) = Len(R) - t /\ \A j \in 1 .. Len(R) - t : Q[j] = R[t + j]
  BY <1>3, <1>4, <1>5
<1> QED
  BY <1>6, Zenon DEF Q

\* Of the PDUs sent before PDU u.
SentBefore(R, u) == u \in Nat /\ \A j \in 1 .. Len(R) : R[j].n < u

\* Q is R without its first t elements.
IsRest(Q, R, t) ==
  Q \in Seq(Element) /\ Len(Q) = Len(R) - t /\ \A j \in 1 .. Len(R) - t : Q[j] = R[t + j]

\* The list after the run has left it.
LEMMA RestSound ==
  ASSUME NEW k, NEW R, NEW t, RunOf(R, k, t), NEW u, SentBefore(R, u),
         NEW m, m = R[t].n + 1, NEW Q, IsRest(Q, R, t)
  PROVE  m \in Nat /\ k <= m /\ m <= u /\ ListSound(Q, m, u)
<1>1. /\ k \in Nat /\ InWindow(R, k) /\ Sorted(R) /\ Complete(R) /\ Wholes(R)
      /\ t = Reassembled(R) /\ t >= 1
  BY DEF RunOf
<1>2. u \in Nat /\ \A j \in 1 .. Len(R) : R[j].n < u
  BY DEF SentBefore
<1>3. Q \in Seq(Element) /\ Len(Q) = Len(R) - t /\ \A j \in 1 .. Len(R) - t : Q[j] = R[t + j]
  BY DEF IsRest
<1>4. /\ t \in 1 .. Len(R)
      /\ t < Len(R) => R[t].n < R[t + 1].n /\ ~(R[t + 1].all /\ R[t + 1].n = R[t].n + 1)
  BY <1>1, TakenWhole
<1>5. R \in Seq(Element) /\ Len(R) \in Nat /\ t \in Nat
  BY <1>1, <1>4 DEF InWindow
<1>6. \A j \in 1 .. Len(R) : /\ Shaped(R[j]) /\ R[j].n \in k .. k + WindowSize - 1
                             /\ R[j].n \in Nat
  BY <1>1, ShapeFacts DEF InWindow
<1>7. m \in Nat /\ k <= m /\ m <= u
  BY <1>1, <1>4, <1>6, <1>2, RxFacts
<1>8. /\ Len(Q) = Len(R) - t /\ Len(Q) \in Nat
      /\ \A j \in 1 .. Len(Q) : Q[j] = R[t + j] /\ t + j \in 1 .. Len(R)
  BY <1>4, <1>5, <1>3
<1>9. \A j \in 1 .. Len(Q) : Q[j].n \in m .. m + WindowSize - 1
  <2> TAKE j \in 1 .. Len(Q)
  <2>1. t < Len(R) /\ t + 1 \in 1 .. Len(R) /\ t + j \in 1 .. Len(R) /\ t + 1 <= t + j
    BY <1>4, <1>5, <1>8
  <2>2. R[t + 1].n <= R[t + j].n
    <3>1. CASE j = 1
      BY <1>6, <2>1, <3>1
    <3>2. CASE j # 1
      <4>1. PICK p \in 1 .. Len(R), q \in 1 .. Len(R) : p = t + 1 /\ q = t + j /\ p < q
        BY <1>5, <2>1, <3>2
      <4>2. Follows(R[p], R[q])
        BY <1>1, <4>1, SortedThroughout
      <4> QED
        BY <1>6, <4>1, <4>2 DEF Follows
    <3> QED
      BY <3>1, <3>2
  <2>3. PICK c, d, e : c = R[t].n /\ d = R[t + 1].n /\ e = R[t + j].n
    OBVIOUS
  <2>4. c < d /\ d <= e /\ m = c + 1
    BY <1>4, <2>1, <2>2, <2>3
  <2>5. c \in k .. k + WindowSize - 1 /\ e \in k .. k + WindowSize - 1
    BY <1>4, <1>6, <2>1, <2>3
  <2>6. c \in Nat /\ d \in Nat /\ e \in Nat /\ k \in Nat
    BY <1>1, <1>4, <1>6, <2>1, <2>3
  <2>7. e \in m .. m + WindowSize - 1
    BY <2>4, <2>5, <2>6, RxFacts
  <2> QED
    BY <1>8, <2>3, <2>7
<1>10. InWindow(Q, m)
  BY <1>6, <1>8, <1>9, <1>3 DEF InWindow
<1>11. Sorted(Q)
  <2> SUFFICES ASSUME NEW j \in 1 .. Len(Q) - 1 PROVE Follows(Q[j], Q[j + 1])
    BY DEF Sorted
  <2>1. /\ Q[j] = R[t + j] /\ Q[j + 1] = R[t + (j + 1)] /\ (t + j) + 1 = t + (j + 1)
        /\ t + j \in 1 .. Len(R) - 1
    BY <1>5, <1>8
  <2> QED
    BY <1>1, <2>1 DEF Sorted
<1>12. Wholes(Q) /\ \A j \in 1 .. Len(Q) : Q[j].n < u
  BY <1>1, <1>8, <1>2 DEF Wholes
<1>13. ASSUME Len(Q) >= 1
       PROVE  Q[1] = R[t + 1] /\ t < Len(R) /\ ~(Q[1].all /\ Q[1].n = m) /\ Q[1].n # R[t].n
  <2>1. t < Len(R) /\ Q[1] = R[t + 1] /\ t + 1 \in 1 .. Len(R)
    BY <1>4, <1>5, <1>8, <1>13
  <2> QED
    BY <1>4, <1>6, <2>1
<1>14. Complete(Q)
  <2> SUFFICES ASSUME NEW j \in 1 .. Len(Q), Q[j].all, Q[j].rf
               PROVE  /\ \/ Q[j].so = 0
                         \/ /\ j > 1 /\ Q[j - 1].n = Q[j].n /\ Q[j - 1].all
                            /\ End(Q[j - 1]) = Q[j].so
                      /\ Q[j].lsf \/ (j < Len(Q) /\ Q[j + 1].n = Q[j].n /\ Q[j + 1].all)
    BY DEF Complete
  <2>1. PICK h \in 1 .. Len(R) : h = t + j /\ Q[j] = R[h]
    BY <1>8
  <2>2. /\ \/ R[h].so = 0
           \/ h > 1 /\ R[h - 1].n = R[h].n /\ R[h - 1].all /\ End(R[h - 1]) = R[h].so
        /\ R[h].lsf \/ (h < Len(R) /\ R[h + 1].n = R[h].n /\ R[h + 1].all)
    BY <1>1, <2>1 DEF Complete
  <2>3. j > 1 => Q[j - 1] = R[h - 1]
    <3> SUFFICES ASSUME j > 1 PROVE Q[j - 1] = R[h - 1]
      OBVIOUS
    <3>1. j - 1 \in 1 .. Len(Q) /\ t + (j - 1) = h - 1
      BY <1>5, <1>8, <2>1
    <3> QED
      BY <1>8, <3>1
  <2>4. j = 1 => ~(R[h - 1].n = R[h].n)
    <3> SUFFICES ASSUME j = 1 PROVE ~(R[h - 1].n = R[h].n)
      OBVIOUS
    <3>1. h = t + 1 /\ h - 1 = t /\ Len(Q) >= 1
      BY <1>5, <1>8, <2>1
    <3> QED
      BY <1>13, <2>1, <3>1
  <2>5. h < Len(R) <=> j < Len(Q)
    BY <1>5, <1>8, <2>1
  <2>6. j < Len(Q) => Q[j + 1] = R[h + 1]
    <3> SUFFICES ASSUME j < Len(Q) PROVE Q[j + 1] = R[h + 1]
      OBVIOUS
    <3>1. j + 1 \in 1 .. Len(Q) /\ t + (j + 1) = h + 1
      BY <1>5, <1>8, <2>1
    <3> QED
      BY <1>8, <3>1
  <2>7. j = 1 \/ j > 1
    BY <1>5, <1>8
  <2> QED
    BY <2>1, <2>2, <2>3, <2>4, <2>5, <2>6, <2>7
<1> QED
  BY <1>7, <1>10, <1>11, <1>12, <1>13, <1>14 DEF ListSound
-----------------------------------------------------------------------------
(* The steps.                                                               *)

\* rlc_am_rx_update_vr_ms
LEMMA NextVrMsIn ==
  ASSUME NEW k \in Nat, NEW R, InWindow(R, k), NEW i \in 1 .. Len(R)
  PROVE  NextVrMs(R, i) \in SN
<1> DEFINE I == {j \in i .. Len(R) : ~R[j].all}
<1>1. Len(R) \in Nat /\ \A j \in 1 .. Len(R) : Shaped(R[j]) /\ R[j].sn \in SN
  BY ShapeFacts DEF InWindow
<1>2. CASE I # {}
  <2>1. I \subseteq Int /\ i \in Int /\ \A j \in I : i <= j
    BY <1>1
  <2>2. Min(I) \in I
    <3> HIDE DEF I
    <3> QED
      BY <1>2, <2>1, MinIsLeast
  <2>3. Min(I) \in 1 .. Len(R) /\ Min(I) > 0
    BY <1>1, <2>2
  <2>4. NextVrMs(R, i) = R[Min(I)].sn
    BY <1>2, <2>3 DEF NextVrMs, SelectInSubSeq
  <2> QED
    BY <1>1, <2>3, <2>4
<1>3. CASE I = {}
  <2>1. NextVrMs(R, i) = Plus(R[Len(R)].sn, 1)
    BY <1>3 DEF NextVrMs, SelectInSubSeq, Last
  <2>2. Len(R) \in 1 .. Len(R)
    BY <1>1
  <2>3. PICK n \in Nat : R[Len(R)].sn = n % SnModulo
    BY <1>1, <2>2, ShapeFacts
  <2> QED
    BY <2>1, <2>3, PlusOf
<1> QED
  BY <1>2, <1>3

\* What is to be shown of a step after which m PDUs have been passed on.
LEMMA InvariantAfter ==
  ASSUME {vr_h', vr_x', vr_ms'} \subseteq SN,
         {t_reordering', status_requested', t_status_prohibit'} \subseteq BOOLEAN,
         NEW m \in Nat, delivered' = m * PduSize, garbled' = FALSE, vr_r' = m % SnModulo,
         sent' \in Nat, m <= sent', sent' <= m + WindowSize,
         ListSound(receiver_buffer', m, sent')
  PROVE  RxInvariant'
<1>1. InOrder' = m
  BY InOrderOf DEF InOrder
<1>2. (ListSound(receiver_buffer, InOrder, sent))' = ListSound(receiver_buffer', m, sent')
  BY <1>1 DEF ListSound, InWindow, Sorted, Complete, Wholes, Shaped, Follows, End, Element, SN
<1> QED
  BY <1>1, <1>2 DEF RxInvariant, SN

\* The PDUs that may arrive.
LEMMA Arriving ==
  ASSUME RxInvariant, NEW n \in Arrivals
  PROVE  /\ n \in Nat /\ InOrder - WindowSize <= n /\ n < InOrder + WindowSize
         /\ InRxWindow(n % SnModulo) <=> n >= InOrder
<1>1. InOrder \in Nat /\ sent \in Nat /\ InOrder <= sent /\ vr_r = InOrder % SnModulo
  BY DEF RxInvariant
<1>2. n \in Nat /\ n >= sent - WindowSize /\ n < InOrder + WindowSize
  BY DEF Arrivals
<1>3. InOrder - WindowSize <= n /\ n <= InOrder + WindowSize
  BY <1>1, <1>2, RxFacts
<1>4. PICK k \in Nat : k = InOrder
  BY <1>1
<1>5. Dist(k % SnModulo, n % SnModulo) = IF n < k THEN n - k + SnModulo ELSE n - k
  BY <1>2, <1>3, <1>4, DistOf
<1>6. PICK d : d = Dist(vr_r, n % SnModulo)
  OBVIOUS
<1>7. d = IF n < k THEN n - k + SnModulo ELSE n - k
  BY <1>1, <1>4, <1>5, <1>6
<1>8. d < WindowSize <=> n >= k
  BY <1>2, <1>3, <1>4, <1>7, RxFacts
<1> QED
  BY <1>2, <1>3, <1>4, <1>6, <1>8 DEF InRxWindow

\* The number of PDUs that the peer has sent after PDU n arrives.
LEMMA SentAfter ==
  ASSUME RxInvariant, NEW n \in Arrivals, NEW u, u = IF n < sent THEN sent ELSE n + 1
  PROVE  u \in Nat /\ sent <= u /\ n < u /\ InOrder <= u /\ u <= InOrder + WindowSize
<1>1. n \in Nat /\ n < InOrder + WindowSize
  BY Arriving
<1>2. InOrder \in Nat /\ sent \in Nat /\ InOrder <= sent /\ sent <= InOrder + WindowSize
  BY DEF RxInvariant
<1> QED
  BY <1>1, <1>2, RxFacts

\* A PDU that is not placed.
LEMMA UnplacedStep ==
  ASSUME RxInvariant, NEW n \in Arrivals, status_requested' = TRUE,
         sent' = IF n < sent THEN sent ELSE n + 1,
         UNCHANGED <<vr_r, vr_h, vr_x, vr_ms, t_reordering, receiver_buffer,
                     t_status_prohibit, delivered, garbled>>
  PROVE  RxInvariant'
<1>1. PICK k, u : k = InOrder /\ u = sent'
  OBVIOUS
<1>2. u \in Nat /\ sent <= u /\ k <= u /\ u <= k + WindowSize
  BY <1>1, SentAfter
<1>3. ListSound(receiver_buffer, k, u)
  <2>1. ListSound(receiver_buffer, k, sent) /\ sent \in Nat
    BY <1>1 DEF RxInvariant
  <2>2. \A j \in 1 .. Len(receiver_buffer) : receiver_buffer[j].n \in Nat
    BY <2>1, ShapeFacts DEF ListSound, InWindow
  <2> QED
    BY <1>2, <2>1, <2>2 DEF ListSound
<1>4. /\ k \in Nat /\ delivered' = k * PduSize /\ garbled' = FALSE /\ vr_r' = k % SnModulo
      /\ {vr_h', vr_x', vr_ms'} \subseteq SN
      /\ {t_reordering', status_requested', t_status_prohibit'} \subseteq BOOLEAN
      /\ receiver_buffer' = receiver_buffer
  BY <1>1 DEF RxInvariant
<1>5. ListSound(receiver_buffer', k, sent')
  BY <1>1, <1>3, <1>4
<1> QED
  BY <1>1, <1>2, <1>4, <1>5, InvariantAfter

\* The new list of a PDU that is placed, and what leaves it.
NewListOf(x, i) == Marked(InsertAt(receiver_buffer, i, x), i)
TakenOf(x, i) == IF x.sn = vr_r THEN Reassembled(NewListOf(x, i)) ELSE 0

\* The state variables and flags after a PDU is placed.
LEMMA PlacedFlags ==
  ASSUME RxInvariant, NEW k \in Nat, NEW x, Shaped(x), NEW i, Placed(x, i),
         InWindow(NewListOf(x, i), k), i \in 1 .. Len(NewListOf(x, i))
  PROVE  /\ {vr_h', vr_x', vr_ms'} \subseteq SN
         /\ {t_reordering', status_requested', t_status_prohibit'} \subseteq BOOLEAN
<1>1. /\ {vr_h, vr_x, vr_ms} \subseteq SN
      /\ {t_reordering, status_requested, t_status_prohibit} \subseteq BOOLEAN
  BY DEF RxInvariant
<1>2. Plus(x.sn, 1) \in SN
  BY ShapeFacts, PlusOf
<1>3. NextVrMs(NewListOf(x, i), i) \in SN
  BY NextVrMsIn
<1>4. /\ vr_h' = Plus(x.sn, 1) \/ vr_h' = vr_h
      /\ vr_ms' = NextVrMs(NewListOf(x, i), i) \/ vr_ms' = vr_ms
      /\ vr_x' = vr_x \/ vr_x' = vr_h'
      /\ t_reordering' = t_reordering \/ t_reordering' = (vr_h' # vr_r')
      /\ t_status_prohibit' = t_status_prohibit
      /\ \E poll \in BOOLEAN : status_requested' = (status_requested \/ poll)
  BY DEF Placed, NewListOf
<1>5. vr_h' \in SN /\ vr_ms' \in SN
  BY <1>1, <1>2, <1>3, <1>4
<1>6. vr_x' \in SN
  BY <1>1, <1>4, <1>5
<1>7. t_reordering' \in BOOLEAN
  BY <1>1, <1>4
<1>8. status_requested' \in BOOLEAN /\ t_status_prohibit' \in BOOLEAN
  BY <1>1, <1>4
<1> QED
  BY <1>5, <1>6, <1>7, <1>8

\* Nothing leaves the list.
LEMMA NothingTaken ==
  ASSUME NEW R \in Seq(Element)
  PROVE  SubSeq(R, 0 + 1, Len(R)) = R /\ Passed(SubSeq(R, 1, 0)) = [at |-> delivered, bad |-> garbled]
<1>1. SubSeq(R, 0 + 1, Len(R)) = R
  OBVIOUS
<1> DEFINE s == SubSeq(R, 1, 0)
<1>2. DOMAIN s = 1 .. 0 /\ 0 \in Nat
  OBVIOUS
<1> HIDE DEF s
<1>3. PICK F : PassTrace(F, s, 0)
  BY <1>2, PassTraceExists
<1>4. Passed(s) = [at |-> delivered, bad |-> garbled]
  BY <1>3 DEF PassTrace
<1> QED
  BY <1>1, <1>4 DEF s

\* rlc_am_receive_process_data_pdu keeps the invariant when it places a PDU.
LEMMA PlacedStep ==
  ASSUME RxInvariant, NEW n \in Arrivals, NEW x \in Pdus(n), NEW i, i = Place(x),
         ~Misplaced(x, i), Placed(x, i), sent' = IF n < sent THEN sent ELSE n + 1
  PROVE  RxInvariant'
<1> DEFINE R == NewListOf(x, i)
           t == TakenOf(x, i)
<1>1. PICK k, u : k = InOrder /\ u = sent'
  OBVIOUS
<1>2. /\ k \in Nat /\ delivered = k * PduSize /\ garbled = FALSE /\ vr_r = k % SnModulo
      /\ sent \in Nat /\ ListSound(receiver_buffer, k, sent)
  BY <1>1 DEF RxInvariant
<1>3. u \in Nat /\ sent <= u /\ n < u /\ k <= u /\ u <= k + WindowSize
  BY <1>1, SentAfter
<1>4. n \in Nat /\ n < k + WindowSize /\ (InRxWindow(n % SnModulo) <=> n >= k)
  BY <1>1, Arriving
<1>5. Shaped(x) /\ x.n = n /\ x.sn = n % SnModulo /\ ~x.all
  BY <1>4, PduShape
<1>6. /\ InRxWindow(x.sn) /\ i # 0
      /\ vr_r' = (IF x.sn = vr_r /\ R[i].all THEN NextVrR(R, i) ELSE vr_r)
      /\ receiver_buffer' = SubSeq(R, t + 1, Len(R))
      /\ delivered' = Passed(SubSeq(R, 1, t)).at
      /\ garbled' = Passed(SubSeq(R, 1, t)).bad
  <2>1. i # 0
    BY DEF Placed
  <2> QED
    BY <2>1 DEF Placed, NewListOf, TakenOf
<1>7. x.n \in k .. k + WindowSize - 1
  BY <1>2, <1>4, <1>5, <1>6, RxFacts
<1>8. Fits(receiver_buffer, i, x)
  <2>1. PlacingAt(k, x)
    BY <1>2, <1>5, <1>7 DEF PlacingAt, ListSound
  <2> QED
    BY <1>6, <2>1, PlaceFits
<1>9. x.n < u
  BY <1>3, <1>5
<1>10. /\ InWindow(R, k) /\ Sorted(R) /\ Complete(R) /\ Wholes(R)
       /\ i \in 1 .. Len(R) /\ R[i].n = x.n /\ R[i].sn = x.sn
       /\ \A j \in 1 .. Len(R) : R[j].n < u
       /\ x.n # k \/ ~R[i].all => ~(R[1].all /\ R[1].n = k)
       /\ x.n = k => R[1].n = k
       /\ x.n = k /\ R[i].all => \A j \in 1 .. i : R[j].all /\ R[j].n = k
  BY <1>2, <1>3, <1>5, <1>7, <1>8, <1>9, NewList DEF NewListOf
<1>11. x.sn = vr_r <=> x.n = k
  <2>1. PICK y \in Nat : y = x.n /\ x.sn = y % SnModulo
    BY <1>4, <1>5
  <2>2. y <= k + WindowSize /\ k <= y + WindowSize
    BY <1>2, <1>7, <2>1, RxFacts
  <2>3. y % SnModulo = k % SnModulo => y = k
    BY <1>2, <2>2, SameSn
  <2> QED
    BY <1>2, <2>1, <2>3
<1>12. /\ {vr_h', vr_x', vr_ms'} \subseteq SN
       /\ {t_reordering', status_requested', t_status_prohibit'} \subseteq BOOLEAN
  BY <1>2, <1>5, <1>10, PlacedFlags
<1>13. R \in Seq(Element) /\ Len(R) \in Nat
  BY <1>10 DEF InWindow
<1>14. x.sn = vr_r => t = Reassembled(R)
  BY DEF TakenOf
<1>15. x.sn # vr_r => t = 0
  BY DEF TakenOf
<1> HIDE DEF R, t
<1>16. k \in Nat /\ InWindow(R, k) /\ Sorted(R) /\ Complete(R) /\ Wholes(R)
  BY <1>2, <1>10
<1>17. u \in Nat /\ \A j \in 1 .. Len(R) : R[j].n < u
  BY <1>3, <1>10
<1>18. CASE x.n = k /\ R[i].all
  <2>1. t = Reassembled(R)
    BY <1>11, <1>14, <1>18
  <2>2. /\ t \in 0 .. Len(R)
        /\ t >= 1 /\ t < Len(R) /\ R[t + 1].all
             => R[t + 1].n # R[t].n /\ R[t + 1].n # R[t].n + 1
        /\ Len(R) >= 1 /\ R[1].all => t >= 1
    <3>1. LongestRun(R, t)
      BY <1>16, <2>1, TakenRun
    <3> QED
      BY <3>1 DEF LongestRun
  <2>3. t >= 1
    BY <1>10, <1>13, <1>18, <2>2
  <2>4. i \in 1 .. t
    <3> SUFFICES ASSUME t < i PROVE FALSE
      BY <1>10, <1>13, <2>2
    <3>1. t + 1 \in 1 .. i /\ t \in 1 .. i /\ t < Len(R)
      BY <1>10, <1>13, <2>2, <2>3
    <3> QED
      BY <1>10, <1>18, <2>2, <2>3, <3>1
  <2>5. PICK m : m = R[t].n + 1
    OBVIOUS
  <2>6. RunOf(R, k, t)
    BY <1>16, <2>1, <2>3 DEF RunOf
  <2>7. vr_r' = m % SnModulo
    <3>1. R[i].sn = vr_r
      BY <1>10, <1>11, <1>18
    <3>2. NextVrR(R, i) = (R[t].n + 1) % SnModulo
      BY <1>2, <1>10, <2>1, <2>3, <2>4, <3>1, VrRun
    <3> QED
      BY <1>6, <1>11, <1>18, <2>5, <3>2
  <2>8. delivered' = m * PduSize /\ garbled' = FALSE
    <3>1. R[1].n = k /\ delivered = k * PduSize /\ garbled = FALSE
      BY <1>2, <1>10, <1>18
    <3>2. RunUpTo(R, k, t, m)
      BY <2>5, <2>6, <3>1, Zenon DEF RunUpTo
    <3>3. UpTo(PassedOf(R, t), m)
      BY <3>2, PassedRun
    <3> QED
      BY <1>6, <3>3, Zenon DEF PassedOf, UpTo
  <2>9. PICK Q \in Seq(Element) : /\ Q = SubSeq(R, t + 1, Len(R)) /\ Len(Q) = Len(R) - t
                                  /\ \A j \in 1 .. Len(R) - t : Q[j] = R[t + j]
    BY <1>13, <2>2, RestOf
  <2>10. m \in Nat /\ k <= m /\ m <= u /\ ListSound(Q, m, u)
    <3>1. IsRest(Q, R, t)
      BY <2>9 DEF IsRest
    <3>2. SentBefore(R, u)
      BY <1>17 DEF SentBefore
    <3> QED
      BY <2>5, <2>6, <3>1, <3>2, RestSound
  <2>11. ListSound(receiver_buffer', m, sent')
    BY <1>1, <1>6, <2>9, <2>10
  <2>12. sent' \in Nat /\ m <= sent' /\ sent' <= m + WindowSize
    BY <1>1, <1>2, <1>3, <2>10, RxFacts
  <2> QED
    BY <1>12, <2>7, <2>8, <2>10, <2>11, <2>12, InvariantAfter
<1>19. CASE ~(x.n = k /\ R[i].all)
  <2>1. t = 0
    <3>1. CASE x.n # k
      BY <1>11, <1>15, <3>1
    <3>2. CASE x.n = k
      <4>1. ~R[1].all
        BY <1>10, <1>19, <3>2
      <4>2. t = Reassembled(R)
        BY <1>11, <1>14, <3>2
      <4>3. t \in 0 .. Len(R) /\ \A j \in 1 .. t : R[j].all
        <5>1. LongestRun(R, t)
          BY <1>16, <4>2, TakenRun
        <5> QED
          BY <5>1 DEF LongestRun
      <4>4. ~(1 \in 1 .. t)
        BY <4>1, <4>3
      <4> QED
        BY <1>13, <4>3, <4>4
    <3> QED
      BY <3>1, <3>2
  <2>2. receiver_buffer' = R /\ delivered' = delivered /\ garbled' = garbled
    <3>1. SubSeq(R, t + 1, Len(R)) = R
      BY <1>13, <2>1, NothingTaken
    <3>2. Passed(SubSeq(R, 1, t)) = [at |-> delivered, bad |-> garbled]
      BY <1>13, <2>1, NothingTaken
    <3> QED
      BY <1>6, <3>1, <3>2
  <2>3. vr_r' = vr_r
    BY <1>6, <1>11, <1>19
  <2>4. ListSound(R, k, u)
    BY <1>10, <1>19 DEF ListSound
  <2>5. ListSound(receiver_buffer', k, sent')
    BY <1>1, <2>2, <2>4
  <2>6. sent' \in Nat /\ k <= sent' /\ sent' <= k + WindowSize
    BY <1>1, <1>3
  <2>7. delivered' = k * PduSize /\ garbled' = FALSE /\ vr_r' = k % SnModulo
    BY <1>2, <2>2, <2>3
  <2> QED
    BY <1>2, <1>12, <2>5, <2>6, <2>7, InvariantAfter
<1> QED
  BY <1>18, <1>19
-----------------------------------------------------------------------------
(* The theorems.                                                            *)

LEMMA RxInvariantInit == RxInit => RxInvariant
<1> SUFFICES ASSUME RxInit PROVE RxInvariant
  OBVIOUS
<1>1. 0 * PduSize = 0
  BY RxFacts
<1>2. InOrder = 0
  BY <1>1, InOrderOf DEF RxInit, InOrder
<1>3. 0 % SnModulo = 0 /\ 0 \in SN
  BY RxFacts, ModNear DEF SN
<1>4. ListSound(receiver_buffer, 0, 0)
  BY DEF RxInit, ListSound, InWindow, Sorted, Complete, Wholes
<1>5. {vr_h, vr_x, vr_ms} \subseteq SN
  BY <1>3 DEF RxInit
<1>6. {t_reordering, status_requested, t_status_prohibit} \subseteq BOOLEAN
  BY DEF RxInit
<1>7. InOrder \in Nat /\ delivered = InOrder * PduSize /\ garbled = FALSE
  BY <1>1, <1>2 DEF RxInit
<1>8. vr_r = InOrder % SnModulo
  BY <1>2, <1>3 DEF RxInit
<1>9. sent \in Nat /\ InOrder <= sent /\ sent <= InOrder + WindowSize
  BY <1>2, RxFacts DEF RxInit
<1>10. ListSound(receiver_buffer, InOrder, sent)
  BY <1>2, <1>4 DEF RxInit
<1> QED
  BY <1>5, <1>6, <1>7, <1>8, <1>9, <1>10 DEF RxInvariant

\* A PDU that arrives and is not misplaced.
LEMMA RxReceiveStep ==
  ASSUME RxInvariant, NEW n \in Arrivals, NEW x \in Pdus(n), Receive(x),
         ~Misplaced(x, Place(x)), sent' = IF n < sent THEN sent ELSE n + 1
  PROVE  RxInvariant'
<1>1. PICK i : i = Place(x)
  OBVIOUS
<1>2. ~Misplaced(x, i) /\ (OutOfWindow(x) \/ Dropped(x, i) \/ Placed(x, i))
  BY <1>1 DEF Receive
<1>3. CASE OutOfWindow(x)
  BY <1>3, UnplacedStep DEF OutOfWindow
<1>4. CASE Dropped(x, i)
  BY <1>4, UnplacedStep DEF Dropped
<1>5. CASE Placed(x, i)
  BY <1>1, <1>2, <1>5, PlacedStep
<1> QED
  BY <1>2, <1>3, <1>4, <1>5

\* Any other step.
LEMMA RxQuietStep ==
  ASSUME RxInvariant,
         \/ \E g \in RxGrants : SendStatus(g) /\ UNCHANGED <<sent, misplaced>>
         \/ ProhibitExpires /\ UNCHANGED <<sent, misplaced>>
         \/ UNCHANGED rx_vars
  PROVE  RxInvariant'
<1>2. ASSUME UNCHANGED <<vr_r, vr_h, vr_x, vr_ms, t_reordering, receiver_buffer, delivered,
                         garbled, sent>>,
             status_requested' \in BOOLEAN, t_status_prohibit' \in BOOLEAN
      PROVE  RxInvariant'
  <2>1. PICK k : k = InOrder
    OBVIOUS
  <2>2. /\ k \in Nat /\ delivered' = k * PduSize /\ garbled' = FALSE /\ vr_r' = k % SnModulo
        /\ {vr_h', vr_x', vr_ms'} \subseteq SN
        /\ {t_reordering', status_requested', t_status_prohibit'} \subseteq BOOLEAN
        /\ sent' \in Nat /\ k <= sent' /\ sent' <= k + WindowSize
    BY <1>2, <2>1 DEF RxInvariant
  <2>3. ListSound(receiver_buffer', k, sent')
    BY <1>2, <2>1 DEF RxInvariant
  <2> QED
    BY <2>2, <2>3, InvariantAfter
<1>3. status_requested \in BOOLEAN /\ t_status_prohibit \in BOOLEAN
  BY DEF RxInvariant
<1>4. CASE \E g \in RxGrants : SendStatus(g) /\ UNCHANGED <<sent, misplaced>>
  BY <1>2, <1>4 DEF SendStatus
<1>5. CASE ProhibitExpires /\ UNCHANGED <<sent, misplaced>>
  BY <1>2, <1>3, <1>5 DEF ProhibitExpires
<1>6. CASE UNCHANGED rx_vars
  BY <1>2, <1>3, <1>6 DEF rx_vars
<1> QED
  BY <1>4, <1>5, <1>6

\* What holds for as long as no PDU was misplaced.
KeptInvariant == misplaced \in Nat /\ (misplaced = 0 => RxInvariant)

LEMMA KeptStep ==
  ASSUME KeptInvariant, [RxNext]_rx_vars
  PROVE  KeptInvariant'
<1> DEFINE In(n, x) == /\ Receive(x) /\ sent' = IF n < sent THEN sent ELSE n + 1
<1>1. misplaced \in Nat
  BY DEF KeptInvariant
<1>2. CASE \E n \in Arrivals : \E x \in Pdus(n) : In(n, x)
  <2>1. PICK n \in Arrivals : \E x \in Pdus(n) : In(n, x)
    BY <1>2
  <2>2. PICK x \in Pdus(n) : In(n, x)
    BY <2>1
  <2>3. misplaced' = IF misplaced > 0 \/ Misplaced(x, Place(x)) THEN misplaced + 1 ELSE 0
    BY <2>2 DEF Receive
  <2>4. misplaced' \in Nat /\ (misplaced' = 0 => misplaced = 0 /\ ~Misplaced(x, Place(x)))
    BY <1>1, <2>3
  <2>5. misplaced' = 0 => RxInvariant'
    BY <2>2, <2>4, RxReceiveStep DEF KeptInvariant
  <2> QED
    BY <2>4, <2>5 DEF KeptInvariant
<1>3. CASE ~(\E n \in Arrivals : \E x \in Pdus(n) : In(n, x))
  <2>1. \/ \E g \in RxGrants : SendStatus(g) /\ UNCHANGED <<sent, misplaced>>
        \/ ProhibitExpires /\ UNCHANGED <<sent, misplaced>>
        \/ UNCHANGED rx_vars
    BY <1>3 DEF RxNext
  <2>2. misplaced' = misplaced
    BY <2>1 DEF rx_vars
  <2> HIDE DEF In
  <2>3. RxInvariant => RxInvariant'
    BY <2>1, RxQuietStep
  <2> QED
    BY <1>1, <2>2, <2>3 DEF KeptInvariant
<1> QED
  BY <1>2, <1>3

\* For as long as no PDU was misplaced the invariant holds.
LEMMA RxInvariantHolds == RxSpec => []KeptInvariant
<1>1. RxInit => KeptInvariant
  BY RxInvariantInit DEF KeptInvariant, RxInit
<1>2. KeptInvariant /\ [RxNext]_rx_vars => KeptInvariant'
  BY KeptStep
<1> QED
  BY <1>1, <1>2, PTL DEF RxSpec

\* For as long as no PDU was misplaced the fields of the receiver keep their types
\* whatever arrives and in whatever order: the state variables are SNs, what is
\* stored are PDUs and segments of PDUs, and what rlc_am_receive_process_data_pdu
\* passes on is a whole number of bytes.
THEOREM RxTypesSafe == RxSpec => [](misplaced = 0 => RxTypeOK)
<1>1. KeptInvariant => (misplaced = 0 => RxTypeOK)
  <2> SUFFICES ASSUME RxInvariant, misplaced \in Nat PROVE RxTypeOK
    BY DEF KeptInvariant
  <2>1. PICK k \in Nat : /\ k = InOrder /\ delivered = k * PduSize /\ vr_r = k % SnModulo
                         /\ InWindow(receiver_buffer, k)
    BY DEF RxInvariant, ListSound
  <2>2. vr_r \in SN
    BY <2>1, RxFacts, SnOf
  <2>3. receiver_buffer \in Seq(Element)
    BY <2>1 DEF InWindow
  <2>4. delivered \in Nat
    BY <2>1, InOrderOf
  <2>5. {vr_r, vr_h, vr_x, vr_ms} \subseteq SN
    BY <2>2 DEF RxInvariant
  <2>6. {t_reordering, status_requested, t_status_prohibit, garbled} \subseteq BOOLEAN
    BY DEF RxInvariant
  <2>7. sent \in Nat
    BY DEF RxInvariant
  <2> QED
    BY <2>3, <2>4, <2>5, <2>6, <2>7 DEF RxTypeOK
<1> QED
  BY <1>1, RxInvariantHolds, PTL

\* A list that is sound is in the order of the stream as seen from VR(R).
LEMMA SoundInOrder == RxInvariant => ListInOrder
<1> SUFFICES ASSUME RxInvariant PROVE ListInOrder
  OBVIOUS
<1>1. PICK k \in Nat : /\ vr_r = k % SnModulo /\ InWindow(receiver_buffer, k)
                       /\ Sorted(receiver_buffer)
                       /\ Len(receiver_buffer) >= 1
                            => ~(receiver_buffer[1].all /\ receiver_buffer[1].n = k)
  BY DEF RxInvariant, ListSound
<1>2. /\ receiver_buffer \in Seq(Element) /\ Len(receiver_buffer) \in Nat
      /\ DOMAIN receiver_buffer = 1 .. Len(receiver_buffer)
  BY <1>1 DEF InWindow
<1>3. ASSUME NEW c, Shaped(c), c.n \in k .. k + WindowSize - 1
      PROVE  /\ c.n \in Nat /\ Dist(vr_r, c.sn) = c.n - k /\ InRxWindow(c.sn)
             /\ c.sn = vr_r => c.n = k
  <2>1. PICK n \in Nat : n = c.n /\ c.sn = n % SnModulo
    BY <1>3, ShapeFacts
  <2>2. k <= n /\ n < k + WindowSize /\ k - WindowSize <= n /\ k <= n + WindowSize
    BY <1>3, <2>1, RxFacts
  <2>3. n <= k + WindowSize
    BY <2>1, <2>2, RxFacts
  <2>4. Dist(vr_r, c.sn) = n - k
    <3>1. Dist(k % SnModulo, n % SnModulo) = IF n < k THEN n - k + SnModulo ELSE n - k
      BY <2>2, <2>3, DistOf
    <3> QED
      BY <1>1, <2>1, <2>2, <3>1
  <2>5. n - k < WindowSize
    BY <2>1, <2>2, RxFacts
  <2>6. n % SnModulo = k % SnModulo => n = k
    BY <2>2, <2>3, SameSn
  <2> QED
    BY <1>1, <2>1, <2>4, <2>5, <2>6 DEF InRxWindow
<1>4. \A i \in 1 .. Len(receiver_buffer) :
        Shaped(receiver_buffer[i]) /\ receiver_buffer[i].n \in k .. k + WindowSize - 1
  BY <1>1 DEF InWindow
<1>5. \A i \in DOMAIN receiver_buffer : InRxWindow(receiver_buffer[i].sn)
  BY <1>2, <1>3, <1>4
<1>6. ASSUME NEW i \in 1 .. Len(receiver_buffer) - 1, NEW a, NEW b,
             a = receiver_buffer[i], b = receiver_buffer[i + 1]
      PROVE  \/ Dist(vr_r, a.sn) < Dist(vr_r, b.sn)
             \/ a.sn = b.sn /\ a.rf /\ b.rf /\ End(a) <= b.so
  <2>1. i \in 1 .. Len(receiver_buffer) /\ i + 1 \in 1 .. Len(receiver_buffer)
    BY <1>2
  <2>2. /\ Shaped(a) /\ a.n \in k .. k + WindowSize - 1
        /\ Shaped(b) /\ b.n \in k .. k + WindowSize - 1
    BY <1>4, <1>6, <2>1
  <2>3. Follows(a, b)
    BY <1>1, <1>6 DEF Sorted
  <2>4. a.n \in Nat /\ b.n \in Nat /\ Dist(vr_r, a.sn) = a.n - k /\ Dist(vr_r, b.sn) = b.n - k
    BY <1>3, <2>2
  <2>5. a.n = b.n => a.sn = b.sn
    BY <2>2 DEF Shaped
  <2>6. a.n < b.n => Dist(vr_r, a.sn) < Dist(vr_r, b.sn)
    BY <2>4
  <2> QED
    BY <2>3, <2>5, <2>6 DEF Follows
<1>7. receiver_buffer # <<>>
        => ~(Head(receiver_buffer).all /\ Head(receiver_buffer).sn = vr_r)
  <2> SUFFICES ASSUME receiver_buffer # <<>>
               PROVE  ~(Head(receiver_buffer).all /\ Head(receiver_buffer).sn = vr_r)
    OBVIOUS
  <2>1. 1 \in 1 .. Len(receiver_buffer) /\ Head(receiver_buffer) = receiver_buffer[1]
    BY <1>2
  <2>2. receiver_buffer[1].sn = vr_r => receiver_buffer[1].n = k
    BY <1>3, <1>4, <2>1
  <2> QED
    BY <1>1, <2>1, <2>2
<1> QED
  BY <1>5, <1>6, <1>7 DEF ListInOrder

\* VR(R) is the SN after what was passed on, in sequence.
LEMMA SoundInSequence == RxInvariant => InSequence
<1> SUFFICES ASSUME RxInvariant PROVE InSequence
  OBVIOUS
<1>1. PICK k \in Nat : k = InOrder /\ delivered = k * PduSize /\ vr_r = k % SnModulo
  BY DEF RxInvariant
<1>2. delivered % PduSize = 0
  BY <1>1, InOrderOf
<1>3. garbled = FALSE
  BY DEF RxInvariant
<1> QED
  BY <1>1, <1>2, <1>3 DEF InSequence

\* Whatever PDUs and segments of PDUs arrive, twice or out of order: the three walks
\* of rlc_am_rx_list_insert_pdu keep the list in the order of the stream, and
\* rlc_am_reassemble_pdu passes that stream to PDCP without a gap, a repetition or a
\* byte out of place, up to the first PDU that is after the wrap and before all that
\* is stored, or that overlaps with its neighbour at the wrap.
THEOREM OrderSafe == RxSpec => []OrderKept
<1>1. KeptInvariant => OrderKept
  BY SoundInOrder, SoundInSequence DEF KeptInvariant, OrderKept
<1> QED
  BY <1>1, RxInvariantHolds, PTL
-----------------------------------------------------------------------------
(* rlc_am_send_status_pdu: places in the window, and bytes.                 *)

\* The SN at offset o from VR(R); offset -1 is before the window.
At(o) == Plus(vr_r, o)

AtValue(o, e) ==
  /\ e \in Int /\ e = At(o) /\ e \in SN /\ 0 <= e /\ e < SnModulo
  /\ e = vr_r + o \/ e + SnModulo = vr_r + o \/ e = (vr_r + o) + SnModulo

LEMMA AtIs ==
  ASSUME vr_r \in SN, NEW o \in -1 .. WindowSize
  PROVE  \E e : AtValue(o, e)
<1>1. vr_r \in Int /\ 0 <= vr_r /\ vr_r < SnModulo
  BY RxFacts DEF SN
<1>2. PICK d \in Int : d = vr_r + o
  BY <1>1, RxFacts
<1>3. -SnModulo <= d /\ d < SnModulo + SnModulo
  BY <1>1, <1>2, RxFacts
<1>4. PICK e : e = d % SnModulo
  OBVIOUS
<1>5. /\ d < 0 => e = d + SnModulo
      /\ 0 <= d /\ d < SnModulo => e = d
      /\ SnModulo <= d => e = d - SnModulo
  BY <1>3, <1>4, ModNear
<1>6. At(o) = e
  BY <1>2, <1>4 DEF At, Plus
<1>7. e \in Int /\ 0 <= e /\ e < SnModulo /\ (e = d \/ e + SnModulo = d \/ e = d + SnModulo)
  BY <1>3, <1>5, RxFacts
<1>8. e \in SN
  BY <1>7, RxFacts DEF SN
<1> QED
  BY <1>2, <1>6, <1>7, <1>8 DEF AtValue

LEMMA AtIn ==
  ASSUME vr_r \in SN, NEW o \in -1 .. WindowSize
  PROVE  At(o) \in SN /\ At(o) # -1
<1>1. PICK e : AtValue(o, e)
  BY AtIs
<1> QED
  BY <1>1 DEF AtValue

\* Offsets in the window, and before it, are told apart by their SNs.
LEMMA AtDistinct ==
  ASSUME vr_r \in SN, NEW o \in -1 .. WindowSize - 1, NEW p \in -1 .. WindowSize - 1,
         At(o) = At(p)
  PROVE  o = p
<1>1. vr_r \in Int /\ o \in -1 .. WindowSize /\ p \in -1 .. WindowSize
  BY RxFacts DEF SN
<1>2. PICK e : AtValue(o, e)
  BY <1>1, AtIs
<1>3. PICK f : AtValue(p, f)
  BY <1>1, AtIs
<1>4. e = f
  BY <1>2, <1>3 DEF AtValue
<1> QED
  BY <1>1, <1>2, <1>3, <1>4, RxFacts DEF AtValue

LEMMA AtDist ==
  ASSUME vr_r \in SN, NEW p \in -1 .. WindowSize, NEW o \in p .. WindowSize, o - p < SnModulo
  PROVE  Dist(At(p), At(o)) = o - p
<1>1. vr_r \in Int /\ o \in -1 .. WindowSize /\ p \in Int /\ o \in Int /\ p <= o
  BY RxFacts DEF SN
<1>2. PICK e : AtValue(o, e)
  BY <1>1, AtIs
<1>3. PICK f : AtValue(p, f)
  BY AtIs
<1>4. PICK d \in Int : d = o - p /\ 0 <= d /\ d < SnModulo
  BY <1>1
<1>5. PICK g \in Int : g = e - f /\ -SnModulo < g /\ g < SnModulo
  BY <1>2, <1>3, RxFacts DEF AtValue
<1>6. g = d \/ g + SnModulo = d
  BY <1>1, <1>2, <1>3, <1>4, <1>5, RxFacts DEF AtValue
<1>7. /\ g < 0 => g % SnModulo = g + SnModulo
      /\ 0 <= g => g % SnModulo = g
  BY <1>5, RxFacts, ModNear
<1>8. g % SnModulo = d
  BY <1>4, <1>5, <1>6, <1>7, RxFacts
<1> QED
  BY <1>2, <1>3, <1>4, <1>5, <1>8 DEF Dist, AtValue

LEMMA AtPlus ==
  ASSUME vr_r \in SN, NEW p \in -1 .. WindowSize, NEW j \in 0 .. WindowSize - p
  PROVE  Plus(At(p), j) = At(p + j)
<1>1. vr_r \in Int /\ p + j \in -1 .. WindowSize /\ p \in Int /\ j \in Int /\ j >= 0
      /\ j <= WindowSize + 1
  BY RxFacts DEF SN
<1>2. PICK o \in -1 .. WindowSize : o = p + j
  BY <1>1
<1>3. PICK e : AtValue(o, e)
  BY AtIs
<1>4. PICK f : AtValue(p, f)
  BY AtIs
<1>5. PICK g \in Int : g = f + j /\ 0 <= g /\ g < SnModulo + SnModulo
  BY <1>1, <1>4, RxFacts DEF AtValue
<1>6. e = g \/ e + SnModulo = g
  BY <1>1, <1>2, <1>3, <1>4, <1>5, RxFacts DEF AtValue
<1>7. /\ 0 <= g /\ g < SnModulo => g % SnModulo = g
      /\ SnModulo <= g => g % SnModulo = g - SnModulo
  <2>1. g \in Int /\ -SnModulo <= g /\ g < SnModulo + SnModulo
    BY <1>5, RxFacts
  <2> QED
    BY <2>1, ModNear
<1>8. g % SnModulo = e
  BY <1>3, <1>5, <1>6, <1>7, RxFacts DEF AtValue
<1> QED
  BY <1>2, <1>3, <1>4, <1>5, <1>8 DEF Plus, AtValue

\* The SN of PDU n in the window from PDU k.
LEMMA SnAt ==
  ASSUME NEW k \in Nat, vr_r = k % SnModulo, NEW n \in k .. k + WindowSize - 1
  PROVE  n % SnModulo = At(n - k) /\ vr_r \in SN
<1>1. n \in Nat /\ k - WindowSize <= n /\ n <= k + WindowSize
  BY RxFacts
<1>2. PICK w : /\ w = n % SnModulo /\ w \in SN /\ vr_r \in SN
               /\ w \in {vr_r + (n - k), vr_r + (n - k) - SnModulo, vr_r + (n - k) + SnModulo}
  BY <1>1, SnOf
<1>3. vr_r \in Int /\ 0 <= vr_r /\ vr_r < SnModulo /\ w \in Int /\ 0 <= w /\ w < SnModulo
  BY <1>2, RxFacts DEF SN
<1>4. PICK o \in -1 .. WindowSize : o = n - k /\ 0 <= o
  BY <1>1, RxFacts
<1>5. PICK e : AtValue(o, e)
  BY <1>2, AtIs
<1>6. e = w
  BY <1>2, <1>3, <1>4, <1>5, RxFacts DEF AtValue
<1> QED
  BY <1>2, <1>4, <1>5, <1>6 DEF AtValue

\* The receiver has byte y of PDU n in the list.
Have(list, n, y) == \E j \in 1 .. Len(list) : list[j].n = n /\ list[j].so <= y /\ y < End(list[j])

\* Where two elements that follow each other leave a hole.
Behind(c, n, y) == c.n < n \/ (c.n = n /\ End(c) <= y)
Ahead(c, n, y) == n < c.n \/ (c.n = n /\ y < c.so)

LEMMA HoleIs ==
  ASSUME NEW k \in Nat, NEW list, InWindow(list, k), Sorted(list), NEW n \in Nat, NEW y \in Nat,
         NEW i \in 0 .. Len(list), i >= 1 => Behind(list[i], n, y),
         i < Len(list) => Ahead(list[i + 1], n, y)
  PROVE  ~Have(list, n, y)
<1> SUFFICES ASSUME NEW j \in 1 .. Len(list), list[j].n = n, list[j].so <= y, y < End(list[j])
             PROVE  FALSE
  BY DEF Have
<1>1. Len(list) \in Nat /\ \A m \in 1 .. Len(list) : Shaped(list[m])
  BY DEF InWindow
<1>2. PICK c : c = list[j] /\ Shaped(c) /\ c.n = n /\ c.so <= y /\ y < End(c)
  BY <1>1
<1>3. c.n \in Nat /\ c.so \in Nat /\ End(c) \in Nat
  BY <1>2, ShapeFacts
<1>4. CASE j <= i
  <2>1. PICK d : d = list[i] /\ Shaped(d) /\ Behind(d, n, y)
    BY <1>1, <1>4
  <2>2. d.n \in Nat /\ d.so \in Nat /\ End(d) \in Nat /\ d.so < End(d)
    BY <2>1, ShapeFacts
  <2>3. CASE j = i
    BY <1>2, <1>3, <2>1, <2>2, <2>3 DEF Behind
  <2>4. CASE j < i
    <3>1. Follows(c, d)
      BY <1>2, <1>4, <2>1, <2>4, SortedThroughout
    <3> QED
      BY <1>2, <1>3, <2>1, <2>2, <3>1 DEF Behind, Follows
  <2> QED
    BY <1>4, <2>3, <2>4
<1>5. CASE j > i
  <2>0. i + 1 \in 1 .. Len(list) /\ i < Len(list)
    BY <1>1, <1>5
  <2>1. PICK d : d = list[i + 1] /\ Shaped(d) /\ Ahead(d, n, y)
    BY <1>1, <2>0
  <2>2. d.n \in Nat /\ d.so \in Nat /\ End(d) \in Nat /\ d.so < End(d)
    BY <2>1, ShapeFacts
  <2>3. CASE j = i + 1
    BY <1>2, <1>3, <2>1, <2>2, <2>3 DEF Ahead
  <2>4. CASE i + 1 < j
    <3>1. Follows(d, c)
      BY <1>2, <2>0, <2>1, <2>4, SortedThroughout
    <3> QED
      BY <1>2, <1>3, <2>1, <2>2, <3>1 DEF Ahead, Follows
  <2> QED
    BY <1>5, <2>3, <2>4
<1> QED
  BY <1>4, <1>5

\* A marked PDU is there from its first byte to its last.
LEMMA MarkedUpTo ==
  ASSUME NEW k \in Nat, NEW list, InWindow(list, k), Complete(list), NEW i \in 1 .. Len(list),
         list[i].all
  PROVE  \A y \in Nat : y < End(list[i]) => Have(list, list[i].n, y)
<1> DEFINE N == Len(list)
           S == {m \in Nat : m >= 1 /\ m <= N /\ list[m].all =>
                               \A y \in Nat : y < End(list[m]) => Have(list, list[m].n, y)}
<1>1. N \in Nat /\ \A m \in 1 .. N : Shaped(list[m])
  BY DEF InWindow
<1>2. 0 \in S
  OBVIOUS
<1>3. ASSUME NEW m \in 0 .. N - 1, m \in S PROVE m + 1 \in S
  <2>1. m + 1 \in Nat /\ m + 1 \in 1 .. N
    BY <1>1
  <2> SUFFICES ASSUME list[m + 1].all, NEW y \in Nat, y < End(list[m + 1])
               PROVE  Have(list, list[m + 1].n, y)
    BY <2>1
  <2>2. PICK c : c = list[m + 1] /\ Shaped(c) /\ c.all
    BY <1>1, <2>1
  <2>3. c.so \in Nat /\ c.rf \in BOOLEAN /\ (~c.rf => c.so = 0)
    BY <2>2, ShapeFacts
  <2>4. CASE c.so <= y
    BY <2>1, <2>2, <2>4 DEF Have
  <2>5. CASE ~(c.so <= y)
    <3>1. c.so # 0 /\ c.rf /\ y < c.so
      BY <2>3, <2>5
    <3>2. m + 1 - 1 = m
      BY <1>1
    <3>3. m >= 1 /\ list[m].n = c.n /\ list[m].all /\ End(list[m]) = c.so
      BY <1>1, <2>1, <2>2, <3>1, <3>2 DEF Complete
    <3>4. Have(list, list[m].n, y)
      BY <1>1, <1>3, <3>1, <3>3
    <3> QED
      BY <2>2, <3>3, <3>4
  <2> QED
    BY <2>4, <2>5
<1> HIDE DEF S
<1>4. \A m \in 0 .. N : m \in S
  BY <1>1, <1>2, <1>3, InductionUpTo
<1>5. i \in S /\ i \in Nat /\ i >= 1 /\ i <= N
  BY <1>1, <1>4
<1> QED
  BY <1>5 DEF S

LEMMA MarkedIsThere ==
  ASSUME NEW k \in Nat, NEW list, InWindow(list, k), Complete(list), NEW i \in 1 .. Len(list),
         list[i].all, NEW y \in 0 .. PduSize - 1
  PROVE  Have(list, list[i].n, y)
<1>1. Len(list) \in Nat /\ \A m \in 1 .. Len(list) : Shaped(list[m])
  BY DEF InWindow
<1>2. PICK n : n = list[i].n
  OBVIOUS
<1> DEFINE J == {j \in 1 .. Len(list) : list[j].n = n /\ list[j].all}
<1>3. i \in J /\ J \subseteq Int /\ Len(list) \in Int /\ \A j \in J : j <= Len(list)
  BY <1>1, <1>2
<1>4. Max(J) \in J /\ \A j \in J : j <= Max(J)
  <2> HIDE DEF J
  <2> QED
    BY <1>3, MaxIsGreatest
<1>5. PICK j \in J : \A m \in J : m <= j
  BY <1>4
<1>6. j \in 1 .. Len(list) /\ list[j].n = n /\ list[j].all
  BY <1>5
<1>7. j < Len(list) => ~(list[j + 1].n = n /\ list[j + 1].all)
  <2> SUFFICES ASSUME j < Len(list), list[j + 1].n = n, list[j + 1].all PROVE FALSE
    OBVIOUS
  <2>1. j + 1 \in J
    BY <1>1, <1>6
  <2> QED
    BY <1>5, <1>6, <2>1
<1>8. PICK c : c = list[j] /\ Shaped(c)
  BY <1>1, <1>6
<1>9. End(c) = PduSize
  <2>1. CASE ~c.rf
    BY <1>8, <2>1, ShapeFacts
  <2>2. CASE c.rf
    <3>1. c.lsf
      BY <1>6, <1>7, <1>8, <2>2 DEF Complete
    <3> QED
      BY <1>8, <2>2, <3>1, ShapeFacts
  <2> QED
    BY <2>1, <2>2
<1>10. y \in Nat /\ y < End(c)
  BY <1>9, RxFacts
<1> QED
  BY <1>2, <1>6, <1>8, <1>10, MarkedUpTo
-----------------------------------------------------------------------------
(* rlc_am_send_status_pdu: what the NACKs say of the list.                  *)

\* A NACK of q asks for byte y of SN sn.
Asked(q, sn, y) == \E j \in 1 .. Len(q) : q[j].sn = sn /\ q[j].so_start <= y /\ y <= q[j].so_end

\* Every byte of the PDU at offset o is in the list b or asked for.
Told(b, k, q, o) == \A y \in 0 .. PduSize - 1 : Have(b, k + o, y) \/ Asked(q, At(o), y)

\* The bytes lo .. hi of PDU n are not in the list.
Missing(b, n, lo, hi) == \A y \in 0 .. PduSize - 1 : lo <= y /\ y <= hi => ~Have(b, n, y)

\* The NACK e asks only for bytes that are missing.
NackWanted(b, k, e) ==
  \E o \in 0 .. WindowSize - 1 : e.sn = At(o) /\ Missing(b, k + o, e.so_start, e.so_end)
                                 /\ e.so_start \in Nat /\ e.so_end \in Nat

\* The NACKs q are right, and say all up to offset p.
Sound(b, k, q, p) ==
  /\ IsSeq(q) /\ \A j \in 1 .. Len(q) : NackWanted(b, k, q[j])
  /\ \A o \in 0 .. p : Told(b, k, q, o)

\* r is q with a NACK of the bytes lo .. hi at offset o.
NackAdded(b, k, q, p, o, lo, hi, r) ==
  /\ Sound(b, k, r, p)
  /\ \A sn, y : Asked(q, sn, y) => Asked(r, sn, y)
  /\ \A y \in Nat : lo <= y /\ y <= hi => Asked(r, At(o), y)

LEMMA NackSound ==
  ASSUME NEW b, NEW k \in Nat, NEW q, NEW p \in -1 .. WindowSize, Sound(b, k, q, p),
         NEW o \in 0 .. WindowSize - 1, NEW lo \in Nat, NEW hi \in Nat,
         Missing(b, k + o, lo, hi), NEW r, r = Append(q, Nack(At(o), lo, hi))
  PROVE  NackAdded(b, k, q, p, o, lo, hi, r)
<1>1. PICK e : e = Nack(At(o), lo, hi)
  OBVIOUS
<1>2. e.sn = At(o) /\ e.so_start = lo /\ e.so_end = hi
  BY <1>1 DEF Nack
<1>3. IsSeq(q) /\ r = Append(q, e)
  BY <1>1 DEF Sound
<1>4. /\ IsSeq(r) /\ Len(r) = Len(q) + 1 /\ Len(q) \in Nat
      /\ \A j \in 1 .. Len(q) : r[j] = q[j]
      /\ r[Len(q) + 1] = e
  BY <1>3, AppendIs DEF IsSeq
<1>5. PICK n \in Nat : n = Len(q)
  BY <1>4
<1>6. /\ Len(r) = n + 1 /\ r[n + 1] = e /\ \A j \in 1 .. n : r[j] = q[j]
  BY <1>4, <1>5
<1>7. \A sn, y : Asked(q, sn, y) => Asked(r, sn, y)
  <2> SUFFICES ASSUME NEW sn, NEW y, NEW j \in 1 .. n,
                      q[j].sn = sn, q[j].so_start <= y, y <= q[j].so_end
               PROVE  Asked(r, sn, y)
    BY <1>5 DEF Asked
  <2>1. j \in 1 .. n + 1 /\ r[j] = q[j]
    BY <1>6
  <2> QED
    BY <1>6, <2>1 DEF Asked
<1>8. \A y \in Nat : lo <= y /\ y <= hi => Asked(r, At(o), y)
  <2>1. n + 1 \in 1 .. Len(r)
    BY <1>6
  <2> QED
    BY <1>2, <1>6, <2>1 DEF Asked
<1>9. NackWanted(b, k, e)
  BY <1>2 DEF NackWanted
<1>10. \A j \in 1 .. Len(r) : NackWanted(b, k, r[j])
  <2> SUFFICES ASSUME NEW j \in 1 .. Len(r) PROVE NackWanted(b, k, r[j])
    OBVIOUS
  <2>1. CASE j = n + 1
    BY <1>6, <1>9, <2>1
  <2>2. CASE j # n + 1
    <3>1. j \in 1 .. n
      BY <1>6, <2>2
    <3> QED
      BY <1>5, <1>6, <3>1 DEF Sound
  <2> QED
    BY <2>1, <2>2
<1>11. \A m \in 0 .. p : Told(b, k, r, m)
  BY <1>7 DEF Told, Sound
<1> QED
  BY <1>4, <1>7, <1>8, <1>10, <1>11 DEF Sound, NackAdded
-----------------------------------------------------------------------------
(* rlc_am_send_status_pdu: the states of the loop over the list.             *)

State(done, ack, nacks, bits, prev, open, waited, segments) ==
  [done |-> done, ack |-> ack, nacks |-> nacks, bits |-> bits, prev |-> prev,
   open |-> open, waited |-> waited, segments |-> segments]

IsState(s) ==
  s = State(s.done, s.ack, s.nacks, s.bits, s.prev, s.open, s.waited, s.segments)

\* The report has ended: all before its ACK_SN is told.
Ended(b, k, s) ==
  IsState(s) /\ s.done = TRUE
  /\ \E a \in 0 .. WindowSize : s.ack = At(a) /\ Sound(b, k, s.nacks, a - 1)

\* All up to offset p is told.
Closed(b, k, s, p) ==
  /\ IsState(s) /\ s.done = FALSE /\ s.open = -1 /\ s.prev = At(p)
  /\ s.waited = 0 /\ s.segments = 0 /\ Sound(b, k, s.nacks, p)

\* All up to offset p is told, and the bytes below w of the next offset.
Open(b, k, s, p, w) ==
  /\ IsState(s) /\ s.done = FALSE /\ s.open = At(p + 1) /\ s.prev = At(p)
  /\ s.waited = (IF w = PduSize THEN SoEnd ELSE w) /\ Sound(b, k, s.nacks, p)
  /\ \A y \in 0 .. PduSize - 1 :
       y < w => Have(b, k + (p + 1), y) \/ Asked(s.nacks, At(p + 1), y)

\* PushNack appends the NACK or ends the report.
Pushed(s, e, ack, r) ==
  /\ IsState(r) /\ r.prev = s.prev /\ r.open = s.open /\ r.waited = s.waited
  /\ r.segments = s.segments
  /\ \/ r.done = s.done /\ r.nacks = Append(s.nacks, e)
     \/ r.done = TRUE /\ r.ack = ack /\ r.nacks = s.nacks

LEMMA PushNackIs ==
  ASSUME NEW s, IsState(s), NEW e, NEW n, NEW ack, NEW r, r = PushNack(s, e, n, ack)
  PROVE  Pushed(s, e, ack, r)
<1>1. PICK d, a, q, m, p, o, w, g : s = State(d, a, q, m, p, o, w, g)
  BY DEF IsState
<1>2. s = [done |-> d, ack |-> a, nacks |-> q, bits |-> m, prev |-> p,
           open |-> o, waited |-> w, segments |-> g]
  BY <1>1 DEF State
<1>3. /\ s.done = d /\ s.nacks = q /\ s.prev = p /\ s.open = o /\ s.waited = w
      /\ s.segments = g
  BY <1>2
<1>4. CASE s.bits >= n
  <2>1. r = State(d, a, Append(q, e), m - n, p, o, w, g)
    BY <1>2, <1>4 DEF PushNack, State
  <2>2. /\ IsState(r) /\ r.done = d /\ r.nacks = Append(q, e) /\ r.prev = p /\ r.open = o
        /\ r.waited = w /\ r.segments = g
    BY <2>1 DEF State, IsState
  <2> QED
    BY <1>3, <2>2 DEF Pushed
<1>5. CASE ~(s.bits >= n)
  <2>1. r = State(TRUE, ack, q, m, p, o, w, g)
    BY <1>2, <1>5 DEF PushNack, State
  <2>2. /\ IsState(r) /\ r.done = TRUE /\ r.ack = ack /\ r.nacks = q /\ r.prev = p
        /\ r.open = o /\ r.waited = w /\ r.segments = g
    BY <2>1 DEF State, IsState
  <2> QED
    BY <1>3, <2>2 DEF Pushed
<1> QED
  BY <1>4, <1>5

\* The state with the report at another place.
Moved(s, pr, op, w, g) ==
  [s EXCEPT !.prev = pr, !.open = op, !.waited = w, !.segments = g]

LEMMA MovedIs ==
  ASSUME NEW s, IsState(s), NEW pr, NEW op, NEW w, NEW g, NEW r, r = Moved(s, pr, op, w, g)
  PROVE  /\ IsState(r) /\ r.done = s.done /\ r.ack = s.ack /\ r.nacks = s.nacks
         /\ r.prev = pr /\ r.open = op /\ r.waited = w /\ r.segments = g
<1>1. PICK d, a, q, m, p, o, v, h : s = State(d, a, q, m, p, o, v, h)
  BY DEF IsState
<1>2. r = State(d, a, q, m, pr, op, w, g)
  BY <1>1 DEF State, Moved
<1>3. s.done = d /\ s.ack = a /\ s.nacks = q
  BY <1>1 DEF State
<1> QED
  BY <1>2, <1>3 DEF State, IsState

\* The state with one more segment.
Counted(s, w) == [s EXCEPT !.waited = w, !.segments = @ + 1]

LEMMA CountedIs ==
  ASSUME NEW s, IsState(s), NEW w, NEW r, r = Counted(s, w)
  PROVE  /\ IsState(r) /\ r.done = s.done /\ r.ack = s.ack /\ r.nacks = s.nacks
         /\ r.prev = s.prev /\ r.open = s.open /\ r.waited = w
<1>1. PICK d, a, q, m, p, o, v, h : s = State(d, a, q, m, p, o, v, h)
  BY DEF IsState
<1>2. r = State(d, a, q, m, p, o, w, h + 1)
  BY <1>1 DEF State, Counted
<1>3. s.done = d /\ s.ack = a /\ s.nacks = q /\ s.prev = p /\ s.open = o
  BY <1>1 DEF State
<1> QED
  BY <1>2, <1>3 DEF State, IsState

\* A segment c of the PDU at offset p + 1, of which all below w is told: the report
\* ends, or tells all below the end of c.
LEMMA SegmentReported ==
  ASSUME vr_r \in SN, NEW b, NEW k \in Nat, NEW s, NEW p \in -1 .. WindowSize - 2,
         NEW w \in 0 .. PduSize - 1, Open(b, k, s, p, w),
         NEW c, Shaped(c), c.rf, c.sn = At(p + 1), w <= c.so,
         Missing(b, k + (p + 1), w, c.so - 1),
         \A y \in 0 .. PduSize - 1 : c.so <= y /\ y < End(c) => Have(b, k + (p + 1), y),
         NEW r, r = ReportSegment(s, c)
  PROVE  Ended(b, k, r) \/ Open(b, k, r, p, End(c))
<1>1. /\ c.so \in Nat /\ End(c) \in Nat /\ c.so < End(c) /\ End(c) <= PduSize
      /\ c.lsf <=> End(c) = PduSize
  BY ShapeFacts
<1>2. PICK o \in 0 .. WindowSize - 1 : o = p + 1 /\ o \in 0 .. WindowSize /\ o - 1 = p
  BY RxFacts
<1>3. /\ IsState(s) /\ s.done = FALSE /\ s.open = At(o) /\ s.prev = At(p)
      /\ s.waited = w /\ Sound(b, k, s.nacks, p)
      /\ \A y \in 0 .. PduSize - 1 : y < w => Have(b, k + o, y) \/ Asked(s.nacks, At(o), y)
  BY <1>2, RxFacts DEF Open
<1>4. PICK q : q = IF c.so > s.waited
                   THEN PushNack(s, Nack(c.sn, s.waited, c.so - 1), 42, c.sn) ELSE s
  OBVIOUS
<1>5. r = IF q.done THEN q
          ELSE [q EXCEPT !.waited = IF c.lsf THEN SoEnd ELSE End(c), !.segments = @ + 1]
  BY <1>4 DEF ReportSegment
<1>6. \/ Ended(b, k, q) /\ q.done = TRUE
      \/ /\ IsState(q) /\ q.done = FALSE /\ q.open = At(o) /\ q.prev = At(p)
         /\ Sound(b, k, q.nacks, p)
         /\ \A y \in 0 .. PduSize - 1 :
              y < c.so => Have(b, k + o, y) \/ Asked(q.nacks, At(o), y)
  <2>1. CASE ~(c.so > s.waited)
    <3>1. q = s /\ c.so = w
      BY <1>1, <1>3, <1>4, <2>1, RxFacts
    <3> QED
      BY <1>3, <3>1
  <2>2. CASE c.so > s.waited
    <3>1. PICK hi \in Nat : hi = c.so - 1 /\ w <= hi
      BY <1>1, <1>3, <2>2, RxFacts
    <3>2. PICK e : e = Nack(At(o), w, hi)
      OBVIOUS
    <3>3. q = PushNack(s, e, 42, At(o))
      BY <1>2, <1>3, <1>4, <2>2, <3>1, <3>2
    <3>4. Pushed(s, e, At(o), q)
      BY <1>3, <3>3, PushNackIs
    <3>5. CASE q.done = TRUE /\ q.ack = At(o) /\ q.nacks = s.nacks
      <4>1. IsState(q) /\ Sound(b, k, q.nacks, o - 1)
        BY <1>2, <1>3, <3>4, <3>5 DEF Pushed
      <4> QED
        BY <1>2, <3>5, <4>1 DEF Ended
    <3>6. CASE q.done = s.done /\ q.nacks = Append(s.nacks, e)
      <4>1. q.nacks = Append(s.nacks, Nack(At(o), w, hi))
        BY <3>2, <3>6
      <4>2. Missing(b, k + o, w, hi) /\ w \in Nat /\ p \in -1 .. WindowSize
        BY <1>2, <3>1, RxFacts
      <4>3. NackAdded(b, k, s.nacks, p, o, w, hi, q.nacks)
        BY <1>2, <1>3, <3>1, <4>1, <4>2, NackSound
      <4>4. /\ Sound(b, k, q.nacks, p)
            /\ \A sn, y : Asked(s.nacks, sn, y) => Asked(q.nacks, sn, y)
            /\ \A y \in Nat : w <= y /\ y <= hi => Asked(q.nacks, At(o), y)
        BY <4>3 DEF NackAdded
      <4>5. \A y \in 0 .. PduSize - 1 :
              y < c.so => Have(b, k + o, y) \/ Asked(q.nacks, At(o), y)
        <5> SUFFICES ASSUME NEW y \in 0 .. PduSize - 1, y < c.so
                     PROVE  Have(b, k + o, y) \/ Asked(q.nacks, At(o), y)
          OBVIOUS
        <5>1. y \in Nat /\ (y < w \/ (w <= y /\ y <= hi))
          BY <1>1, <3>1, RxFacts
        <5> QED
          BY <1>3, <4>4, <5>1
      <4>6. IsState(q) /\ q.open = At(o) /\ q.prev = At(p) /\ q.done = FALSE
        BY <1>3, <3>4, <3>6 DEF Pushed
      <4> QED
        BY <4>4, <4>5, <4>6
    <3> QED
      BY <3>4, <3>5, <3>6 DEF Pushed
  <2> QED
    BY <2>1, <2>2
<1>7. CASE Ended(b, k, q) /\ q.done = TRUE
  BY <1>5, <1>7
<1>8. CASE /\ IsState(q) /\ q.done = FALSE /\ q.open = At(o) /\ q.prev = At(p)
           /\ Sound(b, k, q.nacks, p)
           /\ \A y \in 0 .. PduSize - 1 :
                y < c.so => Have(b, k + o, y) \/ Asked(q.nacks, At(o), y)
  <2>1. PICK v : v = IF c.lsf THEN SoEnd ELSE End(c)
    OBVIOUS
  <2>2. v = IF End(c) = PduSize THEN SoEnd ELSE End(c)
    BY <1>1, <2>1
  <2>3. r = Counted(q, v)
    BY <1>5, <1>8, <2>1 DEF Counted
  <2>4. /\ IsState(r) /\ r.done = q.done /\ r.nacks = q.nacks
        /\ r.prev = q.prev /\ r.open = q.open /\ r.waited = v
    BY <1>8, <2>3, CountedIs
  <2>5. \A y \in 0 .. PduSize - 1 :
          y < End(c) => Have(b, k + o, y) \/ Asked(r.nacks, At(o), y)
    <3> SUFFICES ASSUME NEW y \in 0 .. PduSize - 1, y < End(c)
                 PROVE  Have(b, k + o, y) \/ Asked(r.nacks, At(o), y)
      OBVIOUS
    <3>1. CASE y < c.so
      BY <1>8, <2>4, <3>1
    <3>2. CASE c.so <= y
      BY <1>2, <3>2
    <3> QED
      BY <1>1, <3>1, <3>2
  <2>6. Sound(b, k, r.nacks, p)
    BY <1>8, <2>4
  <2> QED
    BY <1>2, <1>8, <2>2, <2>4, <2>5, <2>6 DEF Open
<1> QED
  BY <1>6, <1>7, <1>8

\* The bytes of the PDU at offset p + 1 from w on are not there, and another PDU
\* follows: the report ends, or tells all of the PDU.
LEMMA SegmentsClosed ==
  ASSUME vr_r \in SN, NEW b, NEW k \in Nat, NEW s, NEW p \in -1 .. WindowSize - 2,
         NEW w \in 0 .. PduSize, Open(b, k, s, p, w),
         Missing(b, k + (p + 1), w, SoEnd), NEW r, r = CloseSegments(s)
  PROVE  Ended(b, k, r) \/ Closed(b, k, r, p + 1)
<1>2. PICK o \in 0 .. WindowSize - 1 : o = p + 1 /\ o \in 0 .. WindowSize /\ o - 1 = p
                                       /\ o \in -1 .. WindowSize /\ p \in -1 .. WindowSize
  BY RxFacts, PduSizeAssumption
<1>3. /\ IsState(s) /\ s.done = FALSE /\ s.open = At(o) /\ s.prev = At(p)
      /\ s.waited = (IF w = PduSize THEN SoEnd ELSE w) /\ Sound(b, k, s.nacks, p)
      /\ \A y \in 0 .. PduSize - 1 : y < w => Have(b, k + o, y) \/ Asked(s.nacks, At(o), y)
  BY <1>2 DEF Open
<1>4. PICK q : q = IF s.waited # SoEnd
                   THEN PushNack(s, Nack(s.open, s.waited, SoEnd), 42, s.open) ELSE s
  OBVIOUS
<1>5. r = Moved(q, At(o), -1, 0, 0)
  BY <1>3, <1>4 DEF CloseSegments, Moved
<1>6. /\ IsState(q)
      /\ \/ q.done = TRUE /\ q.ack = At(o) /\ Sound(b, k, q.nacks, p)
         \/ q.done = FALSE /\ Sound(b, k, q.nacks, o)
  <2>1. CASE s.waited = SoEnd
    <3>1. q = s /\ w = PduSize
      BY <1>3, <1>4, <2>1, RxFacts, PduSizeAssumption
    <3>2. Told(b, k, s.nacks, o)
      BY <1>3, <3>1, RxFacts, PduSizeAssumption DEF Told
    <3>3. \A m \in 0 .. o : Told(b, k, s.nacks, m)
      <4>1. \A m \in 0 .. o : m = o \/ m \in 0 .. p
        BY <1>2
      <4> QED
        BY <1>3, <3>2, <4>1 DEF Sound
    <3>4. Sound(b, k, s.nacks, o)
      BY <1>3, <3>3 DEF Sound
    <3> QED
      BY <1>3, <3>1, <3>4
  <2>2. CASE s.waited # SoEnd
    <3>1. s.waited = w /\ w \in Nat /\ w <= SoEnd
      BY <1>3, <2>2, RxFacts, PduSizeAssumption
    <3>2. PICK e : e = Nack(At(o), w, SoEnd)
      OBVIOUS
    <3>3. q = PushNack(s, e, 42, At(o))
      BY <1>3, <1>4, <2>2, <3>1, <3>2
    <3>4. Pushed(s, e, At(o), q)
      BY <1>3, <3>3, PushNackIs
    <3>5. CASE q.done = TRUE /\ q.ack = At(o) /\ q.nacks = s.nacks
      BY <1>3, <3>4, <3>5 DEF Pushed
    <3>6. CASE q.done = s.done /\ q.nacks = Append(s.nacks, e)
      <4>1. q.nacks = Append(s.nacks, Nack(At(o), w, SoEnd))
        BY <3>2, <3>6
      <4>2. Missing(b, k + o, w, SoEnd) /\ SoEnd \in Nat
        BY <1>2, RxFacts, PduSizeAssumption
      <4>3. NackAdded(b, k, s.nacks, p, o, w, SoEnd, q.nacks)
        BY <1>2, <1>3, <3>1, <4>1, <4>2, NackSound
      <4>4. /\ Sound(b, k, q.nacks, p)
            /\ \A sn, y : Asked(s.nacks, sn, y) => Asked(q.nacks, sn, y)
            /\ \A y \in Nat : w <= y /\ y <= SoEnd => Asked(q.nacks, At(o), y)
        BY <4>3 DEF NackAdded
      <4>5. Told(b, k, q.nacks, o)
        <5> SUFFICES ASSUME NEW y \in 0 .. PduSize - 1
                     PROVE  Have(b, k + o, y) \/ Asked(q.nacks, At(o), y)
          BY DEF Told
        <5>1. y \in Nat /\ (y < w \/ (w <= y /\ y <= SoEnd))
          BY <3>1, RxFacts, PduSizeAssumption
        <5> QED
          BY <1>3, <4>4, <5>1
      <4>6. \A m \in 0 .. o : m = o \/ m \in 0 .. p
        BY <1>2
      <4>7. \A m \in 0 .. o : Told(b, k, q.nacks, m)
        BY <4>4, <4>5, <4>6 DEF Sound
      <4>8. Sound(b, k, q.nacks, o)
        BY <4>4, <4>7 DEF Sound
      <4>9. IsState(q) /\ q.done = FALSE
        BY <1>3, <3>4, <3>6 DEF Pushed
      <4> QED
        BY <4>8, <4>9
    <3> QED
      BY <3>4, <3>5, <3>6 DEF Pushed
  <2> QED
    BY <2>1, <2>2
<1>7. /\ IsState(r) /\ r.done = q.done /\ r.ack = q.ack /\ r.nacks = q.nacks
      /\ r.prev = At(o) /\ r.open = -1 /\ r.waited = 0 /\ r.segments = 0
  BY <1>5, <1>6, MovedIs
<1>8. CASE q.done = TRUE /\ q.ack = At(o) /\ Sound(b, k, q.nacks, p)
  <2>1. r.done = TRUE /\ r.ack = At(o) /\ Sound(b, k, r.nacks, o - 1)
    BY <1>2, <1>7, <1>8
  <2> QED
    BY <1>2, <1>7, <2>1 DEF Ended
<1>9. CASE q.done = FALSE /\ Sound(b, k, q.nacks, o)
  BY <1>2, <1>7, <1>9 DEF Closed
<1> QED
  BY <1>6, <1>8, <1>9

\* An SN of which nothing has been received.
GapStep(r, x) ==
  IF r.done THEN r
  ELSE IF r.bits > 12
       THEN [r EXCEPT !.nacks = Append(@, Nack(x, 0, SoEnd)), !.bits = @ - 12, !.prev = x]
  ELSE [r EXCEPT !.done = TRUE, !.ack = x]

LEMMA GapStepIs ==
  ASSUME NEW b, NEW k \in Nat, NEW s, NEW p \in -1 .. WindowSize - 2,
         Closed(b, k, s, p), Missing(b, k + (p + 1), 0, SoEnd),
         NEW r, r = GapStep(s, At(p + 1))
  PROVE  Ended(b, k, r) \/ Closed(b, k, r, p + 1)
<1>1. PICK o \in 0 .. WindowSize - 1 : o = p + 1 /\ o \in 0 .. WindowSize /\ o - 1 = p
                                       /\ p \in -1 .. WindowSize
  BY RxFacts
<1>2. PICK d, a, q, m, pr, op, w, g : s = State(d, a, q, m, pr, op, w, g)
  BY DEF Closed, IsState
<1>3. s.done = d /\ s.nacks = q /\ s.bits = m /\ s.open = op /\ s.waited = w /\ s.segments = g
  BY <1>2 DEF State
<1>4. d = FALSE /\ op = -1 /\ w = 0 /\ g = 0 /\ Sound(b, k, q, p)
  BY <1>3 DEF Closed
<1>5. CASE m > 12
  <2>1. PICK u : u = Append(q, Nack(At(o), 0, SoEnd))
    OBVIOUS
  <2>2. r = State(d, a, u, m - 12, At(o), op, w, g)
    BY <1>1, <1>2, <1>3, <1>4, <1>5, <2>1 DEF GapStep, State
  <2>3. /\ IsState(r) /\ r.done = FALSE /\ r.nacks = u /\ r.prev = At(o) /\ r.open = -1
        /\ r.waited = 0 /\ r.segments = 0
    BY <1>4, <2>2 DEF State, IsState
  <2>4. Missing(b, k + o, 0, SoEnd) /\ 0 \in Nat /\ SoEnd \in Nat
    BY <1>1, PduSizeAssumption
  <2>5. NackAdded(b, k, q, p, o, 0, SoEnd, u)
    BY <1>1, <1>4, <2>1, <2>4, NackSound
  <2>6. /\ Sound(b, k, u, p)
        /\ \A y \in Nat : 0 <= y /\ y <= SoEnd => Asked(u, At(o), y)
    BY <2>5 DEF NackAdded
  <2>7. Told(b, k, u, o)
    <3> SUFFICES ASSUME NEW y \in 0 .. PduSize - 1 PROVE Asked(u, At(o), y)
      BY DEF Told
    <3>1. y \in Nat /\ 0 <= y /\ y <= SoEnd
      BY PduSizeAssumption
    <3> QED
      BY <2>6, <3>1
  <2>8. \A i \in 0 .. o : i = o \/ i \in 0 .. p
    BY <1>1
  <2>9. \A i \in 0 .. o : Told(b, k, u, i)
    BY <2>6, <2>7, <2>8 DEF Sound
  <2>10. Sound(b, k, u, o)
    BY <2>6, <2>9 DEF Sound
  <2> QED
    BY <1>1, <2>3, <2>10 DEF Closed
<1>6. CASE ~(m > 12)
  <2>1. r = State(TRUE, At(o), q, m, pr, op, w, g)
    BY <1>1, <1>2, <1>3, <1>4, <1>6 DEF GapStep, State
  <2>2. IsState(r) /\ r.done = TRUE /\ r.ack = At(o) /\ r.nacks = q
    BY <2>1 DEF State, IsState
  <2>3. Sound(b, k, r.nacks, o - 1)
    BY <1>1, <1>4, <2>2
  <2> QED
    BY <1>1, <2>2, <2>3 DEF Ended
<1> QED
  BY <1>5, <1>6

\* Nothing of the PDUs between offsets p and o is there: the report ends, or tells
\* all up to the PDU before o.
LEMMA GapReported ==
  ASSUME vr_r \in SN, NEW b, NEW k \in Nat, NEW s, NEW p \in -1 .. WindowSize - 2,
         NEW o \in p + 1 .. WindowSize - 1, Closed(b, k, s, p),
         \A i \in p + 1 .. o - 1 : Missing(b, k + i, 0, SoEnd),
         NEW r, r = ReportGap(s, At(o))
  PROVE  Ended(b, k, r) \/ Closed(b, k, r, o - 1)
<1>1. PICK N \in Nat : N = o - p - 1
  <2>1. o - p - 1 \in Nat
    BY RxFacts
  <2> QED
    BY <2>1
<1>2. PICK gap : gap = [j \in 1 .. Dist(s.prev, At(o)) - 1 |-> Plus(s.prev, j)]
  OBVIOUS
<1>3. s.prev = At(p)
  BY DEF Closed
<1>4. Dist(At(p), At(o)) = o - p
  <2>1. p \in -1 .. WindowSize /\ o \in p .. WindowSize /\ o - p < SnModulo
    BY RxFacts
  <2> QED
    BY <2>1, AtDist
<1>5. DOMAIN gap = 1 .. N /\ \A j \in 1 .. N : gap[j] = Plus(At(p), j)
  BY <1>1, <1>2, <1>3, <1>4, RxFacts
<1>6. \A j \in 1 .. N : gap[j] = At(p + j)
  <2> SUFFICES ASSUME NEW j \in 1 .. N PROVE Plus(At(p), j) = At(p + j)
    BY <1>5
  <2>1. p \in -1 .. WindowSize /\ j \in 0 .. WindowSize - p
    BY <1>1, RxFacts
  <2> QED
    BY <2>1, AtPlus
<1>7. PICK G : FoldTrace(G, LAMBDA t, x :
                 IF t.done THEN t
                 ELSE IF t.bits > 12
                      THEN [t EXCEPT !.nacks = Append(@, Nack(x, 0, SoEnd)),
                                     !.bits = @ - 12, !.prev = x]
                 ELSE [t EXCEPT !.done = TRUE, !.ack = x], s, gap, N)
  BY <1>5, FoldLeftTrace
<1>8. /\ G[0] = s /\ \A j \in 1 .. N : G[j] = GapStep(G[j - 1], gap[j])
      /\ r = G[N]
  BY <1>2, <1>7 DEF FoldTrace, ReportGap, GapStep
<1> DEFINE S == {j \in Nat : Ended(b, k, G[j]) \/ Closed(b, k, G[j], p + j)}
<1>9. 0 \in S
  <2>1. p + 0 = p
    BY RxFacts
  <2> QED
    BY <1>8, <2>1
<1>10. ASSUME NEW j \in 0 .. N - 1, j \in S PROVE j + 1 \in S
  <2>1. PICK i : i = j + 1 /\ i \in Nat /\ i \in 1 .. N /\ i - 1 = j
    BY <1>1
  <2>2. PICK t : t = p + j /\ t \in -1 .. WindowSize - 2 /\ t + 1 = p + i /\ t + 1 \in p + 1 .. o - 1
    BY <1>1, <2>1, RxFacts
  <2>3. G[i] = GapStep(G[j], At(t + 1))
    BY <1>6, <1>8, <2>1, <2>2
  <2>4. CASE Ended(b, k, G[j])
    <3>1. G[j].done = TRUE
      BY <2>4 DEF Ended
    <3>2. G[i] = G[j]
      BY <2>3, <3>1 DEF GapStep
    <3> QED
      BY <2>1, <2>4, <3>2
  <2>5. CASE Closed(b, k, G[j], t)
    <3>1. Missing(b, k + (t + 1), 0, SoEnd)
      BY <2>2
    <3>2. Ended(b, k, G[i]) \/ Closed(b, k, G[i], t + 1)
      BY <2>2, <2>3, <2>5, <3>1, GapStepIs
    <3> QED
      BY <2>1, <2>2, <3>2
  <2> QED
    BY <1>10, <2>2, <2>4, <2>5
<1> HIDE DEF S
<1>11. \A j \in 0 .. N : j \in S
  BY <1>9, <1>10, InductionUpTo
<1>12. N \in S /\ p + N = o - 1
  BY <1>1, <1>11, RxFacts
<1> QED
  BY <1>8, <1>12 DEF S

\* The element c of the PDU at offset o is in the list b.
There(b, k, o, c) ==
  /\ Shaped(c) /\ c.sn = At(o)
  /\ c.all => \A y \in 0 .. PduSize - 1 : Have(b, k + o, y)
  /\ ~c.all => c.rf
  /\ \A y \in 0 .. PduSize - 1 : c.so <= y /\ y < End(c) => Have(b, k + o, y)

\* The report after c, which is the first element of the PDU at offset o.
LEMMA PduReported ==
  ASSUME vr_r \in SN, NEW b, NEW k \in Nat, NEW s, NEW p \in -1 .. WindowSize - 2,
         NEW o \in p + 1 .. WindowSize - 1, Closed(b, k, s, p),
         \A i \in p + 1 .. o - 1 : Missing(b, k + i, 0, SoEnd),
         NEW c, There(b, k, o, c), Missing(b, k + o, 0, c.so - 1),
         NEW r, r = ReportPdu(s, c)
  PROVE  \/ Ended(b, k, r)
         \/ c.all /\ Closed(b, k, r, o)
         \/ ~c.all /\ Open(b, k, r, o - 1, End(c))
<1>1. /\ IsState(s) /\ s.done = FALSE /\ s.prev = At(p) /\ Sound(b, k, s.nacks, p)
  BY DEF Closed
<1>2. CASE s.bits < 12
  <2>1. r = [s EXCEPT !.done = TRUE, !.ack = Plus(s.prev, 1)]
    BY <1>2 DEF ReportPdu
  <2>2. PICK d, a, q, m, pr, op, w, g : s = State(d, a, q, m, pr, op, w, g)
    BY <1>1 DEF IsState
  <2>3. PICK e : e = Plus(s.prev, 1)
    OBVIOUS
  <2>4. r = State(TRUE, e, q, m, pr, op, w, g) /\ s.nacks = q
    BY <2>1, <2>2, <2>3 DEF State
  <2>5. IsState(r) /\ r.done = TRUE /\ r.ack = e /\ r.nacks = s.nacks
    BY <2>4 DEF State, IsState
  <2>6. p \in -1 .. WindowSize /\ 1 \in 0 .. WindowSize - p /\ p + 1 \in 0 .. WindowSize
        /\ p + 1 - 1 = p
    BY RxFacts
  <2>7. e = At(p + 1)
    BY <1>1, <2>3, <2>6, AtPlus
  <2>8. Sound(b, k, r.nacks, p + 1 - 1)
    BY <1>1, <2>5, <2>6
  <2> QED
    BY <2>5, <2>6, <2>7, <2>8 DEF Ended
<1>3. CASE ~(s.bits < 12)
  <2>1. PICK t : t = ReportGap(s, c.sn)
    OBVIOUS
  <2>2. r = IF t.done THEN t ELSE IF c.all THEN [t EXCEPT !.prev = c.sn]
            ELSE ReportSegment([t EXCEPT !.open = c.sn], c)
    BY <1>3, <2>1 DEF ReportPdu
  <2>3. Ended(b, k, t) \/ Closed(b, k, t, o - 1)
    <3>1. t = ReportGap(s, At(o))
      BY <2>1 DEF There
    <3> QED
      BY <3>1, GapReported
  <2>4. CASE Ended(b, k, t)
    <3>1. t.done = TRUE
      BY <2>4 DEF Ended
    <3> QED
      BY <2>2, <2>4, <3>1
  <2>5. CASE Closed(b, k, t, o - 1)
    <3>1. /\ IsState(t) /\ t.done = FALSE /\ t.open = -1 /\ t.prev = At(o - 1)
          /\ t.waited = 0 /\ t.segments = 0 /\ Sound(b, k, t.nacks, o - 1)
      BY <2>5 DEF Closed
    <3>2. PICK d, a, q, m, pr, op, w, g : t = State(d, a, q, m, pr, op, w, g)
      BY <3>1 DEF IsState
    <3>3. /\ t.done = d /\ t.nacks = q /\ t.prev = pr /\ t.open = op /\ t.waited = w
          /\ t.segments = g
      BY <3>2 DEF State
    <3>4. Shaped(c) /\ c.all \in BOOLEAN /\ c.sn = At(o)
      BY ShapeFacts DEF There
    <3>5. CASE c.all
      <4>1. r = [t EXCEPT !.prev = At(o)]
        BY <2>2, <3>1, <3>4, <3>5
      <4>2. r = State(d, a, q, m, At(o), op, w, g)
        BY <3>2, <4>1 DEF State
      <4>3. /\ IsState(r) /\ r.done = FALSE /\ r.open = -1 /\ r.prev = At(o)
            /\ r.waited = 0 /\ r.segments = 0 /\ r.nacks = q
        BY <3>1, <3>3, <4>2 DEF State, IsState
      <4>4. Told(b, k, q, o)
        BY <3>5 DEF Told, There
      <4>5. \A i \in 0 .. o : i = o \/ i \in 0 .. o - 1
        BY RxFacts
      <4>6. \A i \in 0 .. o : Told(b, k, q, i)
        BY <3>1, <3>3, <4>4, <4>5 DEF Sound
      <4>7. Sound(b, k, q, o)
        BY <3>1, <3>3, <4>6 DEF Sound
      <4> QED
        BY <3>5, <4>3, <4>7 DEF Closed
    <3>6. CASE ~c.all
      <4>1. PICK u : u = [t EXCEPT !.open = At(o)]
        OBVIOUS
      <4>2. r = ReportSegment(u, c)
        BY <2>2, <3>1, <3>4, <3>6, <4>1
      <4>3. u = State(d, a, q, m, pr, At(o), w, g)
        BY <3>2, <4>1 DEF State
      <4>4. /\ IsState(u) /\ u.done = FALSE /\ u.open = At(o) /\ u.prev = At(o - 1)
            /\ u.waited = 0 /\ u.nacks = q
        BY <3>1, <3>3, <4>3 DEF State, IsState
      <4>5. PICK h \in -1 .. WindowSize - 2 : h = o - 1 /\ h + 1 = o
        BY RxFacts
      <4>6. 0 \in 0 .. PduSize - 1 /\ 0 # PduSize
        BY RxFacts
      <4>7. \A y \in 0 .. PduSize - 1 : ~(y < 0)
        BY RxFacts
      <4>8. Open(b, k, u, h, 0)
        BY <3>1, <3>3, <4>4, <4>5, <4>6, <4>7 DEF Open
      <4>9. c.rf /\ c.sn = At(h + 1) /\ Missing(b, k + (h + 1), 0, c.so - 1)
            /\ \A y \in 0 .. PduSize - 1 : c.so <= y /\ y < End(c) => Have(b, k + (h + 1), y)
        BY <3>4, <3>6, <4>5 DEF There
      <4>10. 0 <= c.so
        BY <3>4, ShapeFacts
      <4>11. Ended(b, k, r) \/ Open(b, k, r, h, End(c))
        BY <3>4, <4>2, <4>6, <4>8, <4>9, <4>10, SegmentReported
      <4> QED
        BY <3>6, <4>5, <4>11
    <3> QED
      BY <3>4, <3>5, <3>6
  <2> QED
    BY <2>3, <2>4, <2>5
<1> QED
  BY <1>2, <1>3

\* The list b from PDU k, as the invariant has it.
Listed(b, k) ==
  /\ k \in Nat /\ vr_r = k % SnModulo
  /\ InWindow(b, k) /\ Sorted(b) /\ Complete(b) /\ Wholes(b)

LEMMA ListedElement ==
  ASSUME NEW b, NEW k, Listed(b, k), NEW i \in 1 .. Len(b)
  PROVE  \E o \in 0 .. WindowSize - 1 : o = b[i].n - k /\ k + o = b[i].n /\ There(b, k, o, b[i])
<1>1. k \in Nat /\ Len(b) \in Nat /\ Shaped(b[i]) /\ b[i].n \in k .. k + WindowSize - 1
  BY DEF Listed, InWindow
<1>2. PICK c : c = b[i]
  OBVIOUS
<1>3. PICK o \in 0 .. WindowSize - 1 : o = c.n - k /\ k + o = c.n
  BY <1>1, <1>2, RxFacts
<1>4. c.n % SnModulo = At(c.n - k)
  <2>1. PICK n \in k .. k + WindowSize - 1 : n = c.n
    BY <1>1, <1>2
  <2>2. k \in Nat /\ vr_r = k % SnModulo
    BY DEF Listed
  <2> QED
    BY <2>1, <2>2, SnAt
<1>5. c.sn = At(o) /\ Shaped(c)
  BY <1>1, <1>2, <1>3, <1>4, ShapeFacts
<1>6. c.all => \A y \in 0 .. PduSize - 1 : Have(b, k + o, y)
  BY <1>1, <1>2, <1>3, MarkedIsThere DEF Listed
<1>7. ~c.all => c.rf
  BY <1>2 DEF Listed, Wholes
<1>8. \A y \in 0 .. PduSize - 1 : c.so <= y /\ y < End(c) => Have(b, k + o, y)
  BY <1>2, <1>3 DEF Have
<1>9. There(b, k, o, c)
  BY <1>5, <1>6, <1>7, <1>8 DEF There
<1> QED
  BY <1>2, <1>3, <1>9

\* An element and its successor.
LEMMA ListedNext ==
  ASSUME NEW b, NEW k, Listed(b, k), NEW i \in 1 .. Len(b), i + 1 \in 1 .. Len(b),
         NEW d, NEW c, d = b[i], c = b[i + 1]
  PROVE  /\ Follows(d, c) /\ (c.n = d.n \/ d.n < c.n)
         /\ c.n = d.n => End(d) <= c.so /\ (c.all <=> d.all)
<1>1. k \in Nat /\ Len(b) \in Nat /\ Shaped(d) /\ Shaped(c)
  BY DEF Listed, InWindow
<1>2. Follows(d, c)
  BY <1>1 DEF Listed, Sorted
<1>3. /\ d.n \in Nat /\ c.n \in Nat /\ d.so \in Nat /\ d.so < End(d) /\ End(d) \in Nat
      /\ c.so \in Nat /\ c.so < End(c) /\ End(c) \in Nat /\ End(c) <= PduSize
      /\ d.rf => (d.lsf <=> End(d) = PduSize)
  BY <1>1, ShapeFacts
<1>4. CASE c.n = d.n
  <2>1. d.rf /\ c.rf /\ End(d) <= c.so
    BY <1>2, <1>3, <1>4 DEF Follows
  <2>2. d.all => c.all
    <3> SUFFICES ASSUME d.all PROVE c.all
      OBVIOUS
    <3>1. ~d.lsf
      BY <1>3, <2>1, RxFacts
    <3>2. Complete(b)
      BY DEF Listed
    <3> QED
      BY <2>1, <3>1, <3>2 DEF Complete
  <2>3. c.all => d.all
    <3> SUFFICES ASSUME c.all PROVE d.all
      OBVIOUS
    <3>1. c.so # 0
      BY <1>3, <2>1
    <3>2. Complete(b) /\ i + 1 - 1 = i
      BY DEF Listed
    <3> QED
      BY <2>1, <3>1, <3>2 DEF Complete
  <2> QED
    BY <1>2, <1>4, <2>1, <2>2, <2>3
<1>5. CASE c.n # d.n
  BY <1>2, <1>3, <1>5 DEF Follows
<1> QED
  BY <1>4, <1>5

\* The offset of element i, or that before the window.
Reached(b, k, i) == IF i = 0 THEN -1 ELSE b[i].n - k

\* What is missing before element i + 1, if it is of another PDU than element i.
LEMMA HoleBefore ==
  ASSUME NEW b, NEW k, Listed(b, k), NEW i \in 0 .. Len(b), NEW c, NEW p, p = Reached(b, k, i),
         i + 1 \in 1 .. Len(b), c = b[i + 1], NEW o \in 0 .. WindowSize - 1, k + o = c.n,
         p < o
  PROVE  /\ p \in -1 .. WindowSize - 2 /\ o \in p + 1 .. WindowSize - 1
         /\ \A j \in p + 1 .. o - 1 : Missing(b, k + j, 0, SoEnd)
         /\ Missing(b, k + o, 0, c.so - 1)
<1>1. k \in Nat /\ Len(b) \in Nat /\ InWindow(b, k) /\ Sorted(b)
      /\ \A j \in 1 .. Len(b) : Shaped(b[j]) /\ b[j].n \in k .. k + WindowSize - 1
  BY DEF Listed, InWindow
<1>2. c.n \in Nat /\ c.so \in Nat
  BY <1>1, ShapeFacts
<1>3. p \in -1 .. WindowSize - 2 /\ (i >= 1 => i \in 1 .. Len(b) /\ p = b[i].n - k /\ b[i].n \in Nat)
  <2>1. CASE i = 0
    <3>1. p = -1
      BY <2>1 DEF Reached
    <3> QED
      BY <2>1, <3>1, RxFacts
  <2>2. CASE i # 0
    <3>1. PICK m : m = b[i].n /\ i \in 1 .. Len(b)
      BY <1>1, <2>2
    <3>2. m \in k .. k + WindowSize - 1
      BY <1>1, <3>1
    <3>3. p = m - k
      BY <2>2, <3>1 DEF Reached
    <3>4. m \in Nat /\ p \in Int /\ 0 <= p /\ p <= WindowSize - 2
      BY <1>1, <3>2, <3>3, RxFacts
    <3> QED
      BY <3>1, <3>3, <3>4, RxFacts
  <2> QED
    BY <2>1, <2>2
<1>4. o \in p + 1 .. WindowSize - 1
  BY <1>3, RxFacts
<1>5. ASSUME NEW j \in p + 1 .. o - 1 PROVE Missing(b, k + j, 0, SoEnd)
  <2> SUFFICES ASSUME NEW y \in 0 .. PduSize - 1 PROVE ~Have(b, k + j, y)
    BY DEF Missing
  <2>1. PICK n \in Nat : n = k + j /\ n < c.n /\ (i >= 1 => b[i].n < n)
    BY <1>1, <1>2, <1>3, RxFacts
  <2>2. (i >= 1 => Behind(b[i], n, y)) /\ Ahead(b[i + 1], n, y) /\ y \in Nat
    BY <2>1 DEF Behind, Ahead
  <2>3. ~Have(b, n, y)
    BY <1>1, <2>2, HoleIs
  <2> QED
    BY <2>1, <2>3
<1>6. Missing(b, k + o, 0, c.so - 1)
  <2> SUFFICES ASSUME NEW y \in 0 .. PduSize - 1, y <= c.so - 1 PROVE ~Have(b, k + o, y)
    BY DEF Missing
  <2>1. PICK n \in Nat : n = k + o /\ n = c.n /\ (i >= 1 => b[i].n < n)
    BY <1>1, <1>2, <1>3, RxFacts
  <2>2. y < c.so /\ y \in Nat
    BY <1>2
  <2>3. (i >= 1 => Behind(b[i], n, y)) /\ Ahead(b[i + 1], n, y)
    BY <2>1, <2>2 DEF Behind, Ahead
  <2>4. ~Have(b, n, y)
    BY <1>1, <2>2, <2>3, HoleIs
  <2> QED
    BY <2>1, <2>4
<1> QED
  BY <1>3, <1>4, <1>5, <1>6
-----------------------------------------------------------------------------
(* rlc_am_send_status_pdu: the loop.                                         *)

\* The report after i elements.
Reported(b, k, i, s) ==
  \/ Ended(b, k, s)
  \/ (i >= 1 => b[i].all) /\ Closed(b, k, s, Reached(b, k, i))
  \/ i >= 1 /\ ~b[i].all /\ Open(b, k, s, Reached(b, k, i) - 1, End(b[i]))

\* Element i + 1 is the first of its PDU, and the PDUs before are told.
LEMMA NextPdu ==
  ASSUME NEW b, NEW k, Listed(b, k), NEW i \in 0 .. Len(b), i + 1 \in 1 .. Len(b),
         NEW p, p = Reached(b, k, i), NEW o \in 0 .. WindowSize - 1, k + o = b[i + 1].n,
         o = b[i + 1].n - k, There(b, k, o, b[i + 1]), p < o,
         NEW s, Closed(b, k, s, p), NEW r,
         r = IF s.done \/ b[i + 1].sn = s.prev THEN s ELSE ReportPdu(s, b[i + 1])
  PROVE  Reported(b, k, i + 1, r)
<1>1. PICK c : c = b[i + 1]
  OBVIOUS
<1>2. /\ p \in -1 .. WindowSize - 2 /\ o \in p + 1 .. WindowSize - 1
      /\ \A j \in p + 1 .. o - 1 : Missing(b, k + j, 0, SoEnd)
      /\ Missing(b, k + o, 0, c.so - 1)
  BY <1>1, HoleBefore
<1>3. k \in Nat /\ vr_r \in SN
  <2>1. k \in Nat /\ k \in k .. k + WindowSize - 1 /\ vr_r = k % SnModulo
    BY RxFacts DEF Listed
  <2> QED
    BY <2>1, SnAt
<1>4. s.done = FALSE /\ s.prev = At(p)
  BY DEF Closed
<1>5. c.sn = At(o)
  BY <1>1 DEF There
<1>6. At(o) # At(p)
  <2>1. o \in -1 .. WindowSize - 1 /\ p \in -1 .. WindowSize - 1 /\ o # p
    BY <1>2, RxFacts
  <2> QED
    BY <1>3, <2>1, AtDistinct
<1>7. r = ReportPdu(s, c) /\ There(b, k, o, c)
  BY <1>1, <1>4, <1>5, <1>6
<1>8. \/ Ended(b, k, r)
      \/ c.all /\ Closed(b, k, r, o)
      \/ ~c.all /\ Open(b, k, r, o - 1, End(c))
  BY <1>2, <1>3, <1>7, PduReported
<1>9. i + 1 >= 1 /\ i + 1 # 0
  OBVIOUS
<1>10. Reached(b, k, i + 1) = o
  BY <1>9 DEF Reached
<1> QED
  BY <1>1, <1>8, <1>9, <1>10 DEF Reported

LEMMA ReportStep ==
  ASSUME NEW b, NEW k, Listed(b, k), NEW i \in 0 .. Len(b), i + 1 \in 1 .. Len(b),
         NEW s, Reported(b, k, i, s), NEW r, r = Report(s, b[i + 1])
  PROVE  Reported(b, k, i + 1, r)
<1>1. PICK c : c = b[i + 1]
  OBVIOUS
<1>2. PICK o \in 0 .. WindowSize - 1 :
        o = c.n - k /\ k + o = c.n /\ There(b, k, o, c)
  BY <1>1, ListedElement
<1>3. k \in Nat /\ vr_r \in SN
  <2>1. k \in Nat /\ k \in k .. k + WindowSize - 1 /\ vr_r = k % SnModulo
    BY RxFacts DEF Listed
  <2> QED
    BY <2>1, SnAt
<1>4. c.sn = At(o) /\ At(o) # -1 /\ Shaped(c)
  <2>1. o \in -1 .. WindowSize
    BY RxFacts
  <2> QED
    BY <1>2, <1>3, <2>1, AtIn DEF There
<1>5. i + 1 >= 1 /\ i + 1 # 0 /\ Reached(b, k, i + 1) = o
  BY <1>1, <1>2 DEF Reached
<1>6. CASE Ended(b, k, s)
  <2>1. s.done = TRUE
    BY <1>6 DEF Ended
  <2>2. r = s
    BY <2>1 DEF Report
  <2> QED
    BY <1>6, <2>2 DEF Reported
<1>7. CASE (i >= 1 => b[i].all) /\ Closed(b, k, s, Reached(b, k, i))
  <2>1. PICK p : p = Reached(b, k, i)
    OBVIOUS
  <2>2. s.done = FALSE /\ s.open = -1 /\ s.prev = At(p)
    BY <1>7, <2>1 DEF Closed
  <2>3. r = IF s.done \/ c.sn = s.prev THEN s ELSE ReportPdu(s, c)
    BY <1>1, <1>4, <2>2 DEF Report
  <2>4. CASE i >= 1 /\ c.n = b[i].n
    <3>1. i \in 1 .. Len(b) /\ p = o
      BY <1>2, <2>1, <2>4 DEF Reached
    <3>2. c.all
      BY <1>1, <1>7, <2>4, <3>1, ListedNext
    <3>3. r = s
      BY <1>4, <2>2, <2>3, <3>1
    <3>4. Closed(b, k, r, o)
      BY <1>7, <2>1, <3>1, <3>3
    <3> QED
      BY <1>1, <1>5, <3>2, <3>4 DEF Reported
  <2>5. CASE ~(i >= 1 /\ c.n = b[i].n)
    <3>1. p < o
      <4>1. CASE i = 0
        BY <2>1, <4>1, RxFacts DEF Reached
      <4>2. CASE i # 0
        <5>1. i \in 1 .. Len(b)
          BY <4>2
        <5>2. PICK m : m = b[i].n
          OBVIOUS
        <5>3. m < c.n /\ m \in Nat /\ c.n \in Nat
          <6>1. Shaped(b[i])
            BY <5>1 DEF Listed, InWindow
          <6> QED
            BY <1>1, <1>4, <2>5, <5>1, <5>2, <6>1, ListedNext, ShapeFacts
        <5>4. p = m - k
          BY <2>1, <4>2, <5>2 DEF Reached
        <5> QED
          BY <1>2, <1>3, <5>3, <5>4
      <4> QED
        BY <4>1, <4>2
    <3>2. Closed(b, k, s, p) /\ k + o = b[i + 1].n /\ o = b[i + 1].n - k
          /\ There(b, k, o, b[i + 1])
          /\ r = IF s.done \/ b[i + 1].sn = s.prev THEN s ELSE ReportPdu(s, b[i + 1])
      BY <1>1, <1>2, <1>7, <2>1, <2>3
    <3> QED
      BY <2>1, <3>1, <3>2, NextPdu
  <2> QED
    BY <2>4, <2>5
<1>8. CASE i >= 1 /\ ~b[i].all /\ Open(b, k, s, Reached(b, k, i) - 1, End(b[i]))
  <2>1. PICK d : d = b[i] /\ i \in 1 .. Len(b)
    BY <1>8
  <2>2. PICK q \in 0 .. WindowSize - 1 :
          q = d.n - k /\ k + q = d.n /\ There(b, k, q, d)
    BY <2>1, ListedElement
  <2>3. Reached(b, k, i) = q
    BY <1>8, <2>1, <2>2 DEF Reached
  <2>4. PICK p : p = q - 1 /\ p + 1 = q
    BY <2>2
  <2>5. PICK w : w = End(d)
    OBVIOUS
  <2>6. Open(b, k, s, p, w)
    BY <1>8, <2>1, <2>3, <2>4, <2>5
  <2>7. /\ w \in 0 .. PduSize /\ d.n \in Nat /\ c.n \in Nat /\ w \in Nat
        /\ c.so \in Nat /\ c.so < PduSize
    BY <1>4, <2>2, <2>5, ShapeFacts, RxFacts DEF There
  <2>8. Follows(d, c) /\ (c.n = d.n \/ d.n < c.n)
        /\ (c.n = d.n => End(d) <= c.so /\ (c.all <=> d.all))
    BY <1>1, <2>1, ListedNext
  <2>9. s.done = FALSE /\ s.open = At(q)
    BY <2>4, <2>6 DEF Open
  <2>10. CASE c.n = d.n
    <3>1. o = q /\ ~c.all /\ w <= c.so /\ c.rf
      BY <1>2, <1>8, <2>1, <2>2, <2>5, <2>8, <2>10 DEF There
    <3>2. r = ReportSegment(s, c)
      BY <1>1, <1>4, <2>9, <3>1 DEF Report
    <3>3. w \in 0 .. PduSize - 1
      BY <2>7, <3>1, RxFacts
    <3>4. Missing(b, k + (p + 1), w, c.so - 1)
      <4> SUFFICES ASSUME NEW y \in 0 .. PduSize - 1, w <= y, y <= c.so - 1
                   PROVE  ~Have(b, k + (p + 1), y)
        BY DEF Missing
      <4>1. y < c.so /\ y \in Nat
        BY <2>7
      <4>2. Behind(b[i], d.n, y) /\ Ahead(b[i + 1], d.n, y)
        BY <1>1, <2>1, <2>5, <2>10, <4>1 DEF Behind, Ahead
      <4>3. InWindow(b, k) /\ Sorted(b)
        BY DEF Listed
      <4>4. ~Have(b, d.n, y)
        BY <1>3, <2>7, <4>1, <4>2, <4>3, HoleIs
      <4> QED
        BY <2>2, <2>4, <4>4
    <3>5. \A y \in 0 .. PduSize - 1 : c.so <= y /\ y < End(c) => Have(b, k + (p + 1), y)
      BY <1>2, <2>4, <3>1 DEF There
    <3>6. c.sn = At(p + 1) /\ p \in -1 .. WindowSize - 2
      BY <1>4, <2>4, <3>1, RxFacts
    <3>7. Ended(b, k, r) \/ Open(b, k, r, p, End(c))
      BY <1>3, <1>4, <2>6, <3>1, <3>2, <3>3, <3>4, <3>5, <3>6, SegmentReported
    <3> QED
      BY <1>1, <1>5, <2>4, <3>1, <3>7 DEF Reported
  <2>11. CASE d.n < c.n
    <3>1. q < o
      BY <1>2, <1>3, <2>2, <2>7, <2>11
    <3>2. PICK t : t = CloseSegments(s)
      OBVIOUS
    <3>3. At(q) # At(o) /\ At(q) # -1
      <4>1. o \in -1 .. WindowSize - 1 /\ q \in -1 .. WindowSize - 1 /\ o # q
            /\ q \in -1 .. WindowSize
        BY <3>1, RxFacts
      <4> QED
        BY <1>3, <4>1, AtDistinct, AtIn
    <3>4. r = IF t.done \/ c.sn = t.prev THEN t ELSE ReportPdu(t, c)
      BY <1>1, <1>4, <2>9, <3>2, <3>3 DEF Report
    <3>5. Missing(b, k + (p + 1), w, SoEnd)
      <4> SUFFICES ASSUME NEW y \in 0 .. PduSize - 1, w <= y
                   PROVE  ~Have(b, k + (p + 1), y)
        BY DEF Missing
      <4>1. y \in Nat
        OBVIOUS
      <4>2. Behind(b[i], d.n, y) /\ Ahead(b[i + 1], d.n, y)
        BY <1>1, <2>1, <2>5, <2>11, <4>1 DEF Behind, Ahead
      <4>3. InWindow(b, k) /\ Sorted(b)
        BY DEF Listed
      <4>4. ~Have(b, d.n, y)
        BY <1>3, <2>7, <4>1, <4>2, <4>3, HoleIs
      <4> QED
        BY <2>2, <2>4, <4>4
    <3>6. p \in -1 .. WindowSize - 2
      BY <2>4, <3>1, RxFacts
    <3>7. Ended(b, k, t) \/ Closed(b, k, t, p + 1)
      BY <1>3, <2>6, <2>7, <3>2, <3>5, <3>6, SegmentsClosed
    <3>8. CASE Ended(b, k, t)
      <4>1. t.done = TRUE
        BY <3>8 DEF Ended
      <4>2. r = t
        BY <3>4, <4>1
      <4> QED
        BY <3>8, <4>2 DEF Reported
    <3>9. CASE Closed(b, k, t, p + 1)
      <4>1. /\ Closed(b, k, t, q) /\ k + o = b[i + 1].n /\ o = b[i + 1].n - k
            /\ There(b, k, o, b[i + 1])
            /\ r = IF t.done \/ b[i + 1].sn = t.prev THEN t ELSE ReportPdu(t, b[i + 1])
        BY <1>1, <1>2, <2>4, <3>4, <3>9
      <4> QED
        BY <2>3, <3>1, <4>1, NextPdu
    <3> QED
      BY <3>7, <3>8, <3>9
  <2> QED
    BY <2>8, <2>10, <2>11
<1> QED
  BY <1>6, <1>7, <1>8 DEF Reported
-----------------------------------------------------------------------------
(* rlc_am_send_status_pdu: the report.                                       *)

LEMMA AtZero ==
  ASSUME vr_r \in SN
  PROVE  At(0) = vr_r /\ At(-1) = Plus(vr_r, SnModulo - 1)
         /\ Dist(vr_r, At(-1)) = SnModulo - 1
         /\ \A o \in 0 .. WindowSize : Dist(vr_r, At(o)) = o
<1>1. vr_r \in Int /\ 0 <= vr_r /\ vr_r < SnModulo
  BY RxFacts DEF SN
<1>2. vr_r + 0 = vr_r /\ vr_r % SnModulo = vr_r
  BY <1>1, RxFacts, ModNear
<1>3. At(0) = vr_r
  BY <1>2 DEF At, Plus
<1>4. -1 \in -1 .. WindowSize
  BY RxFacts
<1>5. PICK e : AtValue(-1, e)
  BY <1>4, AtIs
<1>6. PICK d \in Int : d = vr_r + (SnModulo - 1)
  BY <1>1, RxFacts
<1>7. d % SnModulo = e
  <2>1. -SnModulo <= d /\ d < SnModulo + SnModulo
    BY <1>1, <1>6, RxFacts
  <2>2. /\ 0 <= d /\ d < SnModulo => d % SnModulo = d
        /\ SnModulo <= d => d % SnModulo = d - SnModulo
    BY <2>1, ModNear
  <2> QED
    BY <1>1, <1>5, <1>6, <2>2, RxFacts DEF AtValue
<1>8. At(-1) = Plus(vr_r, SnModulo - 1)
  BY <1>5, <1>6, <1>7 DEF Plus, AtValue
<1>9. Dist(vr_r, At(-1)) = SnModulo - 1
  <2>1. PICK f \in Int : f = e - vr_r
    BY <1>1, <1>5 DEF AtValue
  <2>2. f = -1 \/ f = SnModulo - 1
    BY <1>1, <1>5, <2>1, RxFacts DEF AtValue
  <2>3. -SnModulo <= f /\ f < SnModulo + SnModulo
    BY <2>2, RxFacts
  <2>4. /\ f < 0 => f % SnModulo = f + SnModulo
        /\ 0 <= f /\ f < SnModulo => f % SnModulo = f
    BY <2>3, ModNear
  <2>5. f % SnModulo = SnModulo - 1
    BY <2>2, <2>4, RxFacts
  <2> QED
    BY <1>5, <2>1, <2>5 DEF Dist, AtValue
<1>10. ASSUME NEW o \in 0 .. WindowSize PROVE Dist(vr_r, At(o)) = o
  <2>1. 0 \in -1 .. WindowSize /\ o \in 0 .. WindowSize /\ o - 0 < SnModulo /\ o - 0 = o
    BY RxFacts
  <2> QED
    BY <1>3, <2>1, AtDist
<1> QED
  BY <1>3, <1>8, <1>9, <1>10

\* The first element in the window is the head of the list.
LEMMA FirstIsHead ==
  ASSUME NEW b, NEW k, Listed(b, k), Len(b) >= 1
  PROVE  SelectInSeq(b, LAMBDA c : InRxWindow(c.sn)) = 1
<1>1. Len(b) \in Nat /\ 1 \in 1 .. Len(b)
  BY DEF Listed, InWindow
<1>2. vr_r \in SN
  <2>1. k \in Nat /\ k \in k .. k + WindowSize - 1 /\ vr_r = k % SnModulo
    BY RxFacts DEF Listed
  <2> QED
    BY <2>1, SnAt
<1>3. PICK o \in 0 .. WindowSize - 1 : There(b, k, o, b[1])
  BY <1>1, ListedElement
<1>4. InRxWindow(b[1].sn)
  <2>1. b[1].sn = At(o) /\ o \in 0 .. WindowSize /\ o < WindowSize
    BY <1>3, RxFacts DEF There
  <2> QED
    BY <1>2, <2>1, AtZero DEF InRxWindow
<1> DEFINE I == {i \in 1 .. Len(b) : InRxWindow(b[i].sn)}
<1>5. 1 \in I /\ I \subseteq Int /\ I # {} /\ 1 \in Int /\ \A i \in I : 1 <= i
  BY <1>1, <1>4
<1>6. SelectInSeq(b, LAMBDA c : InRxWindow(c.sn)) = Min(I)
  BY <1>5 DEF SelectInSeq
<1> HIDE DEF I
<1>7. Min(I) \in I /\ \A i \in I : Min(I) <= i
  BY <1>5, MinIsLeast
<1>8. Min(I) = 1
  <2>1. PICK m \in I : m = Min(I)
    BY <1>7
  <2>2. m \in Int /\ 1 <= m /\ m <= 1
    BY <1>5, <1>7, <2>1
  <2> QED
    BY <2>1, <2>2
<1> QED
  BY <1>6, <1>8

\* The loop starts with nothing told, and goes through the list.
LEMMA LoopReported ==
  ASSUME NEW b, NEW k, Listed(b, k), Len(b) >= 1, NEW g, NEW start,
         start = State(FALSE, 0, <<>>, g, At(-1), -1, 0, 0)
  PROVE  Reported(b, k, Len(b), FoldLeft(Report, start, SubSeq(b, 1, Len(b))))
<1>1. b \in Seq(Element) /\ Len(b) \in Nat
  BY DEF Listed, InWindow
<1>2. PICK N \in Nat : N = Len(b) /\ N >= 1
  BY <1>1
<1>3. PICK l : l = SubSeq(b, 1, Len(b))
  OBVIOUS
<1>4. DOMAIN l = 1 .. N /\ \A j \in 1 .. N : l[j] = b[j]
  <2>1. l \in Seq(Element) /\ Len(l) = N /\ \A j \in 1 .. N : l[j] = b[1 + j - 1]
    BY <1>1, <1>2, <1>3, SubSeqProperties
  <2>2. \A j \in 1 .. N : 1 + j - 1 = j
    OBVIOUS
  <2> QED
    BY <2>1, <2>2
<1>5. PICK G : FoldTrace(G, Report, start, l, N)
  BY <1>4, FoldLeftTrace
<1>6. /\ G[0] = start /\ \A j \in 1 .. N : G[j] = Report(G[j - 1], l[j])
      /\ FoldLeft(Report, start, l) = G[N]
  BY <1>5 DEF FoldTrace
<1> DEFINE S == {j \in Nat : Reported(b, k, j, G[j])}
<1>7. 0 \in S
  <2>1. /\ IsState(start) /\ start.done = FALSE /\ start.open = -1 /\ start.prev = At(-1)
        /\ start.waited = 0 /\ start.segments = 0 /\ start.nacks = <<>>
    BY DEF State, IsState
  <2>2. Sound(b, k, <<>>, -1)
    <3>1. IsSeq(<<>>) /\ Len(<<>>) = 0
      BY DEF IsSeq
    <3> QED
      BY <3>1 DEF Sound
  <2>3. Closed(b, k, start, -1)
    BY <2>1, <2>2 DEF Closed
  <2>4. Reached(b, k, 0) = -1
    BY DEF Reached
  <2>5. ~(0 >= 1)
    OBVIOUS
  <2>6. G[0] = start
    BY <1>6
  <2>7. Reported(b, k, 0, start)
    BY <2>3, <2>4, <2>5 DEF Reported
  <2> QED
    BY <2>6, <2>7
<1>8. ASSUME NEW j \in 0 .. N - 1, j \in S PROVE j + 1 \in S
  <2>1. j \in 0 .. Len(b) /\ j + 1 \in 1 .. Len(b) /\ j + 1 \in Nat /\ j + 1 - 1 = j
        /\ j + 1 \in 1 .. N
    BY <1>2
  <2>2. G[j + 1] = Report(G[j], b[j + 1])
    <3>1. PICK i \in 1 .. N : i = j + 1 /\ i - 1 = j
      BY <2>1
    <3> QED
      BY <1>4, <1>6, <3>1
  <2>3. Reported(b, k, j, G[j])
    BY <1>8
  <2>4. Reported(b, k, j + 1, G[j + 1])
    BY <2>1, <2>2, <2>3, ReportStep
  <2> QED
    BY <2>1, <2>4
<1> HIDE DEF S
<1>9. \A j \in 0 .. N : j \in S
  BY <1>7, <1>8, InductionUpTo
<1>10. N \in S
  BY <1>9
<1> QED
  BY <1>2, <1>3, <1>6, <1>10 DEF S

\* The report q of the list b acknowledges all before offset a, but for its NACKs.
ReportIs(b, k, q, a) == q.ack = At(a) /\ Sound(b, k, q.nacks, a - 1)

LEMMA StatusSound ==
  ASSUME NEW k, Listed(receiver_buffer, k), NEW g
  PROVE  \E a \in -1 .. WindowSize : ReportIs(receiver_buffer, k, StatusPdu(g), a)
<1>1. PICK b : b = receiver_buffer
  OBVIOUS
<1>2. Listed(b, k) /\ k \in Nat /\ b \in Seq(Element) /\ Len(b) \in Nat
  BY <1>1 DEF Listed, InWindow
<1>3. vr_r \in SN
  <2>1. k \in Nat /\ k \in k .. k + WindowSize - 1 /\ vr_r = k % SnModulo
    BY RxFacts DEF Listed
  <2> QED
    BY <2>1, SnAt
<1>4. CASE b = <<>>
  <2>1. PICK q : q = StatusPdu(g)
    OBVIOUS
  <2>2. q = [ack |-> vr_r, nacks |-> <<>>]
    BY <1>1, <1>4, <2>1 DEF StatusPdu
  <2>3. q.ack = At(0) /\ q.nacks = <<>> /\ 0 \in -1 .. WindowSize
    BY <1>3, <2>2, AtZero, RxFacts
  <2>4. Sound(b, k, <<>>, 0 - 1)
    <3>1. IsSeq(<<>>) /\ Len(<<>>) = 0
      BY DEF IsSeq
    <3> QED
      BY <3>1 DEF Sound
  <2>5. ReportIs(b, k, q, 0)
    BY <2>3, <2>4 DEF ReportIs
  <2> QED
    BY <1>1, <2>1, <2>3, <2>5
<1>5. CASE b # <<>>
  <2>1. Len(b) >= 1
    BY <1>2, <1>5
  <2>2. SelectInSeq(b, LAMBDA c : InRxWindow(c.sn)) = 1
    BY <1>2, <2>1, FirstIsHead
  <2>3. PICK start : start = State(FALSE, 0, <<>>, g * 8 - 15, At(-1), -1, 0, 0)
    OBVIOUS
  <2>4. PICK e : e = FoldLeft(Report, start, SubSeq(b, 1, Len(b)))
    OBVIOUS
  <2>5. Reported(b, k, Len(b), e)
    BY <1>2, <2>1, <2>3, <2>4, LoopReported
  <2>6. PICK q : q = StatusPdu(g)
    OBVIOUS
  <2>7. q = [ack |-> IF e.done THEN e.ack
                     ELSE IF e.open = -1 THEN Plus(e.prev, 1)
                     ELSE IF e.segments = 1 THEN e.prev ELSE e.open,
             nacks |-> e.nacks]
    BY <1>1, <1>3, <1>5, <2>2, <2>3, <2>4, <2>6, AtZero DEF StatusPdu, State
  <2>8. /\ q.nacks = e.nacks
        /\ q.ack = IF e.done THEN e.ack
                   ELSE IF e.open = -1 THEN Plus(e.prev, 1)
                   ELSE IF e.segments = 1 THEN e.prev ELSE e.open
    BY <2>7
  <2>9. PICK o \in 0 .. WindowSize - 1 : o = b[Len(b)].n - k
    <3>1. Len(b) \in 1 .. Len(b)
      BY <1>2, <2>1
    <3> QED
      BY <1>2, <3>1, ListedElement
  <2>10. Reached(b, k, Len(b)) = o
    BY <2>1, <2>9 DEF Reached
  <2>11. CASE Ended(b, k, e)
    <3>1. PICK a \in 0 .. WindowSize : e.done = TRUE /\ e.ack = At(a) /\ Sound(b, k, e.nacks, a - 1)
      BY <2>11 DEF Ended
    <3>2. ReportIs(b, k, q, a) /\ a \in -1 .. WindowSize
      BY <2>8, <3>1, RxFacts DEF ReportIs
    <3> QED
      BY <1>1, <2>6, <3>2
  <2>12. CASE Closed(b, k, e, o)
    <3>1. e.done = FALSE /\ e.open = -1 /\ e.prev = At(o) /\ Sound(b, k, e.nacks, o)
      BY <2>12 DEF Closed
    <3>2. o \in -1 .. WindowSize /\ 1 \in 0 .. WindowSize - o /\ o + 1 \in -1 .. WindowSize
          /\ o + 1 - 1 = o
      BY RxFacts
    <3>3. q.ack = At(o + 1)
      BY <1>3, <2>8, <3>1, <3>2, AtPlus
    <3>4. Sound(b, k, q.nacks, o + 1 - 1)
      BY <2>8, <3>1, <3>2
    <3>5. ReportIs(b, k, q, o + 1)
      BY <3>3, <3>4 DEF ReportIs
    <3> QED
      BY <1>1, <2>6, <3>2, <3>5
  <2>13. CASE Open(b, k, e, o - 1, End(b[Len(b)]))
    <3>1. o - 1 + 1 = o /\ o \in -1 .. WindowSize /\ o - 1 \in -1 .. WindowSize
      BY RxFacts
    <3>2. e.done = FALSE /\ e.open = At(o) /\ e.prev = At(o - 1) /\ Sound(b, k, e.nacks, o - 1)
      BY <2>13, <3>1 DEF Open
    <3>3. At(o) # -1
      BY <1>3, <3>1, AtIn
    <3>4. CASE e.segments = 1
      <4>1. q.ack = At(o - 1)
        BY <2>8, <3>2, <3>3, <3>4
      <4>2. Sound(b, k, q.nacks, o - 1 - 1)
        <5>1. \A j \in 0 .. o - 1 - 1 : j \in 0 .. o - 1
          BY RxFacts
        <5> QED
          BY <2>8, <3>2, <5>1 DEF Sound
      <4>3. ReportIs(b, k, q, o - 1)
        BY <4>1, <4>2 DEF ReportIs
      <4> QED
        BY <1>1, <2>6, <3>1, <4>3
    <3>5. CASE e.segments # 1
      <4>1. q.ack = At(o) /\ Sound(b, k, q.nacks, o - 1)
        BY <2>8, <3>2, <3>3, <3>5
      <4>2. ReportIs(b, k, q, o)
        BY <4>1 DEF ReportIs
      <4> QED
        BY <1>1, <2>6, <3>1, <4>2
    <3> QED
      BY <3>4, <3>5
  <2> QED
    BY <2>5, <2>10, <2>11, <2>12, <2>13 DEF Reported
<1> QED
  BY <1>4, <1>5

LEMMA ListedInvariant ==
  ASSUME RxInvariant
  PROVE  \E k \in Nat : k = InOrder /\ Listed(receiver_buffer, k) /\ vr_r \in SN
<1>1. PICK k \in Nat : /\ k = InOrder /\ vr_r = k % SnModulo
                       /\ ListSound(receiver_buffer, k, sent)
  BY DEF RxInvariant
<1>2. k \in k .. k + WindowSize - 1
  BY RxFacts
<1>3. vr_r \in SN
  BY <1>1, <1>2, SnAt
<1> QED
  BY <1>1, <1>3 DEF ListSound, Listed

\* The bytes of a PDU of the window that have been received are those in the list.
LEMMA ReceivedIs ==
  ASSUME NEW k \in Nat, k = InOrder, Listed(receiver_buffer, k), NEW n \in Nat, k <= n,
         NEW y \in 0 .. PduSize - 1
  PROVE  y \in Received(n) <=> Have(receiver_buffer, n, y)
<1>1. PICK b : b = receiver_buffer
  OBVIOUS
<1>2. /\ Len(b) \in Nat /\ DOMAIN b = 1 .. Len(b)
      /\ \A j \in 1 .. Len(b) : Shaped(b[j])
  BY <1>1 DEF Listed, InWindow
<1>3. Received(n) = UNION {x.so .. End(x) - 1 : x \in {z \in ToSet(b) : z.n = n}}
  BY <1>1 DEF Received
<1>4. ToSet(b) = {b[j] : j \in 1 .. Len(b)}
  BY <1>2 DEF ToSet
<1>5. ASSUME y \in Received(n) PROVE Have(b, n, y)
  <2>1. PICK j \in 1 .. Len(b) : b[j].n = n /\ y \in b[j].so .. End(b[j]) - 1
    BY <1>3, <1>4, <1>5
  <2>2. b[j].so \in Nat /\ End(b[j]) \in Nat
    BY <1>2, <2>1, ShapeFacts
  <2>3. b[j].so <= y /\ y < End(b[j])
    BY <2>1, <2>2
  <2> QED
    BY <2>1, <2>3 DEF Have
<1>6. ASSUME Have(b, n, y) PROVE y \in Received(n)
  <2>1. PICK j \in 1 .. Len(b) : b[j].n = n /\ b[j].so <= y /\ y < End(b[j])
    BY <1>6 DEF Have
  <2>2. b[j].so \in Nat /\ End(b[j]) \in Nat
    BY <1>2, <2>1, ShapeFacts
  <2>3. y \in b[j].so .. End(b[j]) - 1
    BY <2>1, <2>2
  <2> QED
    BY <1>3, <1>4, <2>1, <2>3
<1> QED
  BY <1>1, <1>5, <1>6

\* The bytes that the NACKs of a report ask for.
LEMMA NackedIs ==
  ASSUME NEW b, NEW k \in Nat, NEW report, NEW p, Sound(b, k, report.nacks, p), NEW sn, NEW y
  PROVE  y \in Nacked(report, sn) <=> y \in 0 .. PduSize - 1 /\ Asked(report.nacks, sn, y)
<1>1. PICK q : q = report.nacks
  OBVIOUS
<1>2. /\ Len(q) \in Nat /\ DOMAIN q = 1 .. Len(q)
      /\ \A j \in 1 .. Len(q) : q[j].so_start \in Nat /\ q[j].so_end \in Nat
  BY <1>1 DEF Sound, IsSeq, NackWanted
<1>3. Nacked(report, sn) = UNION {e.so_start .. Min({e.so_end, PduSize - 1}) :
                                    e \in {m \in ToSet(q) : m.sn = sn}}
  BY <1>1 DEF Nacked
<1>4. ToSet(q) = {q[j] : j \in 1 .. Len(q)}
  BY <1>2 DEF ToSet
<1>5. ASSUME NEW j \in 1 .. Len(q)
      PROVE  y \in q[j].so_start .. Min({q[j].so_end, PduSize - 1})
               <=> y \in 0 .. PduSize - 1 /\ q[j].so_start <= y /\ y <= q[j].so_end
  <2>1. PICK lo \in Nat : lo = q[j].so_start
    BY <1>2
  <2>2. PICK hi \in Nat : hi = q[j].so_end
    BY <1>2
  <2>3. hi \in Int /\ PduSize - 1 \in Int
    BY RxFacts
  <2>4. PICK l \in Int : l = Min({hi, PduSize - 1})
                         /\ l <= hi /\ l <= PduSize - 1 /\ (l = hi \/ l = PduSize - 1)
    BY <2>3, MinOfTwo
  <2>5. y \in lo .. l <=> y \in 0 .. PduSize - 1 /\ lo <= y /\ y <= hi
    BY <2>4, RxFacts
  <2> QED
    BY <2>1, <2>2, <2>4, <2>5
<1>6. ASSUME y \in Nacked(report, sn) PROVE y \in 0 .. PduSize - 1 /\ Asked(q, sn, y)
  <2>1. PICK e \in ToSet(q) : e.sn = sn /\ y \in e.so_start .. Min({e.so_end, PduSize - 1})
    BY <1>3, <1>6, Zenon
  <2>2. PICK j \in 1 .. Len(q) : e = q[j]
    BY <1>4, <2>1
  <2> QED
    BY <1>5, <2>1, <2>2 DEF Asked
<1>7. ASSUME y \in 0 .. PduSize - 1, Asked(q, sn, y) PROVE y \in Nacked(report, sn)
  <2>1. PICK j \in 1 .. Len(q) : q[j].sn = sn /\ q[j].so_start <= y /\ y <= q[j].so_end
    BY <1>7 DEF Asked
  <2>2. y \in q[j].so_start .. Min({q[j].so_end, PduSize - 1})
    BY <1>5, <1>7, <2>1
  <2> QED
    BY <1>3, <1>4, <2>1, <2>2
<1> QED
  BY <1>1, <1>6, <1>7

\* For as long as no PDU was misplaced, and with a window of two SNs or more, no
\* status report that rlc_am_send_status_pdu builds, whatever the grant and wherever
\* it cuts the report off, acknowledges a byte that has not been received: each byte
\* below ACK_SN is in the list or asked for by a NACK.
THEOREM StatusTruthfulSafe ==
  ASSUME WindowSize >= 2
  PROVE  RxSpec => []StatusIsTruthful
<1>1. KeptInvariant => StatusIsTruthful
  <2> SUFFICES ASSUME RxInvariant, NEW g \in RxGrants, NEW report, report = StatusPdu(g),
                      NEW acked, acked = Dist(vr_r, report.ack), acked <= WindowSize,
                      NEW j \in 0 .. acked - 1, NEW y \in 0 .. PduSize - 1
               PROVE  y \in Received(InOrder + j) \cup Nacked(report, Plus(vr_r, j))
    BY DEF StatusIsTruthful, KeptInvariant
  <2>1. PICK k \in Nat : k = InOrder /\ Listed(receiver_buffer, k) /\ vr_r \in SN
    BY ListedInvariant
  <2>2. PICK a \in -1 .. WindowSize : ReportIs(receiver_buffer, k, report, a)
    BY <2>1, StatusSound
  <2>3. report.ack = At(a) /\ Sound(receiver_buffer, k, report.nacks, a - 1)
    BY <2>2 DEF ReportIs
  <2>4. a # -1
    <3>1. Dist(vr_r, At(-1)) = SnModulo - 1
      BY <2>1, AtZero
    <3> QED
      BY <2>3, <3>1, RxFacts
  <2>5. a \in 0 .. WindowSize
    BY <2>4, RxFacts
  <2>6. acked = a
    BY <2>1, <2>3, <2>5, AtZero
  <2>7. j \in 0 .. a - 1 /\ j \in Nat /\ k + j \in Nat /\ k <= k + j
    BY <2>5, <2>6, RxFacts
  <2>8. Told(receiver_buffer, k, report.nacks, j)
    BY <2>3, <2>7 DEF Sound
  <2>9. CASE Have(receiver_buffer, k + j, y)
    <3>1. y \in Received(k + j)
      BY <2>1, <2>7, <2>9, ReceivedIs
    <3> QED
      BY <2>1, <3>1
  <2>10. CASE Asked(report.nacks, At(j), y)
    <3>1. y \in Nacked(report, At(j))
      BY <2>3, <2>10, NackedIs
    <3> QED
      BY <3>1 DEF At
  <2> QED
    BY <2>8, <2>9, <2>10 DEF Told
<1> QED
  BY <1>1, RxInvariantHolds, PTL

\* For as long as no PDU was misplaced no NACK of a status report that
\* rlc_am_send_status_pdu builds, whatever the grant, asks for a byte that is in the
\* list or has been passed on: its SN is in the window, and its bytes from SOstart to
\* SOend are those that no element of the list has.
THEOREM NacksMissingSafe == RxSpec => []NacksAreMissing
<1>1. KeptInvariant => NacksAreMissing
  <2> SUFFICES ASSUME RxInvariant, NEW g \in RxGrants, NEW report, report = StatusPdu(g),
                      NEW i \in DOMAIN report.nacks, NEW sn, sn = report.nacks[i].sn,
                      NEW y, y \in Nacked(report, sn),
                      y \in Received(InOrder + Dist(vr_r, sn))
               PROVE  FALSE
    BY DEF NacksAreMissing, KeptInvariant
  <2>1. PICK k \in Nat : k = InOrder /\ Listed(receiver_buffer, k) /\ vr_r \in SN
    BY ListedInvariant
  <2>2. PICK a \in -1 .. WindowSize : ReportIs(receiver_buffer, k, report, a)
    BY <2>1, StatusSound
  <2>3. Sound(receiver_buffer, k, report.nacks, a - 1)
    BY <2>2 DEF ReportIs
  <2>4. PICK q : q = report.nacks
    OBVIOUS
  <2>5. DOMAIN q = 1 .. Len(q) /\ \A j \in 1 .. Len(q) : NackWanted(receiver_buffer, k, q[j])
    BY <2>3, <2>4 DEF Sound, IsSeq
  <2>6. PICK o \in 0 .. WindowSize - 1 : sn = At(o)
    BY <2>4, <2>5 DEF NackWanted
  <2>7. Dist(vr_r, sn) = o
    <3>1. o \in 0 .. WindowSize
      BY RxFacts
    <3> QED
      BY <2>1, <2>6, <3>1, AtZero
  <2>8. y \in 0 .. PduSize - 1 /\ Asked(q, sn, y)
    BY <2>3, <2>4, NackedIs
  <2>9. PICK j \in 1 .. Len(q) : q[j].sn = sn /\ q[j].so_start <= y /\ y <= q[j].so_end
    BY <2>8 DEF Asked
  <2>10. PICK p \in 0 .. WindowSize - 1 :
           q[j].sn = At(p) /\ Missing(receiver_buffer, k + p, q[j].so_start, q[j].so_end)
    BY <2>5, <2>9 DEF NackWanted
  <2>11. p = o
    <3>1. p \in -1 .. WindowSize - 1 /\ o \in -1 .. WindowSize - 1 /\ At(p) = At(o)
      BY <2>6, <2>9, <2>10, RxFacts
    <3> QED
      BY <2>1, <3>1, AtDistinct
  <2>12. ~Have(receiver_buffer, k + o, y)
    BY <2>8, <2>9, <2>10, <2>11 DEF Missing
  <2>13. k + o \in Nat /\ k <= k + o
    BY RxFacts
  <2>14. y \in Received(k + o)
    BY <2>1, <2>7
  <2> QED
    BY <2>1, <2>8, <2>12, <2>13, <2>14, ReceivedIs
<1> QED
  BY <1>1, RxInvariantHolds, PTL
=============================================================================
