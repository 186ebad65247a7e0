---------------------------- MODULE RlcAmTxProofs ----------------------------
(***************************************************************************)
(* Proofs about RlcAmTx and RlcAmTxLink, for every window, ring of SDUs and *)
(* set of grants.  The results on TxSpec hold whatever a status report      *)
(* contains.                                                                *)
(***************************************************************************)
EXTENDS RlcAmTxLink, DataLemmas

\* A slot of pdu_retrans_buffer is a record whose flags are booleans; what the other
\* fields hold is of no account here.
PduShape(p) ==
  /\ p = [mem |-> p.mem, ack |-> p.ack, retx |-> p.retx, retransmit |-> p.retransmit,
          so_start |-> p.so_start, so_stop |-> p.so_stop, holes |-> p.holes,
          sdus |-> p.sdus, size |-> p.size]
  /\ p.mem \in BOOLEAN /\ p.ack \in BOOLEAN /\ p.retransmit \in BOOLEAN

SlotsShape ==
  slots = [sn \in SN |-> slots[sn]] /\ \A sn \in SN : PduShape(slots[sn])

TxFields ==
  /\ vt_a \in SN /\ vt_s \in SN /\ first_retrans \in SN \cup {-1}
  /\ SlotsShape
  /\ ctrl = [on |-> ctrl.on, ack |-> ctrl.ack, nacks |-> ctrl.nacks, i |-> ctrl.i,
             cursor |-> ctrl.cursor]
  /\ ctrl.on \in BOOLEAN /\ (ctrl.on => ctrl.cursor \in SN)

\* A report that has passed VT(A) without moving it has NACKed the PDU there, which
\* therefore is the first to retransmit until the report ends.
CursorPassed ==
  ctrl.on /\ ctrl.cursor \in Outstanding /\ ctrl.cursor # vt_a => first_retrans = vt_a

TxInvariant == TxFields /\ WindowHolds /\ RetransmissionFound /\ CursorPassed
-----------------------------------------------------------------------------
(* Sequence numbers.                                                        *)

LEMMA TxSnFacts ==
  /\ WindowSize \in Nat /\ WindowSize >= 1 /\ SnModulo \in Nat /\ SnModulo = 2 * WindowSize
  /\ SN \subseteq Nat /\ 0 \in SN /\ -1 \notin SN
BY TxWindowAssumption DEF SN

LEMMA DistIs ==
  \A a, b \in SN : /\ Dist(a, b) = IF a <= b THEN b - a ELSE b - a + SnModulo
                   /\ Dist(a, b) \in 0 .. SnModulo - 1
                   /\ Dist(a, b) = 0 <=> a = b
BY TxWindowAssumption DEF Dist, SN

LEMMA PlusIs ==
  \A a \in SN, k \in 0 .. SnModulo :
    /\ Plus(a, k) = IF a + k < SnModulo THEN a + k ELSE a + k - SnModulo
    /\ Plus(a, k) \in SN
BY TxWindowAssumption DEF Plus, SN

\* From one SN to another.
LEMMA PlusDist ==
  \A a, b \in SN : /\ Plus(a, Dist(a, b)) = b
                   /\ \A k \in 0 .. SnModulo - 1 : Plus(a, k) = b <=> k = Dist(a, b)
                   /\ \A k \in 0 .. SnModulo - 1 : Dist(a, Plus(a, k)) = k
<1> TAKE a, b \in SN
<1>1. a \in 0 .. SnModulo - 1 /\ b \in 0 .. SnModulo - 1 /\ SnModulo \in Nat
  BY TxSnFacts DEF SN
<1>2. Dist(a, b) = (IF a <= b THEN b - a ELSE b - a + SnModulo) /\ Dist(a, b) \in 0 .. SnModulo - 1
  BY DistIs
<1>3. \A k \in 0 .. SnModulo - 1 :
        Plus(a, k) = (IF a + k < SnModulo THEN a + k ELSE a + k - SnModulo) /\ Plus(a, k) \in SN
  BY PlusIs, <1>1
<1>4. \A k \in 0 .. SnModulo - 1 : Plus(a, k) = b <=> k = Dist(a, b)
  BY <1>1, <1>2, <1>3
<1>5. Plus(a, Dist(a, b)) = b
  BY <1>2, <1>4
<1>6. ASSUME NEW k \in 0 .. SnModulo - 1
      PROVE  Dist(a, Plus(a, k)) = k
  <2> DEFINE c == Plus(a, k)
  <2>1. c \in SN /\ c = IF a + k < SnModulo THEN a + k ELSE a + k - SnModulo
    BY <1>3
  <2> HIDE DEF c
  <2>2. Dist(a, c) = IF a <= c THEN c - a ELSE c - a + SnModulo
    BY <2>1, DistIs
  <2> QED
    BY <2>1, <2>2, <1>1 DEF c
<1> QED
  BY <1>4, <1>5, <1>6

\* VT(A) moves forward by k.
LEMMA DistMoved ==
  ASSUME NEW a \in SN, NEW b \in SN, NEW k \in 0 .. SnModulo - 1
  PROVE  Dist(Plus(a, k), b) = IF k <= Dist(a, b) THEN Dist(a, b) - k
                                                  ELSE Dist(a, b) - k + SnModulo
<1> DEFINE c == Plus(a, k)
<1>1. a \in 0 .. SnModulo - 1 /\ b \in 0 .. SnModulo - 1 /\ SnModulo \in Nat
  BY TxSnFacts DEF SN
<1>2. c \in SN /\ c = IF a + k < SnModulo THEN a + k ELSE a + k - SnModulo
  BY PlusIs, <1>1
<1> HIDE DEF c
<1>3. /\ Dist(a, b) = IF a <= b THEN b - a ELSE b - a + SnModulo
      /\ Dist(c, b) = IF c <= b THEN b - c ELSE b - c + SnModulo
  BY <1>2, DistIs
<1> QED
  BY <1>1, <1>2, <1>3 DEF c

\* VT(S) moves forward by one, or a cursor does.
LEMMA DistNext ==
  ASSUME NEW a \in SN, NEW b \in SN
  PROVE  /\ Plus(b, 1) \in SN
         /\ Dist(a, Plus(b, 1)) = IF Dist(a, b) + 1 = SnModulo THEN 0 ELSE Dist(a, b) + 1
<1> DEFINE c == Plus(b, 1)
<1>1. /\ a \in 0 .. SnModulo - 1 /\ b \in 0 .. SnModulo - 1 /\ SnModulo \in Nat
      /\ SnModulo >= 2
  BY TxSnFacts DEF SN
<1>2. c \in SN /\ c = IF b + 1 < SnModulo THEN b + 1 ELSE b + 1 - SnModulo
  BY PlusIs, <1>1
<1> HIDE DEF c
<1>3. /\ Dist(a, b) = IF a <= b THEN b - a ELSE b - a + SnModulo
      /\ Dist(a, c) = IF a <= c THEN c - a ELSE c - a + SnModulo
  BY <1>2, DistIs
<1> QED
  BY <1>1, <1>2, <1>3 DEF c
-----------------------------------------------------------------------------
(* Slots.                                                                   *)

\* What a PDU carries.
SamePayload(r, p) == r.sdus = p.sdus /\ r.size = p.size

\* Holes change neither the flags nor the record.
SameFlags(r, p) ==
  /\ PduShape(r) /\ r.mem = p.mem /\ r.ack = p.ack /\ r.retransmit = p.retransmit
  /\ r.retx = p.retx /\ SamePayload(r, p)

LEMMA HolesShape ==
  ASSUME NEW p, PduShape(p), NEW h, NEW a, NEW b
  PROVE  /\ SameFlags([p EXCEPT !.holes = h, !.so_start = a, !.so_stop = b], p)
         /\ SameFlags([p EXCEPT !.so_start = a, !.so_stop = b], p)
<1> DEFINE q == [mem |-> p.mem, ack |-> p.ack, retx |-> p.retx,
                 retransmit |-> p.retransmit, so_start |-> p.so_start,
                 so_stop |-> p.so_stop, holes |-> p.holes, sdus |-> p.sdus,
                 size |-> p.size]
<1>1. p = q /\ p.mem \in BOOLEAN /\ p.ack \in BOOLEAN /\ p.retransmit \in BOOLEAN
  BY DEF PduShape
<1>2. ASSUME NEW r, r = [p EXCEPT !.holes = h, !.so_start = a, !.so_stop = b]
      PROVE  SameFlags(r, p)
  BY <1>1, <1>2 DEF PduShape, SameFlags, SamePayload
<1>3. ASSUME NEW r, r = [p EXCEPT !.so_start = a, !.so_stop = b]
      PROVE  SameFlags(r, p)
  BY <1>1, <1>3 DEF PduShape, SameFlags, SamePayload
<1> QED
  BY <1>2, <1>3

LEMMA AddHoleShape ==
  ASSUME NEW p, PduShape(p), NEW first, NEW start, NEW stop
  PROVE  SameFlags(AddHole(p, first, start, stop), p)
<1> DEFINE end   == IF stop = SoEnd THEN p.size - 1 ELSE stop
           added == Append(IF first THEN <<>> ELSE p.holes, <<start, end>>)
           begin == added[1][1]
           r     == AddHole(p, first, start, stop)
           r1    == [p EXCEPT !.holes = <<>>, !.so_start = 0, !.so_stop = stop]
           r2    == [p EXCEPT !.holes = added, !.so_start = begin, !.so_stop = end]
<1>1. r = IF start = 0 /\ end = p.size - 1 THEN r1 ELSE r2
  BY DEF AddHole
<1> HIDE DEF end, added, begin, r
<1>2. SameFlags(r1, p) /\ SameFlags(r2, p)
  BY HolesShape
<1> HIDE DEF r1, r2
<1>3. SameFlags(r, p)
  BY <1>1, <1>2
<1> QED
  BY <1>3 DEF r

LEMMA RemoveHoleShape ==
  ASSUME NEW p, PduShape(p), NEW stop
  PROVE  SameFlags(RemoveHole(p, stop), p)
<1> DEFINE end  == IF p.so_stop = SoEnd THEN p.size - 1 ELSE p.so_stop
           rest == IF stop >= p.holes[1][2] THEN Tail(p.holes) ELSE p.holes
           left == [rest EXCEPT ![1] = <<stop, rest[1][2]>>]
           last == rest[Len(rest)][2]
           next == stop + 1
           r    == RemoveHole(p, stop)
           r1   == [p EXCEPT !.holes = <<>>, !.so_start = 0, !.so_stop = SoEnd]
           r2   == [p EXCEPT !.so_start = next, !.so_stop = end]
           r3   == [p EXCEPT !.holes = left, !.so_start = stop, !.so_stop = last]
<1>1. r = IF p.holes = <<>> THEN IF next >= end THEN r1 ELSE r2
          ELSE IF rest = <<>> THEN r1 ELSE r3
  BY DEF RemoveHole
<1> HIDE DEF end, rest, left, last, next, r
<1>2. SameFlags(r1, p) /\ SameFlags(r2, p) /\ SameFlags(r3, p)
  BY HolesShape
<1> HIDE DEF r1, r2, r3
<1>3. SameFlags(r, p)
  BY <1>1, <1>2
<1> QED
  BY <1>3 DEF r

\* A NACK, the repetition of a part and of all of a PDU.
LEMMA NackedShape ==
  ASSUME NEW sn, PduShape(slots[sn]), NEW first, NEW start, NEW stop
  PROVE  /\ PduShape(Nacked(sn, first, start, stop))
         /\ Nacked(sn, first, start, stop).mem = slots[sn].mem
         /\ Nacked(sn, first, start, stop).ack = slots[sn].ack
         /\ Nacked(sn, first, start, stop).retx = More(slots[sn].retx)
         /\ SamePayload(Nacked(sn, first, start, stop), slots[sn])
<1> DEFINE p == AddHole(slots[sn], first, start, stop)
           q == [mem |-> p.mem, ack |-> p.ack, retx |-> p.retx,
                 retransmit |-> p.retransmit, so_start |-> p.so_start,
                 so_stop |-> p.so_stop, holes |-> p.holes, sdus |-> p.sdus,
                 size |-> p.size]
<1>1. /\ PduShape(p) /\ p.mem = slots[sn].mem /\ p.ack = slots[sn].ack
      /\ p.retx = slots[sn].retx /\ p.sdus = slots[sn].sdus /\ p.size = slots[sn].size
  BY AddHoleShape DEF SameFlags, SamePayload
<1>2. Nacked(sn, first, start, stop) = [p EXCEPT !.retransmit = TRUE, !.retx = More(@)]
  BY DEF Nacked
<1> HIDE DEF p
<1>3. p = q /\ p.mem \in BOOLEAN /\ p.ack \in BOOLEAN
  BY <1>1 DEF PduShape
<1>4. PICK m, r : /\ m = More(p.retx) /\ r = Nacked(sn, first, start, stop)
                  /\ r = [p EXCEPT !.retransmit = TRUE, !.retx = m]
  BY <1>2
<1>5. /\ PduShape(r) /\ r.mem = p.mem /\ r.ack = p.ack
      /\ r.retx = m /\ r.sdus = p.sdus /\ r.size = p.size
  BY <1>3, <1>4 DEF PduShape
<1> HIDE DEF q
<1> QED
  BY <1>1, <1>4, <1>5 DEF SamePayload

LEMMA SubsegmentShape ==
  ASSUME NEW p, PduShape(p), NEW g
  PROVE  /\ PduShape(Subsegment(p, g))
         /\ Subsegment(p, g).mem = p.mem /\ Subsegment(p, g).ack = p.ack
         /\ Subsegment(p, g).retransmit => p.retransmit
         /\ Subsegment(p, g).retx = p.retx /\ SamePayload(Subsegment(p, g), p)
<1> DEFINE r == RemoveHole(p, LastByte(p, g))
           q == [mem |-> r.mem, ack |-> r.ack, retx |-> r.retx,
                 retransmit |-> r.retransmit, so_start |-> r.so_start,
                 so_stop |-> r.so_stop, holes |-> r.holes, sdus |-> r.sdus,
                 size |-> r.size]
<1>1. /\ PduShape(r) /\ r.mem = p.mem /\ r.ack = p.ack /\ r.retransmit = p.retransmit
      /\ r.retx = p.retx /\ r.sdus = p.sdus /\ r.size = p.size
  BY RemoveHoleShape DEF SameFlags, SamePayload
<1>2. Subsegment(p, g) =
        [r EXCEPT !.retransmit = @ /\ LastByte(p, g) + 1 # p.size]
  BY DEF Subsegment
<1> HIDE DEF r
<1>3. r = q /\ r.mem \in BOOLEAN /\ r.ack \in BOOLEAN /\ r.retransmit \in BOOLEAN
  BY <1>1 DEF PduShape
<1>4. ASSUME NEW b \in BOOLEAN, NEW t, t = [r EXCEPT !.retransmit = b]
      PROVE  /\ PduShape(t) /\ t.mem = r.mem /\ t.ack = r.ack /\ t.retransmit = b
             /\ t.retx = r.retx /\ t.sdus = r.sdus /\ t.size = r.size
  BY <1>3, <1>4 DEF PduShape
<1> QED
  BY <1>1, <1>2, <1>3, <1>4 DEF SamePayload
-----------------------------------------------------------------------------
(* The window.                                                              *)

LEMMA OutstandingIs ==
  ASSUME TxInvariant
  PROVE  /\ \A sn \in SN : sn \in Outstanding <=> Dist(vt_a, sn) < Dist(vt_a, vt_s)
         /\ Outstanding \subseteq SN /\ vt_s \notin Outstanding
         /\ vt_a \in Outstanding <=> vt_a # vt_s
         /\ Dist(vt_a, vt_s) \in 0 .. WindowSize
BY TxSnFacts, DistIs DEF Outstanding, TxInvariant, TxFields, WindowHolds

\* What the window says of the flags of one slot.
LEMMA FlagsOfSlot ==
  ASSUME TxInvariant, NEW sn \in SN
  PROVE  /\ PduShape(slots[sn])
         /\ slots[sn].mem \in BOOLEAN /\ slots[sn].ack \in BOOLEAN
         /\ slots[sn].retransmit \in BOOLEAN
         /\ slots[sn].mem => sn \in Outstanding
         /\ slots[sn].ack => sn \in Outstanding
         /\ sn \in Outstanding => slots[sn].mem = ~slots[sn].ack
         /\ slots[sn].retransmit => slots[sn].mem
         /\ slots[sn].mem <=> sn \in Held
BY DEF TxInvariant, TxFields, SlotsShape, PduShape, WindowHolds, Held

\* The step changes a slot, and not whether it holds a PDU.
LEMMA OneSlot ==
  ASSUME TxInvariant, NEW sn \in SN, NEW p, PduShape(p), p.mem = slots[sn].mem,
         p.ack = slots[sn].ack, p.retransmit => p.mem,
         slots' = [slots EXCEPT ![sn] = p], vt_a' = vt_a, vt_s' = vt_s
  PROVE  SlotsShape' /\ WindowHolds' /\ Outstanding' = Outstanding /\ Held' = Held
<1>1. Outstanding' = Outstanding
  BY DEF Outstanding
<1>2. slots = [t \in SN |-> slots[t]]
  BY DEF TxInvariant, TxFields, SlotsShape
<1>3. slots' = [t \in SN |-> IF t = sn THEN p ELSE slots[t]]
  BY <1>2
<1>4. \A t \in SN : slots'[t] = IF t = sn THEN p ELSE slots[t]
  BY <1>3
<1>5. slots' = [t \in SN |-> slots'[t]]
  BY <1>3
<1>6. \A t \in SN : PduShape(slots'[t])
  BY <1>4, FlagsOfSlot
<1>7. \A t \in SN : /\ slots'[t].mem = slots[t].mem /\ slots'[t].ack = slots[t].ack
                    /\ slots'[t].retransmit => slots'[t].mem
  BY <1>4, FlagsOfSlot
<1>8. SlotsShape'
  BY <1>5, <1>6 DEF SlotsShape
<1>9. Held' = Held
  BY <1>1, <1>7, OutstandingIs DEF Held
<1>10. WindowHolds'
  BY <1>1, <1>7 DEF WindowHolds, TxInvariant, TxFields
<1> QED
  BY <1>1, <1>8, <1>9, <1>10

\* The step leaves the window and the slots alone.
LEMMA SameSlots ==
  ASSUME TxInvariant, slots' = slots, vt_a' = vt_a, vt_s' = vt_s
  PROVE  SlotsShape' /\ WindowHolds' /\ Outstanding' = Outstanding /\ Held' = Held
BY DEF TxInvariant, TxFields, SlotsShape, PduShape, WindowHolds, Outstanding, Held

\* The step is not one of a status report.
LEMMA NoReport ==
  ASSUME TxInvariant, ~ctrl.on, ctrl' = ctrl, vt_a' \in SN, vt_s' \in SN,
         first_retrans' \in SN \cup {-1}, SlotsShape', WindowHolds', RetransmissionFound'
  PROVE  TxInvariant'
BY DEF TxInvariant, TxFields, CursorPassed

LEMMA QuietStep ==
  ASSUME TxInvariant, UNCHANGED <<vt_a, vt_s, slots, first_retrans, ctrl>>
  PROVE  TxInvariant'
<1>1. SlotsShape' /\ WindowHolds' /\ Outstanding' = Outstanding /\ Held' = Held
  BY SameSlots
<1> QED
  BY <1>1 DEF TxInvariant, TxFields, RetransmissionFound, CursorPassed

LEMMA ReceiveStatusStep ==
  ASSUME TxInvariant, NEW status, ReceiveStatus(status)
  PROVE  TxInvariant'
<1>1. UNCHANGED <<vt_a, vt_s, slots, first_retrans>>
  BY DEF ReceiveStatus, retrans_vars
<1>2. SlotsShape' /\ WindowHolds' /\ Outstanding' = Outstanding /\ Held' = Held
  BY <1>1, SameSlots
<1>3. /\ ctrl' = [on |-> ctrl'.on, ack |-> ctrl'.ack, nacks |-> ctrl'.nacks, i |-> ctrl'.i,
                  cursor |-> ctrl'.cursor]
      /\ ctrl'.on \in BOOLEAN /\ (ctrl'.on => ctrl'.cursor = vt_a)
  <2> DEFINE c == [on |-> TRUE, ack |-> status.ack, nacks |-> status.nacks, i |-> 1,
                   cursor |-> vt_a]
  <2>1. ctrl' = c \/ ctrl' = Idle
    BY DEF ReceiveStatus
  <2>2. CASE ctrl' = c
    BY <2>2
  <2>3. CASE ctrl' = Idle
    BY <2>3 DEF Idle
  <2> QED
    BY <2>1, <2>2, <2>3
<1> QED
  BY <1>1, <1>2, <1>3 DEF TxInvariant, TxFields, RetransmissionFound, CursorPassed
-----------------------------------------------------------------------------
(* Retransmission and transmission.                                         *)

\* What rlc_am_get_pdus repeats is held.
LEMMA RetransmitsHeld ==
  ASSUME TxInvariant, Retransmits
  PROVE  first_retrans \in SN /\ first_retrans \in Held /\ slots[first_retrans].mem
BY TxSnFacts DEF TxInvariant, TxFields, Retransmits, RetransmissionFound, Held

LEMMA RetransmitWholeStep ==
  ASSUME TxInvariant, NEW g, RetransmitWhole(g)
  PROVE  TxInvariant'
<1> DEFINE sn == first_retrans
           m  == More(slots[sn].retx)
           p  == [slots[sn] EXCEPT !.retransmit = FALSE, !.retx = m]
<1>1. sn \in SN /\ sn \in Held /\ slots[sn].mem
  BY RetransmitsHeld DEF RetransmitWhole, FitsWhole
<1>2. /\ slots' = [slots EXCEPT ![sn].retransmit = FALSE, ![sn].retx = More(@)]
      /\ UNCHANGED <<vt_a, vt_s, first_retrans, ctrl>> /\ ~ctrl.on
  BY DEF RetransmitWhole, retrans_vars
<1>3. slots = [t \in SN |-> slots[t]] /\ PduShape(slots[sn])
  BY <1>1 DEF TxInvariant, TxFields, SlotsShape
<1>4. slots' = [slots EXCEPT ![sn] = p]
  BY <1>1, <1>2, <1>3 DEF PduShape
<1> HIDE DEF m
<1>5. ASSUME NEW q, q = p
      PROVE  /\ PduShape(q) /\ q.mem = slots[sn].mem /\ q.ack = slots[sn].ack
             /\ q.retransmit => q.mem
  BY <1>1, <1>3, <1>5 DEF PduShape
<1> HIDE DEF p
<1>6. SlotsShape' /\ WindowHolds' /\ Held' = Held
  BY <1>1, <1>2, <1>4, <1>5, OneSlot
<1> QED
  BY <1>2, <1>6, NoReport DEF TxInvariant, TxFields, RetransmissionFound

\* The PDU that follows in first_retrans_pdu_sn waits for retransmission.
LEMMA NextFlaggedIs ==
  ASSUME NEW sn \in SN, NEW left, vt_s \in SN
  PROVE  \/ NextFlagged(sn, left) = -1
         \/ NextFlagged(sn, left) \in SN /\ left[NextFlagged(sn, left)].retransmit
<1> DEFINE S == {j \in 0 .. SnModulo : Plus(sn, j) = vt_s \/ left[Plus(sn, j)].retransmit}
           k == Min(S)
<1>1. Dist(sn, vt_s) \in S
  <2>1. Dist(sn, vt_s) \in 0 .. SnModulo /\ Plus(sn, Dist(sn, vt_s)) = vt_s
    BY DistIs, PlusDist, TxSnFacts
  <2> QED
    BY <2>1
<1>2. S \subseteq Int /\ \A x \in S : 0 <= x
  BY TxSnFacts
<1>3. k \in S
  BY <1>1, <1>2, MinIsLeast
<1>4. NextFlagged(sn, left) = IF Plus(sn, k) = vt_s THEN -1 ELSE Plus(sn, k)
  BY DEF NextFlagged
<1> QED
  BY <1>3, <1>4, PlusIs

LEMMA RetransmitSegmentStep ==
  ASSUME TxInvariant, NEW g, RetransmitSegment(g)
  PROVE  TxInvariant'
<1> DEFINE sn == first_retrans
           p  == Subsegment(slots[sn], g)
<1>1. sn \in SN /\ sn \in Held /\ slots[sn].mem
  BY RetransmitsHeld DEF RetransmitSegment, FitsSegment
<1>2. /\ slots' = [slots EXCEPT ![sn] = p]
      /\ first_retrans' = NextFlagged(sn, slots')
      /\ UNCHANGED <<vt_a, vt_s, ctrl>> /\ ~ctrl.on
  BY DEF RetransmitSegment
<1>3. /\ PduShape(p) /\ p.mem = slots[sn].mem /\ p.ack = slots[sn].ack
      /\ p.retransmit => p.mem
  BY <1>1, FlagsOfSlot, SubsegmentShape
<1> HIDE DEF p
<1>4. SlotsShape' /\ WindowHolds' /\ Outstanding' = Outstanding
  BY <1>1, <1>2, <1>3, OneSlot
<1>5. \/ first_retrans' = -1
      \/ first_retrans' \in SN /\ slots'[first_retrans'].retransmit
  BY <1>1, <1>2, NextFlaggedIs DEF TxInvariant, TxFields
<1>6. \A t \in SN : slots'[t].retransmit => t \in Held'
  BY <1>4 DEF WindowHolds, Held
<1>7. first_retrans' \in SN \cup {-1} /\ RetransmissionFound'
  BY <1>5, <1>6 DEF RetransmissionFound
<1> QED
  BY <1>2, <1>4, <1>7, NoReport DEF TxInvariant, TxFields

LEMMA NewPduShape ==
  ASSUME NEW size, NEW s
  PROVE  /\ PduShape(NewPdu(size, s))
         /\ NewPdu(size, s).mem /\ ~NewPdu(size, s).ack /\ ~NewPdu(size, s).retransmit
         /\ NewPdu(size, s).retx = -1
         /\ NewPdu(size, s).sdus = s /\ NewPdu(size, s).size = size
<1>1. ASSUME NEW m, NEW z, NEW h, NEW e, NEW q,
             q = [[mem |-> FALSE, ack |-> FALSE, retx |-> z, retransmit |-> FALSE,
                   so_start |-> z, so_stop |-> z, holes |-> h, sdus |-> e, size |-> z]
                  EXCEPT !.mem = TRUE, !.retx = m, !.sdus = s, !.size = size]
      PROVE  /\ PduShape(q) /\ q.mem /\ ~q.ack /\ ~q.retransmit
             /\ q.retx = m /\ q.sdus = s /\ q.size = size
  BY <1>1 DEF PduShape
<1> QED
  BY <1>1 DEF NewPdu, NoPdu

\* A new PDU: the window is not full, and grows by VT(S).
LEMMA WindowGrows ==
  ASSUME TxInvariant, NEW g, TransmitNew(g)
  PROVE  /\ vt_a \in SN /\ vt_s \in SN /\ vt_s' \in SN /\ vt_a' = vt_a
         /\ Dist(vt_a, vt_s) \in Nat /\ Dist(vt_a, vt_s) < WindowSize
         /\ Dist(vt_a, vt_s') = Dist(vt_a, vt_s) + 1
         /\ \A t \in SN : t \in Outstanding' <=> t \in Outstanding \/ t = vt_s
<1> DEFINE D == Dist(vt_a, vt_s)
<1>1. vt_s' = Plus(vt_s, 1) /\ vt_s # VtMs /\ vt_a' = vt_a
  BY DEF TransmitNew, HasNewPdu
<1>2. vt_a \in SN /\ vt_s \in SN /\ D \in 0 .. WindowSize
  BY OutstandingIs DEF TxInvariant, TxFields
<1>3. D < WindowSize
  <2>1. SUFFICES D # WindowSize
    BY <1>2, TxSnFacts
  <2> SUFFICES ASSUME D = WindowSize PROVE FALSE
    OBVIOUS
  <2>2. Plus(vt_a, D) = vt_s
    BY <1>2, PlusDist
  <2> QED
    BY <1>1, <2>2 DEF VtMs
<1>4. vt_s' \in SN /\ Dist(vt_a, vt_s') = D + 1
  BY <1>1, <1>2, <1>3, DistNext, TxSnFacts
<1>5. \A t \in SN : t \in Outstanding' <=> t \in Outstanding \/ t = vt_s
  <2> TAKE t \in SN
  <2>1. t \in Outstanding' <=> Dist(vt_a, t) < D + 1
    BY <1>1, <1>4 DEF Outstanding
  <2>2. t \in Outstanding <=> Dist(vt_a, t) < D
    BY OutstandingIs
  <2>3. Dist(vt_a, t) = D <=> t = vt_s
    BY <1>2, DistIs, PlusDist
  <2>4. Dist(vt_a, t) \in Nat /\ D \in Nat
    BY <1>2, DistIs, TxSnFacts
  <2> QED
    BY <2>1, <2>2, <2>3, <2>4
<1>6. D \in Nat
  BY <1>2, TxSnFacts
<1> QED
  BY <1>1, <1>2, <1>3, <1>4, <1>5, <1>6

LEMMA TransmitNewStep ==
  ASSUME TxInvariant, NEW g, TransmitNew(g)
  PROVE  TxInvariant'
<1> DEFINE D == Dist(vt_a, vt_s)
<1>1. PICK size, s : slots' = [slots EXCEPT ![vt_s] = NewPdu(size, s)]
  BY DEF TransmitNew
<1> DEFINE p == NewPdu(size, s)
<1>2. vt_a' = vt_a /\ UNCHANGED <<first_retrans, ctrl>> /\ ~ctrl.on
  BY DEF TransmitNew
<1>3. PduShape(p) /\ p.mem /\ ~p.ack /\ ~p.retransmit
  BY NewPduShape
<1> HIDE DEF p
<1>4. vt_a \in SN /\ vt_s \in SN /\ D \in Nat
  BY WindowGrows
<1>5. D < WindowSize
  BY WindowGrows
<1>6. vt_s' \in SN /\ Dist(vt_a, vt_s') = D + 1
  BY WindowGrows
<1>7. \A t \in SN : t \in Outstanding' <=> t \in Outstanding \/ t = vt_s
  BY WindowGrows
<1>8. slots = [t \in SN |-> slots[t]]
  BY DEF TxInvariant, TxFields, SlotsShape
<1>9. slots' = [t \in SN |-> IF t = vt_s THEN p ELSE slots[t]]
  BY <1>1, <1>4, <1>8 DEF p
<1>10. SlotsShape'
  BY <1>3, <1>9, FlagsOfSlot DEF SlotsShape
<1>11. vt_a' # vt_s' => slots'[vt_a].mem
  BY <1>3, <1>4, <1>9, OutstandingIs DEF TxInvariant, WindowHolds
<1>12. WindowHolds'
  <2>1. Dist(vt_a, vt_s)' <= WindowSize
    BY <1>2, <1>4, <1>5, <1>6, TxSnFacts
  <2>2. \A t \in SN : IF t \in Outstanding' THEN slots'[t].mem = ~slots'[t].ack
                                            ELSE ~slots'[t].mem /\ ~slots'[t].ack
    <3> TAKE t \in SN
    <3>1. CASE t = vt_s
      BY <3>1, <1>3, <1>7, <1>9
    <3>2. CASE t # vt_s
      BY <3>2, <1>7, <1>9, FlagsOfSlot
    <3> QED
      BY <3>1, <3>2
  <2>3. \A t \in SN : slots'[t].retransmit => slots'[t].mem
    BY <1>3, <1>9, FlagsOfSlot
  <2> QED
    BY <2>1, <2>2, <2>3, <1>2, <1>11 DEF WindowHolds
<1>13. RetransmissionFound'
  <2>1. \A t \in SN : t \in Held' <=> t \in Outstanding' /\ slots'[t].mem
    BY DEF Held, Outstanding
  <2>2. \A t \in SN : t \in Held \/ t = vt_s => t \in Held'
    BY <2>1, <1>3, <1>4, <1>7, <1>9 DEF Held
  <2>3. Held \subseteq SN
    BY DEF Held, Outstanding
  <2> QED
    BY <2>2, <2>3, <1>2, <1>4 DEF RetransmissionFound, TxInvariant
<1> QED
  BY <1>2, <1>4, <1>6, <1>10, <1>12, <1>13, NoReport DEF TxInvariant, TxFields

\* rlc_am_nack_pdu, and the PDU that rlc_am_retransmit_any_pdu picks.
LEMMA NackCountersFound ==
  ASSUME TxInvariant, NEW sn \in Held, NackCounters(sn), Held' = Held, vt_s' = vt_s
  PROVE  first_retrans' \in SN \cup {-1} /\ RetransmissionFound'
<1>1. first_retrans' \in {sn, first_retrans}
  BY DEF NackCounters
<1>2. Held \subseteq SN
  BY DEF Held, Outstanding
<1> QED
  BY <1>1, <1>2 DEF RetransmissionFound, TxInvariant, TxFields

LEMMA LastOfIn ==
  ASSUME vt_a \in SN, NEW S, S \subseteq SN, S # {}
  PROVE  LastOf(S) \in S
<1> DEFINE T == {Dist(vt_a, t) : t \in S}
           m == Max(T)
<1>1. T \subseteq Int /\ T # {} /\ \A x \in T : x <= SnModulo
  <2>1. \A t \in S : Dist(vt_a, t) \in Int /\ Dist(vt_a, t) <= SnModulo
    BY DistIs, TxSnFacts
  <2>2. T # {}
    OBVIOUS
  <2> QED
    BY <2>1, <2>2
<1>2. m \in T /\ \A x \in T : x <= m
  <2> HIDE DEF T
  <2>1. SnModulo \in Int
    BY TxSnFacts
  <2> QED
    BY <1>1, <2>1, MaxIsGreatest
<1>3. \E sn \in S : \A t \in S : Dist(vt_a, t) <= Dist(vt_a, sn)
  BY <1>2
<1> QED
  BY <1>3 DEF LastOf

LEMMA RetransmitAnyStep ==
  ASSUME TxInvariant, NEW g, RetransmitAny(g)
  PROVE  TxInvariant'
<1> DEFINE fit == {sn \in Held : PduBytes(slots[sn]) <= g}
           S   == IF fit # {} THEN fit ELSE Held
           sn  == LastOf(S)
           p   == Nacked(sn, TRUE, 0, SoEnd)
           q1  == [p EXCEPT !.retransmit = FALSE]
           q2  == Subsegment(p, g)
<1>1. /\ Held # {} /\ ~ctrl.on /\ UNCHANGED <<vt_a, vt_s, ctrl>>
      /\ NackCounters(sn)
      /\ slots' = [slots EXCEPT ![sn] = q1] \/ slots' = [slots EXCEPT ![sn] = q2]
  BY DEF RetransmitAny
<1>2. Held \subseteq SN
  BY DEF Held, Outstanding
<1>3. S \subseteq Held /\ S # {}
  BY <1>1
<1>4. sn \in Held /\ sn \in SN
  BY <1>2, <1>3, LastOfIn DEF TxInvariant, TxFields
<1> HIDE DEF S, sn
<1>5. slots[sn].mem = TRUE
  BY <1>4, FlagsOfSlot
<1>6. PduShape(p) /\ p.mem = slots[sn].mem /\ p.ack = slots[sn].ack
  <2>1. PduShape(slots[sn])
    BY <1>4, FlagsOfSlot
  <2> QED
    BY <2>1, NackedShape
<1> HIDE DEF p
<1>7. PduShape(q2) /\ q2.mem = slots[sn].mem /\ q2.ack = slots[sn].ack
  BY <1>6, SubsegmentShape
<1>8. PduShape(q1) /\ q1.mem = slots[sn].mem /\ q1.ack = slots[sn].ack
  <2>1. ASSUME NEW q, q = q1
        PROVE  PduShape(q) /\ q.mem = p.mem /\ q.ack = p.ack
    BY <2>1, <1>6 DEF PduShape
  <2> QED
    BY <2>1, <1>6
<1> HIDE DEF q1, q2
<1>9. SlotsShape' /\ WindowHolds' /\ Held' = Held
  BY <1>1, <1>4, <1>5, <1>7, <1>8, OneSlot
<1>10. first_retrans' \in SN \cup {-1} /\ RetransmissionFound'
  BY <1>1, <1>4, <1>9, NackCountersFound
<1> QED
  BY <1>1, <1>9, <1>10, NoReport DEF TxInvariant, TxFields

LEMMA GetPdusStep ==
  ASSUME TxInvariant, NEW g, GetPdus(g)
  PROVE  TxInvariant'
BY RetransmitWholeStep, RetransmitSegmentStep, TransmitNewStep, RetransmitAnyStep DEF GetPdus
-----------------------------------------------------------------------------
(* A status report, one SN at a time.                                       *)

\* The SN after one that is not outstanding is VT(A), or not outstanding.
LEMMA EnterAtVtA ==
  ASSUME TxInvariant, NEW c \in SN, c \notin Outstanding, Plus(c, 1) \in Outstanding
  PROVE  Plus(c, 1) = vt_a
<1>1. vt_a \in SN /\ vt_s \in SN
  BY DEF TxInvariant, TxFields
<1>2. /\ Plus(c, 1) \in SN
      /\ Dist(vt_a, Plus(c, 1)) = IF Dist(vt_a, c) + 1 = SnModulo THEN 0
                                  ELSE Dist(vt_a, c) + 1
  BY <1>1, DistNext
<1>3. Dist(vt_a, c) \in Nat /\ Dist(vt_a, vt_s) \in Nat
  BY <1>1, DistIs, TxSnFacts
<1>4. Dist(vt_a, Plus(c, 1)) < Dist(vt_a, vt_s) /\ ~(Dist(vt_a, c) < Dist(vt_a, vt_s))
  BY <1>2, OutstandingIs
<1>5. Dist(vt_a, Plus(c, 1)) = 0
  BY <1>2, <1>3, <1>4, TxSnFacts
<1> QED
  BY <1>1, <1>2, <1>5, DistIs

\* What the step for the SN c establishes: for the next SN, c or the one after.
StepDone(c) ==
  /\ vt_a' \in SN /\ first_retrans' \in SN \cup {-1}
  /\ SlotsShape' /\ WindowHolds' /\ RetransmissionFound'
  /\ \A d \in {c, Plus(c, 1)} : d \in Outstanding' /\ d # vt_a' => first_retrans' = vt_a'

\* Nothing is done for the SN.
LEMMA NothingDone ==
  ASSUME TxInvariant, NEW c \in SN, ~slots[c].mem, UNCHANGED <<vt_a, vt_s, slots, first_retrans>>,
         c \in Outstanding /\ c # vt_a => first_retrans = vt_a
  PROVE  StepDone(c)
<1>1. SlotsShape' /\ WindowHolds' /\ Outstanding' = Outstanding /\ Held' = Held
  BY SameSlots
<1>2. c = vt_a => c \notin Outstanding
  BY OutstandingIs DEF TxInvariant, WindowHolds
<1>3. Plus(c, 1) \in Outstanding /\ Plus(c, 1) # vt_a => first_retrans = vt_a
  BY <1>2, EnterAtVtA
<1> QED
  BY <1>1, <1>2, <1>3 DEF StepDone, TxInvariant, TxFields, RetransmissionFound

LEMMA NackPduStep ==
  ASSUME TxInvariant, NEW c \in SN, NEW first, NEW start, NEW stop,
         NackPdu(c, first, start, stop), vt_s' = vt_s,
         c \in Outstanding /\ c # vt_a => first_retrans = vt_a
  PROVE  StepDone(c)
<1>1. CASE ~slots[c].mem
  BY <1>1, NothingDone DEF NackPdu, retrans_vars
<1>2. CASE slots[c].mem
  <2> DEFINE p == Nacked(c, first, start, stop)
  <2>1. slots' = [slots EXCEPT ![c] = p] /\ NackCounters(c) /\ vt_a' = vt_a
    BY <1>2 DEF NackPdu
  <2>2. PduShape(p) /\ p.mem = slots[c].mem /\ p.ack = slots[c].ack
    BY FlagsOfSlot, NackedShape
  <2> HIDE DEF p
  <2>3. SlotsShape' /\ WindowHolds' /\ Outstanding' = Outstanding /\ Held' = Held
    BY <1>2, <2>1, <2>2, OneSlot
  <2>4. c \in Held /\ c \in Outstanding
    BY <1>2, FlagsOfSlot
  <2>5. vt_a \in SN /\ first_retrans \in SN \cup {-1}
    BY DEF TxInvariant, TxFields
  <2>6. first_retrans' = vt_a
    <3>1. first_retrans' = IF first_retrans < 0 \/ Dist(vt_a, first_retrans) > Dist(vt_a, c)
                           THEN c ELSE first_retrans
      BY <2>1 DEF NackCounters
    <3>2. Dist(vt_a, vt_a) = 0 /\ Dist(vt_a, c) \in Nat
      BY <2>5, DistIs, TxSnFacts
    <3>3. CASE c = vt_a
      <4>1. first_retrans \in SN /\ ~(Dist(vt_a, first_retrans) > 0) => first_retrans = vt_a
        BY <2>5, DistIs, TxSnFacts
      <4>2. first_retrans = -1 => first_retrans < 0
        OBVIOUS
      <4> QED
        BY <3>1, <3>2, <3>3, <4>1, <4>2, <2>5
    <3>4. CASE c # vt_a
      BY <3>1, <3>2, <3>4, <2>4, <2>5, TxSnFacts
    <3> QED
      BY <3>3, <3>4
  <2>7. RetransmissionFound'
    BY <2>1, <2>3, <2>4, NackCountersFound
  <2> QED
    BY <2>1, <2>3, <2>5, <2>6, <2>7 DEF StepDone
<1> QED
  BY <1>1, <1>2

\* VT(A) stops at the first PDU that is not acknowledged, or at VT(S).
LEMMA AdvanceIs ==
  ASSUME TxInvariant, vt_a # vt_s, NEW acked
  PROVE  /\ Advance(acked) \in 1 .. Dist(vt_a, vt_s)
         /\ \/ Plus(vt_a, Advance(acked)) = vt_s
            \/ ~acked[Plus(vt_a, Advance(acked))].ack
         /\ \A j \in 1 .. Advance(acked) - 1 : acked[Plus(vt_a, j)].ack
<1> DEFINE S == {k \in 1 .. SnModulo : Plus(vt_a, k) = vt_s \/ ~acked[Plus(vt_a, k)].ack}
           D == Dist(vt_a, vt_s)
<1>1. vt_a \in SN /\ vt_s \in SN
  BY DEF TxInvariant, TxFields
<1>2. D \in 1 .. SnModulo /\ Plus(vt_a, D) = vt_s
  <2>1. D \in 0 .. SnModulo - 1 /\ D # 0
    BY <1>1, DistIs
  <2>2. Plus(vt_a, D) = vt_s
    BY <1>1, PlusDist
  <2> HIDE DEF D
  <2> QED
    BY <2>1, <2>2, TxSnFacts
<1> HIDE DEF D
<1>3. D \in S
  BY <1>2
<1>4. S \subseteq Int /\ \A x \in S : 1 <= x
  BY TxSnFacts
<1>5. Min(S) \in S /\ Min(S) <= D /\ \A x \in S : Min(S) <= x
  BY <1>3, <1>4, MinIsLeast
<1>6. Advance(acked) = Min(S)
  BY DEF Advance
<1>7. PICK k : k = Min(S)
  OBVIOUS
<1>8. ASSUME NEW j \in 1 .. k - 1 PROVE acked[Plus(vt_a, j)].ack
  <2>1. j \in 1 .. SnModulo /\ ~(k <= j)
    BY <1>5, <1>7, TxSnFacts
  <2>2. j \notin S
    BY <1>5, <1>7, <2>1
  <2> QED
    BY <2>1, <2>2
<1> QED
  BY <1>2, <1>5, <1>6, <1>7, <1>8, TxSnFacts DEF D

\* The PDU of an ACK that does not move VT(A).
LEMMA AckedShape ==
  ASSUME NEW p, PduShape(p), NEW b \in BOOLEAN,
         NEW q, q = [p EXCEPT !.mem = FALSE, !.ack = b, !.retransmit = FALSE]
  PROVE  /\ PduShape(q) /\ ~q.mem /\ q.ack = b /\ ~q.retransmit
         /\ q.retx = p.retx /\ SamePayload(q, p)
BY DEF PduShape, SamePayload

LEMMA SamePdu ==
  ASSUME NEW p, PduShape(p), ~p.mem, ~p.retransmit, ~p.ack
  PROVE  [p EXCEPT !.mem = FALSE, !.ack = FALSE, !.retransmit = FALSE] = p
BY DEF PduShape

\* The ACK of a PDU that is not outstanding changes nothing.
LEMMA AckNothing ==
  ASSUME TxInvariant, NEW c \in SN, c \notin Outstanding, AckPdu(c)
  PROVE  ~slots[c].mem /\ UNCHANGED <<vt_a, slots, first_retrans>>
<1> DEFINE p     == slots[c]
           q     == [p EXCEPT !.mem = FALSE, !.ack = FALSE, !.retransmit = FALSE]
           acked == [slots EXCEPT ![c] = q]
<1>1. PduShape(p) /\ ~p.mem /\ ~p.ack /\ ~p.retransmit
  BY FlagsOfSlot
<1>2. q = p
  BY <1>1, SamePdu
<1>3. vt_a \in SN /\ first_retrans \in SN \cup {-1} /\ slots = [s \in SN |-> slots[s]]
  BY DEF TxInvariant, TxFields, SlotsShape
<1>4. acked = slots
  BY <1>2, <1>3
<1>5. (p.ack \/ (~p.ack /\ p.mem)) = FALSE
  BY <1>1
<1>6. /\ slots' = [s \in SN |-> IF Dist(vt_a, s) < 0 THEN NoPdu ELSE slots[s]]
      /\ vt_a' = Plus(vt_a, 0)
      /\ first_retrans' = IF first_retrans >= 0 /\ Dist(vt_a, first_retrans) < 0
                          THEN Plus(vt_a, 0) ELSE first_retrans
  <2> HIDE DEF q
  <2>1. acked = [slots EXCEPT ![c] = [p EXCEPT !.mem = FALSE, !.ack = @ \/ (~p.ack /\ p.mem),
                                               !.retransmit = FALSE]]
    BY <1>5 DEF q
  <2>2. ~acked[c].ack
    BY <1>1, <1>4
  <2> QED
    BY <1>1, <1>4, <2>1, <2>2 DEF AckPdu
<1>7. \A s \in SN : ~(Dist(vt_a, s) < 0)
  BY <1>3, DistIs, TxSnFacts
<1>8. Plus(vt_a, 0) = vt_a
  BY <1>3, PlusIs, TxSnFacts DEF SN
<1>9. UNCHANGED <<vt_a, slots, first_retrans>>
  BY <1>3, <1>6, <1>7, <1>8, TxSnFacts
<1> QED
  BY <1>1, <1>9

LEMMA AckOutside ==
  ASSUME TxInvariant, NEW c \in SN, c \notin Outstanding, AckPdu(c), vt_s' = vt_s
  PROVE  StepDone(c)
BY AckNothing, NothingDone

\* The ACK of an outstanding PDU, with the slots before VT(A) moves.
AckSlots(c) ==
  [s \in SN |-> IF s = c THEN [slots[c] EXCEPT !.mem = FALSE, !.ack = TRUE,
                                               !.retransmit = FALSE]
                ELSE slots[s]]

LEMMA AckSlotsShape ==
  ASSUME TxInvariant, NEW c \in SN
  PROVE  /\ \A s \in SN : PduShape(AckSlots(c)[s])
         /\ ~AckSlots(c)[c].mem /\ AckSlots(c)[c].ack /\ ~AckSlots(c)[c].retransmit
         /\ AckSlots(c)[c].retx = slots[c].retx /\ SamePayload(AckSlots(c)[c], slots[c])
         /\ \A s \in SN : s # c => AckSlots(c)[s] = slots[s]
<1> DEFINE q == [slots[c] EXCEPT !.mem = FALSE, !.ack = TRUE, !.retransmit = FALSE]
<1>1. AckSlots(c) = [s \in SN |-> IF s = c THEN q ELSE slots[s]]
  BY DEF AckSlots
<1>2. \A s \in SN : PduShape(slots[s])
  BY FlagsOfSlot
<1>3. /\ PduShape(q) /\ ~q.mem /\ q.ack /\ ~q.retransmit
      /\ q.retx = slots[c].retx /\ SamePayload(q, slots[c])
  <2>1. TRUE \in BOOLEAN /\ PduShape(slots[c])
    BY <1>2
  <2>2. /\ PduShape(q) /\ ~q.mem /\ q.ack = TRUE /\ ~q.retransmit
        /\ q.retx = slots[c].retx /\ SamePayload(q, slots[c])
    BY <2>1, AckedShape
  <2> QED
    BY <2>2
<1> HIDE DEF q
<1> QED
  BY <1>1, <1>2, <1>3

LEMMA AckPduIs ==
  ASSUME TxInvariant, NEW c \in SN, c \in Outstanding, AckPdu(c)
  PROVE  LET k     == IF c = vt_a THEN Advance(AckSlots(c)) ELSE 0
             left  == [s \in SN |-> IF Dist(vt_a, s) < k THEN NoPdu ELSE AckSlots(c)[s]]
             first == IF first_retrans >= 0 /\ Dist(vt_a, first_retrans) < k
                      THEN Plus(vt_a, k) ELSE first_retrans
         IN  /\ slots' = left /\ vt_a' = Plus(vt_a, k)
             /\ c # first => first_retrans' = first
<1> DEFINE p     == slots[c]
           freed == ~p.ack /\ p.mem
           acked == [slots EXCEPT ![c] = [p EXCEPT !.mem = FALSE, !.ack = @ \/ freed,
                                                   !.retransmit = FALSE]]
<1>1. PduShape(p) /\ p.mem = ~p.ack
  BY FlagsOfSlot
<1>2. (p.ack \/ freed) = TRUE
  BY <1>1 DEF PduShape
<1>3. slots = [s \in SN |-> slots[s]]
  BY DEF TxInvariant, TxFields, SlotsShape
<1>4. acked = AckSlots(c)
  <2> DEFINE b == p.ack \/ freed
             q == [p EXCEPT !.mem = FALSE, !.ack = b, !.retransmit = FALSE]
  <2>1. acked = [slots EXCEPT ![c] = q]
    OBVIOUS
  <2>2. q = [p EXCEPT !.mem = FALSE, !.ack = TRUE, !.retransmit = FALSE]
    BY <1>2
  <2> HIDE DEF q
  <2>3. acked = [s \in SN |-> IF s = c THEN q ELSE slots[s]]
    BY <1>3, <2>1
  <2> QED
    BY <2>2, <2>3 DEF AckSlots
<1>5. acked[c].ack
  BY <1>4, AckSlotsShape
<1> QED
  <2> HIDE DEF acked
  <2> SUFFICES ASSUME NEW k, k = IF c = vt_a THEN Advance(acked) ELSE 0
               PROVE  LET left  == [s \in SN |-> IF Dist(vt_a, s) < k THEN NoPdu ELSE acked[s]]
                          first == IF first_retrans >= 0 /\ Dist(vt_a, first_retrans) < k
                                   THEN Plus(vt_a, k) ELSE first_retrans
                      IN  /\ slots' = left /\ vt_a' = Plus(vt_a, k)
                          /\ c # first => first_retrans' = first
    BY <1>4
  <2>1. k = IF c = vt_a /\ acked[c].ack THEN Advance(acked) ELSE 0
    BY <1>5
  <2> QED
    BY <2>1 DEF AckPdu, acked

\* The ACK of a PDU after VT(A): the one at VT(A) was NACKed before.
LEMMA AckInside ==
  ASSUME TxInvariant, NEW c \in SN, c \in Outstanding, c # vt_a, first_retrans = vt_a,
         AckPdu(c), vt_s' = vt_s
  PROVE  StepDone(c)
<1>1. vt_a \in SN /\ vt_s \in SN
  BY DEF TxInvariant, TxFields
<1>2. Plus(vt_a, 0) = vt_a /\ (\A s \in SN : ~(Dist(vt_a, s) < 0)) /\ vt_a >= 0
  <2>1. Plus(vt_a, 0) = vt_a /\ vt_a >= 0
    BY <1>1, PlusIs, TxSnFacts DEF SN
  <2>2. \A s \in SN : ~(Dist(vt_a, s) < 0)
    BY <1>1, DistIs, TxSnFacts
  <2> QED
    BY <2>1, <2>2
<1>3. slots' = [s \in SN |-> IF Dist(vt_a, s) < 0 THEN NoPdu ELSE AckSlots(c)[s]]
      /\ vt_a' = Plus(vt_a, 0) /\ first_retrans' = first_retrans
  BY <1>1, <1>2, AckPduIs
<1>4. slots' = [s \in SN |-> AckSlots(c)[s]] /\ vt_a' = vt_a /\ first_retrans' = vt_a
  BY <1>2, <1>3
<1>5. /\ \A s \in SN : PduShape(slots'[s])
      /\ ~slots'[c].mem /\ slots'[c].ack /\ ~slots'[c].retransmit
      /\ \A s \in SN : s # c => slots'[s] = slots[s]
  BY <1>4, AckSlotsShape
<1>6. SlotsShape'
  BY <1>4, <1>5 DEF SlotsShape
<1>7. Outstanding' = Outstanding
  BY <1>4 DEF Outstanding
<1>8. WindowHolds'
  <2>1. \A s \in SN : IF s \in Outstanding THEN slots'[s].mem = ~slots'[s].ack
                                           ELSE ~slots'[s].mem /\ ~slots'[s].ack
    <3> TAKE s \in SN
    <3>1. CASE s = c
      BY <3>1, <1>5, <1>6 DEF SlotsShape, PduShape
    <3>2. CASE s # c
      BY <3>2, <1>5, FlagsOfSlot
    <3> QED
      BY <3>1, <3>2
  <2>2. \A s \in SN : slots'[s].retransmit => slots'[s].mem
    BY <1>5, FlagsOfSlot
  <2>3. slots'[vt_a].mem
    <3>1. vt_a # vt_s => slots[vt_a].mem
      BY DEF TxInvariant, WindowHolds
    <3>2. vt_a # vt_s
      <4>1. Dist(vt_a, c) < Dist(vt_a, vt_s) /\ Dist(vt_a, c) \in Nat
        BY <1>1, OutstandingIs, DistIs, TxSnFacts
      <4>2. Dist(vt_a, vt_a) = 0
        BY <1>1, DistIs
      <4> QED
        BY <4>1, <4>2
    <3> QED
      BY <3>1, <3>2, <1>1, <1>5
  <2>4. Dist(vt_a, vt_s) <= WindowSize
    BY DEF TxInvariant, WindowHolds
  <2> QED
    BY <2>1, <2>2, <2>3, <2>4, <1>4, <1>7 DEF WindowHolds
<1>9. RetransmissionFound'
  <2>1. vt_a \in Outstanding' \/ vt_a = vt_s
    BY <1>7, OutstandingIs
  <2>2. vt_a = vt_s \/ slots'[vt_a].mem
    BY <1>4, <1>8 DEF WindowHolds
  <2> QED
    BY <2>1, <2>2, <1>4 DEF RetransmissionFound, Held
<1> QED
  BY <1>1, <1>4, <1>6, <1>8, <1>9 DEF StepDone

\* The ACK of the PDU at VT(A), which moves.
LEMMA AckAtVtA ==
  ASSUME TxInvariant, vt_a \in Outstanding, AckPdu(vt_a), vt_s' = vt_s
  PROVE  StepDone(vt_a)
<1> DEFINE D == Dist(vt_a, vt_s)
           A == AckSlots(vt_a)
           k == Advance(A)
           b == Plus(vt_a, k)
<1>1. vt_a \in SN /\ vt_s \in SN /\ first_retrans \in SN \cup {-1} /\ vt_a # vt_s
  BY OutstandingIs DEF TxInvariant, TxFields
<1>2. k \in 1 .. D /\ (b = vt_s \/ ~A[b].ack)
  BY <1>1, AdvanceIs
<1>3. D \in Nat /\ D <= WindowSize /\ D < SnModulo
  BY OutstandingIs, TxSnFacts
<1>4. k \in 1 .. SnModulo - 1
  BY <1>2, <1>3, TxSnFacts
<1>5. /\ slots' = [s \in SN |-> IF Dist(vt_a, s) < k THEN NoPdu ELSE A[s]]
      /\ vt_a' = b
      /\ LET first == IF first_retrans >= 0 /\ Dist(vt_a, first_retrans) < k
                      THEN b ELSE first_retrans
         IN  vt_a # first => first_retrans' = first
  BY <1>1, AckPduIs
<1>6. /\ \A s \in SN : PduShape(A[s])
      /\ \A s \in SN : s # vt_a => A[s] = slots[s]
  BY <1>1, AckSlotsShape
<1> HIDE DEF A, k
<1>7. b \in SN /\ Dist(vt_a, b) = k /\ Dist(vt_a, vt_a) = 0 /\ b # vt_a
  <2>1. b \in SN
    BY <1>1, <1>4, PlusIs, TxSnFacts
  <2>2. Dist(vt_a, b) = k
    BY <1>1, <1>4, PlusDist, TxSnFacts
  <2>3. Dist(vt_a, vt_a) = 0
    BY <1>1, DistIs
  <2> QED
    BY <2>1, <2>2, <2>3, <1>4
<1>8. \A s \in SN : /\ Dist(vt_a, s) \in 0 .. SnModulo - 1
                    /\ Dist(b, s) = IF k <= Dist(vt_a, s) THEN Dist(vt_a, s) - k
                                    ELSE Dist(vt_a, s) - k + SnModulo
  BY <1>1, <1>4, DistIs, DistMoved, TxSnFacts
<1>9. Dist(b, vt_s) = D - k
  BY <1>1, <1>2, <1>3, <1>8
<1> HIDE DEF b, D
<1>10. \A s \in SN : s \in Outstanding' <=> Dist(vt_a, s) < D /\ k <= Dist(vt_a, s)
  <2> TAKE s \in SN
  <2>1. s \in Outstanding' <=> Dist(b, s) < D - k
    BY <1>5, <1>9 DEF Outstanding
  <2>2. /\ Dist(vt_a, s) \in 0 .. SnModulo - 1
        /\ Dist(b, s) = IF k <= Dist(vt_a, s) THEN Dist(vt_a, s) - k
                        ELSE Dist(vt_a, s) - k + SnModulo
    BY <1>8
  <2> QED
    BY <2>1, <2>2, <1>2, <1>3, <1>4, TxSnFacts
<1>11. \A s \in SN : s \in Outstanding <=> Dist(vt_a, s) < D
  BY OutstandingIs DEF D
<1>12. PduShape(NoPdu) /\ ~NoPdu.mem /\ ~NoPdu.ack /\ ~NoPdu.retransmit
  BY DEF NoPdu, PduShape
<1>13. \A s \in SN : slots'[s] = IF Dist(vt_a, s) < k THEN NoPdu ELSE slots[s]
  <2> TAKE s \in SN
  <2>1. slots'[s] = IF Dist(vt_a, s) < k THEN NoPdu ELSE A[s]
    BY <1>5
  <2>2. s = vt_a => Dist(vt_a, s) < k
    BY <1>4, <1>7
  <2> QED
    BY <2>1, <2>2, <1>6
<1>14. SlotsShape'
  BY <1>5, <1>12, <1>13, FlagsOfSlot DEF SlotsShape
<1>15. ~(Dist(vt_a, b) < k) /\ A[b] = slots[b] /\ slots'[b] = slots[b]
  BY <1>4, <1>6, <1>7, <1>13
<1>16. b # vt_s => b \in Outstanding' /\ slots'[b].mem
  <2> SUFFICES ASSUME b # vt_s PROVE b \in Outstanding' /\ slots'[b].mem
    OBVIOUS
  <2>1. k # D
    BY <1>1, <1>7, PlusDist DEF D
  <2>2. b \in Outstanding /\ b \in Outstanding'
    BY <2>1, <1>2, <1>3, <1>7, <1>10, <1>11
  <2>3. ~slots[b].ack
    BY <1>2, <1>15
  <2> QED
    BY <2>2, <2>3, <1>7, <1>15, FlagsOfSlot
<1>17. WindowHolds'
  <2>1. Dist(b, vt_s) <= WindowSize
    BY <1>2, <1>3, <1>9, TxSnFacts
  <2>2. \A s \in SN : IF s \in Outstanding' THEN slots'[s].mem = ~slots'[s].ack
                                            ELSE ~slots'[s].mem /\ ~slots'[s].ack
    <3> TAKE s \in SN
    <3>1. CASE Dist(vt_a, s) < k
      <4>1. s \notin Outstanding'
        BY <3>1, <1>4, <1>8, <1>10
      <4> QED
        BY <4>1, <3>1, <1>12, <1>13
    <3>2. CASE ~(Dist(vt_a, s) < k)
      <4>1. s \in Outstanding' <=> s \in Outstanding
        BY <3>2, <1>4, <1>8, <1>10, <1>11
      <4> QED
        BY <4>1, <3>2, <1>13, FlagsOfSlot
    <3> QED
      BY <3>1, <3>2
  <2>3. \A s \in SN : slots'[s].retransmit => slots'[s].mem
    BY <1>12, <1>13, FlagsOfSlot
  <2> QED
    BY <2>1, <2>2, <2>3, <1>5, <1>16 DEF WindowHolds
<1>18. first_retrans' \in SN \cup {-1} /\ RetransmissionFound'
  <2>1. CASE first_retrans >= 0 /\ Dist(vt_a, first_retrans) < k
    <3>1. first_retrans' = b
      BY <2>1, <1>5, <1>7
    <3> QED
      BY <3>1, <1>7, <1>16 DEF RetransmissionFound, Held
  <2>2. CASE ~(first_retrans >= 0 /\ Dist(vt_a, first_retrans) < k)
    <3>1. vt_a # first_retrans
      BY <2>2, <1>1, <1>4, <1>7, TxSnFacts
    <3>2. first_retrans' = first_retrans
      BY <2>2, <3>1, <1>5
    <3>3. first_retrans \in {-1, vt_s} \cup Held
      BY DEF TxInvariant, RetransmissionFound
    <3>4. first_retrans \in Held => first_retrans \in Held'
      <4> SUFFICES ASSUME first_retrans \in Held PROVE first_retrans \in Held'
        OBVIOUS
      <4>1. first_retrans \in SN /\ first_retrans \in Outstanding /\ slots[first_retrans].mem
        BY OutstandingIs DEF Held
      <4>2. ~(Dist(vt_a, first_retrans) < k)
        BY <2>2, <4>1, TxSnFacts
      <4>3. first_retrans \in Outstanding'
        BY <4>1, <4>2, <1>4, <1>8, <1>10, <1>11
      <4> QED
        BY <4>1, <4>2, <4>3, <1>13 DEF Held
    <3> QED
      BY <1>1, <3>2, <3>3, <3>4 DEF RetransmissionFound
  <2> QED
    BY <2>1, <2>2
<1>19. \A d \in {vt_a, Plus(vt_a, 1)} : d \in Outstanding' => d = b
  <2>1. vt_a \notin Outstanding'
    BY <1>1, <1>4, <1>7, <1>10
  <2>2. Plus(vt_a, 1) \in SN /\ Dist(vt_a, Plus(vt_a, 1)) = 1
    BY <1>1, PlusIs, PlusDist, TxSnFacts
  <2>3. Plus(vt_a, 1) \in Outstanding' => k = 1
    BY <2>2, <1>4, <1>10
  <2> QED
    BY <2>1, <2>3 DEF b
<1> QED
  BY <1>5, <1>7, <1>14, <1>17, <1>18, <1>19 DEF StepDone

LEMMA StatusStepStep ==
  ASSUME TxInvariant, StatusStep
  PROVE  TxInvariant'
<1> DEFINE c == ctrl.cursor
<1>1. /\ ctrl.on /\ c \in SN /\ vt_s \in SN /\ vt_s' = vt_s /\ ctrl' = NextCtrl
      /\ c \in Outstanding /\ c # vt_a => first_retrans = vt_a
  BY DEF TxInvariant, TxFields, CursorPassed, StatusStep
<1>2. StepDone(c)
  <2>1. CASE AtNack
    <3>1. PICK first, start, stop : NackPdu(c, first, start, stop)
      BY <2>1 DEF StatusStep, AtNack
    <3> QED
      BY <3>1, <1>1, NackPduStep
  <2>2. CASE ~AtNack
    <3>1. AckPdu(c)
      BY <2>2 DEF StatusStep
    <3>2. CASE c \notin Outstanding
      BY <3>1, <3>2, <1>1, AckOutside
    <3>3. CASE c \in Outstanding /\ c = vt_a
      BY <3>1, <3>3, <1>1, AckAtVtA
    <3>4. CASE c \in Outstanding /\ c # vt_a
      BY <3>1, <3>4, <1>1, AckInside
    <3> QED
      BY <3>2, <3>3, <3>4
  <2> QED
    BY <2>1, <2>2
<1>3. /\ ctrl' = [on |-> ctrl'.on, ack |-> ctrl'.ack, nacks |-> ctrl'.nacks, i |-> ctrl'.i,
                  cursor |-> ctrl'.cursor]
      /\ ctrl'.on \in BOOLEAN
      /\ ctrl'.on => ctrl'.cursor \in {c, Plus(c, 1)}
  <2>1. ctrl = [on |-> ctrl.on, ack |-> ctrl.ack, nacks |-> ctrl.nacks, i |-> ctrl.i,
                cursor |-> ctrl.cursor] /\ ctrl.on \in BOOLEAN
    BY DEF TxInvariant, TxFields
  <2>2. PICK i, d : /\ d \in {c, Plus(c, 1)}
                    /\ ctrl' = Idle \/ ctrl' = [ctrl EXCEPT !.i = i, !.cursor = d]
    BY <1>1 DEF NextCtrl
  <2>3. CASE ctrl' = Idle
    BY <2>3 DEF Idle
  <2>4. CASE ctrl' = [ctrl EXCEPT !.i = i, !.cursor = d]
    BY <2>1, <2>2, <2>4
  <2> QED
    BY <2>2, <2>3, <2>4
<1>4. Plus(c, 1) \in SN
  BY <1>1, DistNext
<1> QED
  BY <1>1, <1>2, <1>3, <1>4 DEF StepDone, TxInvariant, TxFields, CursorPassed
-----------------------------------------------------------------------------
(* The window and the retransmissions are right.                            *)

LEMMA TxInvariantInit == TxInit => TxInvariant
<1> SUFFICES ASSUME TxInit PROVE TxInvariant
  OBVIOUS
<1>1. /\ vt_a = 0 /\ vt_s = 0 /\ slots = [sn \in SN |-> NoPdu] /\ first_retrans = -1
      /\ ctrl = Idle
  BY DEF TxInit
<1>2. 0 \in SN /\ Dist(0, 0) = 0 /\ Outstanding = {}
  <2>1. 0 \in SN /\ Dist(0, 0) = 0
    BY TxSnFacts, DistIs
  <2>2. \A sn \in SN : ~(Dist(0, sn) < 0)
    BY <2>1, DistIs, TxSnFacts
  <2> QED
    BY <1>1, <2>1, <2>2 DEF Outstanding
<1>3. PduShape(NoPdu) /\ ~NoPdu.mem /\ ~NoPdu.ack /\ ~NoPdu.retransmit
  BY DEF NoPdu, PduShape
<1>4. SlotsShape
  BY <1>1, <1>3 DEF SlotsShape
<1>5. TxFields /\ CursorPassed
  BY <1>1, <1>2, <1>4 DEF TxFields, CursorPassed, Idle
<1>6. WindowHolds
  BY <1>1, <1>2, <1>3, TxSnFacts DEF WindowHolds
<1> QED
  BY <1>1, <1>5, <1>6 DEF TxInvariant, RetransmissionFound

LEMMA TxInvariantStep == TxInvariant /\ [TxNext]_tx_vars => TxInvariant'
<1> SUFFICES ASSUME TxInvariant, [TxNext]_tx_vars PROVE TxInvariant'
  OBVIOUS
<1>1. ASSUME NEW size \in SduSizes, DataReq(size) PROVE TxInvariant'
  BY <1>1, QuietStep DEF DataReq, retrans_vars
<1>2. CASE DataReqDropped
  BY <1>2, QuietStep DEF DataReqDropped, retrans_vars
<1>3. CASE PollTimeOut
  BY <1>3, QuietStep DEF PollTimeOut, retrans_vars
<1>4. ASSUME NEW g \in Grants, GetPdus(g) PROVE TxInvariant'
  BY <1>4, GetPdusStep
<1>5. CASE AnyStatus
  BY <1>5, ReceiveStatusStep DEF AnyStatus
<1>6. CASE StatusStep
  BY <1>6, StatusStepStep
<1>7. CASE TakePdu
  BY <1>7, QuietStep DEF TakePdu, retrans_vars
<1>8. CASE UNCHANGED tx_vars
  BY <1>8, QuietStep DEF tx_vars
<1> QED
  BY <1>1, <1>2, <1>3, <1>4, <1>5, <1>6, <1>7, <1>8 DEF TxNext

LEMMA LinkInvariantStep == TxInvariant /\ [LinkNext]_link_vars => TxInvariant'
<1> SUFFICES ASSUME TxInvariant, [LinkNext]_link_vars PROVE TxInvariant'
  OBVIOUS
<1>1. ASSUME NEW size \in SduSizes, DataReq(size) PROVE TxInvariant'
  BY <1>1, QuietStep DEF DataReq, retrans_vars
<1>2. CASE DataReqDropped
  BY <1>2, QuietStep DEF DataReqDropped, retrans_vars
<1>3. CASE PollTimeOut
  BY <1>3, QuietStep DEF PollTimeOut, retrans_vars
<1>4. ASSUME NEW g \in Grants, GetPdus(g) PROVE TxInvariant'
  BY <1>4, GetPdusStep
<1>5. CASE DeliverReport
  BY <1>5, ReceiveStatusStep DEF DeliverReport
<1>6. CASE StatusStep
  BY <1>6, StatusStepStep
<1>7. CASE TakePdu
  BY <1>7, QuietStep DEF TakePdu, retrans_vars
<1>8. CASE UNCHANGED tx_vars
  BY <1>8, QuietStep DEF tx_vars
<1>9. \/ \E size \in SduSizes : DataReq(size)
      \/ DataReqDropped \/ PollTimeOut \/ \E g \in Grants : GetPdus(g)
      \/ DeliverReport \/ StatusStep \/ TakePdu \/ UNCHANGED tx_vars
  BY DEF LinkNext, Submit, TimeOut, Request, Lose, Arrive, Report, LoseReport, Process, link_vars
<1> QED
  BY <1>1, <1>2, <1>3, <1>4, <1>5, <1>6, <1>7, <1>8, <1>9

LEMMA TxInvariantHolds == TxSpec => []TxInvariant
BY TxInvariantInit, TxInvariantStep, PTL DEF TxSpec

LEMMA LinkInvariantHolds == LinkSpec => []TxInvariant
<1>1. LinkInit => TxInvariant
  BY TxInvariantInit DEF LinkInit
<1> QED
  BY <1>1, LinkInvariantStep, PTL DEF LinkSpec

\* Whatever status reports arrive (rlc_am_receive_process_control_pdu), the buffer of
\* PDUs holds exactly what VT(A), VT(S) and the ACKs say, and never more than a window.
THEOREM WindowSafe == TxSpec => []WindowHolds
<1>1. TxInvariant => WindowHolds
  BY DEF TxInvariant
<1> QED
  BY <1>1, TxInvariantHolds, PTL

\* Whatever status reports arrive, the PDU that rlc_am_get_pdus means to repeat is held:
\* the assertion of rlc_am_retransmit_get_subsegment never fails.
THEOREM RetransmissionSafe == TxSpec => []RetransmissionFound
<1>1. TxInvariant => RetransmissionFound
  BY DEF TxInvariant
<1> QED
  BY <1>1, TxInvariantHolds, PTL

\* The same with a peer and a link, for any number of reports on their way, in any order.
THEOREM LinkWindowSafe == LinkSpec => []WindowHolds
<1>1. TxInvariant => WindowHolds
  BY DEF TxInvariant
<1> QED
  BY <1>1, LinkInvariantHolds, PTL

\* The same with a peer and a link: rlc_am_get_pdus finds the PDU it repeats.
THEOREM LinkRetransmissionSafe == LinkSpec => []RetransmissionFound
<1>1. TxInvariant => RetransmissionFound
  BY DEF TxInvariant
<1> QED
  BY <1>1, LinkInvariantHolds, PTL

-----------------------------------------------------------------------------
(* The ring of SDUs.                                                        *)

Ring == 0 .. NbSdus - 1

\* A descriptor of input_sdus: memory is held for what remains to be sent.
SduShape(d) ==
  /\ d = [mem |-> d.mem, remaining |-> d.remaining, nb_pdus |-> d.nb_pdus,
          nb_ack |-> d.nb_ack, done |-> d.done, mui |-> d.mui]
  /\ d.mem \in BOOLEAN /\ d.done \in BOOLEAN /\ d.remaining \in Nat
  /\ d.nb_pdus \in Nat /\ d.nb_ack \in Nat /\ d.mui \in Nat
  /\ d.mem <=> d.remaining > 0

SduFields ==
  /\ sdus = [i \in Ring |-> sdus[i]] /\ \A i \in Ring : SduShape(sdus[i])
  /\ current_sdu \in Ring /\ next_sdu \in Ring /\ occupancy \in Int
  /\ IsSeq(conf)

LEMMA RingFacts ==
  NbSdus \in Nat /\ NbSdus > 0 /\ Ring \subseteq Nat /\ 0 \in Ring /\ IsFiniteSet(Ring)
<1>1. NbSdus \in Nat /\ NbSdus > 0
  BY TxSizeAssumption
<1>2. IsFiniteSet(0 .. NbSdus - 1)
  <2>1. NbSdus - 1 \in Int
    BY <1>1
  <2> QED
    BY <2>1, FS_Interval
<1> QED
  BY <1>1, <1>2 DEF Ring

LEMMA NextSduIs ==
  \A i, k \in Ring : /\ NextSdu(i, k) = IF i + k < NbSdus THEN i + k ELSE i + k - NbSdus
                     /\ NextSdu(i, k) \in Ring
BY RingFacts DEF NextSdu, Ring

LEMMA NextSduIn == \A i, k \in Nat : NextSdu(i, k) \in Ring
BY RingFacts DEF NextSdu, Ring

\* The place of a descriptor, counted from c.
PlaceOf(c, i) == (i - c) % NbSdus
LEMMA PlaceIs ==
  \A c, i \in Ring : /\ PlaceOf(c, i) = IF c <= i THEN i - c ELSE i - c + NbSdus
                     /\ PlaceOf(c, i) \in Ring
BY RingFacts DEF PlaceOf, Ring

LEMMA PlaceNext ==
  ASSUME NEW c \in Ring, NEW i \in Ring
  PROVE  NextSdu(c, PlaceOf(c, i)) = i /\ PlaceOf(c, NextSdu(c, i)) = i
<1>1. PICK j \in Ring : j = PlaceOf(c, i) /\ j = IF c <= i THEN i - c ELSE i - c + NbSdus
  BY PlaceIs
<1>2. NextSdu(c, j) = IF c + j < NbSdus THEN c + j ELSE c + j - NbSdus
  BY NextSduIs
<1>3. PICK k \in Ring : k = NextSdu(c, i) /\ k = IF c + i < NbSdus THEN c + i ELSE c + i - NbSdus
  BY NextSduIs
<1>4. PlaceOf(c, k) = IF c <= k THEN k - c ELSE k - c + NbSdus
  BY PlaceIs
<1>5. c \in 0 .. NbSdus - 1 /\ i \in 0 .. NbSdus - 1 /\ NbSdus \in Nat
  BY RingFacts DEF Ring
<1>6. NextSdu(c, j) = i
  BY <1>1, <1>2, <1>5
<1>7. PlaceOf(c, k) = i
  BY <1>3, <1>4, <1>5
<1> QED
  BY <1>1, <1>3, <1>6, <1>7

LEMMA NoSduShape ==
  /\ SduShape(NoSdu) /\ SduShape([NoSdu EXCEPT !.done = TRUE])
  /\ NoSdu.remaining = 0 /\ [NoSdu EXCEPT !.done = TRUE].remaining = 0
  /\ NoSdu.mui = 0 /\ [NoSdu EXCEPT !.done = TRUE].mui = 0
<1>1. ASSUME NEW b \in BOOLEAN, NEW d,
             d = [mem |-> FALSE, remaining |-> 0, nb_pdus |-> 0, nb_ack |-> 0, done |-> b,
                  mui |-> 0]
      PROVE  SduShape(d) /\ d.remaining = 0 /\ d.mui = 0
  BY <1>1 DEF SduShape
<1>2. PICK d : d = NoSdu
  OBVIOUS
<1>3. SduShape(d) /\ d.remaining = 0 /\ d.mui = 0
  BY <1>1, <1>2 DEF NoSdu
<1>4. PICK e : e = [NoSdu EXCEPT !.done = TRUE]
  OBVIOUS
<1>5. e = [mem |-> FALSE, remaining |-> 0, nb_pdus |-> 0, nb_ack |-> 0, done |-> TRUE,
           mui |-> 0]
  BY <1>4 DEF NoSdu
<1>6. SduShape(e) /\ e.remaining = 0 /\ e.mui = 0
  BY <1>1, <1>5
<1> QED
  BY <1>2, <1>3, <1>4, <1>6

\* rlc_am_free_in_sdu and the count of acknowledged PDUs.
SdusLeft(s, how) ==
  [i \in Ring |-> IF i \in Finished(s, how) THEN [NoSdu EXCEPT !.done = TRUE]
                  ELSE CountedSdus(s)[i]]

LEMMA CountedIs ==
  ASSUME SduFields, NEW s, NEW i \in Ring
  PROVE  /\ SduShape(CountedSdus(s)[i])
         /\ CountedSdus(s)[i].remaining = sdus[i].remaining
         /\ CountedSdus(s)[i].mem = sdus[i].mem
         /\ CountedSdus(s)[i].mui = sdus[i].mui
         /\ CountedSdus(s)[i].nb_pdus = sdus[i].nb_pdus
         /\ CountedSdus(s)[i].nb_ack = IF i \in s THEN sdus[i].nb_ack + 1 ELSE sdus[i].nb_ack
<1>1. DOMAIN sdus = Ring /\ SduShape(sdus[i])
  BY DEF SduFields
<1>2. CountedSdus(s)[i] = IF i \in s THEN [sdus[i] EXCEPT !.nb_ack = @ + 1] ELSE sdus[i]
  BY <1>1 DEF CountedSdus
<1>3. PICK d, c : d = sdus[i] /\ c = CountedSdus(s)[i]
  OBVIOUS
<1>4. CASE i \in s
  <2>1. PICK n \in Nat : n = d.nb_ack + 1
    BY <1>1, <1>3 DEF SduShape
  <2>2. c = [d EXCEPT !.nb_ack = n]
    BY <1>2, <1>3, <1>4, <2>1
  <2>3. /\ SduShape(c) /\ c.remaining = d.remaining /\ c.mem = d.mem /\ c.mui = d.mui
        /\ c.nb_pdus = d.nb_pdus /\ c.nb_ack = n
    BY <1>1, <1>3, <2>2 DEF SduShape
  <2> QED
    BY <1>3, <1>4, <2>1, <2>3
<1>5. CASE i \notin s
  BY <1>1, <1>2, <1>5
<1> QED
  BY <1>4, <1>5

LEMMA SdusDoneFields ==
  ASSUME SduFields, NEW s, NEW how, SdusDone(s, how)
  PROVE  /\ SduFields' /\ UNCHANGED <<next_sdu, occupancy>>
         /\ sdus' = SdusLeft(s, how)
         /\ Len(conf') = Len(conf)
<1>1. /\ DOMAIN sdus = Ring /\ current_sdu \in Ring /\ next_sdu \in Ring
      /\ Len(conf) \in Nat /\ DOMAIN conf = 1 .. Len(conf)
  BY SeqOfElements DEF SduFields, IsSeq
<1>2. sdus' = SdusLeft(s, how) /\ UNCHANGED <<next_sdu, occupancy>>
  BY <1>1 DEF SdusDone, SdusLeft
<1>3. \A i \in Ring : SduShape(sdus'[i])
  BY <1>2, CountedIs, NoSduShape DEF SdusLeft
<1>4. sdus' = [i \in Ring |-> sdus'[i]]
  BY <1>2 DEF SdusLeft
<1>5. Len(conf') = Len(conf) /\ IsSeq(conf')
  <2>1. conf' = [m \in DOMAIN conf |-> conf'[m]]
    BY DEF SdusDone
  <2> QED
    BY <1>1, <2>1, FunctionIsSeq
<1>6. current_sdu' \in Ring
  <2> DEFINE f == Finished(s, how)
             from == IF current_sdu \in f THEN NextSdu(current_sdu, 1) ELSE current_sdu
             K == {k \in 0 .. NbSdus - 1 : \/ NextSdu(from, k) = next_sdu
                                           \/ ~sdus'[NextSdu(from, k)].done}
  <2>1. current_sdu' = IF f = {} THEN current_sdu ELSE NextSdu(from, Min(K))
    BY <1>2 DEF SdusDone
  <2> HIDE DEF f
  <2>2. from \in Ring
    BY <1>1, NextSduIn, RingFacts
  <2> HIDE DEF from
  <2>3. PlaceOf(from, next_sdu) \in K
    BY <1>1, <2>2, PlaceIs, PlaceNext DEF Ring
  <2>4. K \subseteq Int /\ \A k \in K : 0 <= k
    BY RingFacts
  <2>5. Min(K) \in K
    BY <2>3, <2>4, MinIsLeast
  <2>6. NextSdu(from, Min(K)) \in Ring
    BY <2>2, <2>5, NextSduIs DEF Ring
  <2> QED
    BY <1>1, <2>1, <2>6
<1>7. next_sdu' \in Ring /\ occupancy' \in Int
  BY <1>2 DEF SduFields
<1>8. SduFields'
  BY <1>1, <1>3, <1>4, <1>5, <1>6, <1>7 DEF SduFields
<1> QED
  BY <1>2, <1>5, <1>8

-----------------------------------------------------------------------------
(* What rlc_am_segment_10 takes of the SDUs.                                *)

Rest == [j \in Ring |-> sdus[NextSdu(current_sdu, j)].remaining]

NewCap(g) == Min({g - HeaderSize, occupancy})
NewPart(g) == {j \in 0 .. Queued - 1 : Taken(NewCap(g), j) > 0}
NewSize(g) == MapThenSumSet(LAMBDA j : Taken(NewCap(g), j), NewPart(g))
TakenOf(g) == [j \in Ring |-> IF j \in NewPart(g) THEN Taken(NewCap(g), j) ELSE 0]

LEMMA RestIs ==
  ASSUME SduFields
  PROVE  /\ \A j \in Ring : Rest[j] \in Nat /\ Rest[j] = sdus[NextSdu(current_sdu, j)].remaining
         /\ \A j \in Ring : sdus[NextSdu(current_sdu, j)].mem <=> Rest[j] > 0
         /\ \A i \in Ring : Rest[PlaceOf(current_sdu, i)] = sdus[i].remaining
<1>1. current_sdu \in Ring /\ \A i \in Ring : SduShape(sdus[i])
  BY DEF SduFields
<1>2. \A j \in Ring : NextSdu(current_sdu, j) \in Ring
  BY <1>1, NextSduIs
<1>3. \A i \in Ring : /\ PlaceOf(current_sdu, i) \in Ring
                      /\ NextSdu(current_sdu, PlaceOf(current_sdu, i)) = i
  BY <1>1, PlaceIs, PlaceNext
<1> QED
  BY <1>1, <1>2, <1>3 DEF Rest, SduShape

LEMMA BeforeIs ==
  ASSUME SduFields, NEW j \in Ring
  PROVE  Before(j) \in Nat /\ (j = 0 => Before(j) = 0)
<1> DEFINE S == 0 .. j - 1
<1>1. S \subseteq Ring /\ IsFiniteSet(S) /\ (j = 0 => S = {})
  <2>1. j \in Nat /\ j <= NbSdus - 1
    BY RingFacts DEF Ring
  <2>2. S \subseteq Ring
    BY <2>1, RingFacts DEF Ring
  <2>3. j = 0 => S = {}
    OBVIOUS
  <2> QED
    BY <2>2, <2>3, RingFacts, FS_Subset
<1>2. SumsAs(LAMBDA l : sdus[NextSdu(current_sdu, l)].remaining, Rest, S)
  BY <1>1, SumIsTotal
<1>3. Before(j) = Total(Rest, S)
  BY <1>1, <1>2, RestIs DEF SumsAs, Before
<1>4. Total(Rest, S) \in Nat
  <2>1. \A l \in S : Rest[l] \in Nat
    BY <1>1, RestIs
  <2> HIDE DEF S
  <2> QED
    BY <1>1, <2>1, TotalNat
<1>5. j = 0 => Total(Rest, S) = 0
  BY <1>1, TotalEmpty
<1> QED
  BY <1>3, <1>4, <1>5

LEMMA TakenIs ==
  ASSUME SduFields, NEW cap \in Int, NEW j \in Ring
  PROVE  /\ Taken(cap, j) \in Nat /\ Taken(cap, j) <= Rest[j]
         /\ j = 0 /\ cap > 0 /\ Rest[0] > 0 => Taken(cap, j) > 0
<1>1. PICK rest \in Int : rest = cap - Before(j) /\ (j = 0 => rest = cap)
  BY BeforeIs
<1>2. PICK r \in Nat : r = Rest[j] /\ r = sdus[NextSdu(current_sdu, j)].remaining
  BY RestIs
<1>3. Taken(cap, j) = IF rest <= 0 THEN 0 ELSE Min({rest, r})
  BY <1>1, <1>2 DEF Taken
<1>4. PICK m : m = Min({rest, r}) /\ m \in {rest, r} /\ m <= rest /\ m <= r
  BY MinOfTwo
<1>5. PICK t : t = Taken(cap, j) /\ t = IF rest <= 0 THEN 0 ELSE m
  BY <1>3, <1>4
<1>6. t \in Nat /\ t <= r /\ (j = 0 /\ cap > 0 /\ r > 0 => t > 0)
  BY <1>1, <1>4, <1>5
<1> QED
  BY <1>2, <1>5, <1>6

LEMMA QueuedIs ==
  ASSUME SduFields
  PROVE  /\ Queued \in 0 .. NbSdus
         /\ \A j \in 0 .. Queued - 1 : sdus[NextSdu(current_sdu, j)].mem
         /\ sdus[current_sdu].mem => Queued > 0
<1> DEFINE K == {k \in 0 .. NbSdus : \A j \in 0 .. k - 1 : sdus[NextSdu(current_sdu, j)].mem}
<1>1. NbSdus \in Nat /\ NbSdus > 0
  BY RingFacts
<1>2. K \subseteq Int /\ 0 \in K /\ \A k \in K : k <= NbSdus
  BY <1>1
<1>3. Max(K) \in K /\ \A k \in K : k <= Max(K)
  <2>1. K # {} /\ NbSdus \in Int
    BY <1>1, <1>2
  <2> HIDE DEF K
  <2> QED
    BY <1>2, <2>1, MaxIsGreatest
<1>4. sdus[current_sdu].mem => 1 \in K
  <2> SUFFICES ASSUME sdus[current_sdu].mem PROVE 1 \in K
    OBVIOUS
  <2>1. NextSdu(current_sdu, 0) = current_sdu
    BY NextSduIs, RingFacts DEF SduFields, Ring
  <2>2. \A j \in 0 .. 1 - 1 : j = 0
    OBVIOUS
  <2> QED
    BY <1>1, <2>1, <2>2
<1>5. Queued = Max(K)
  BY DEF Queued
<1>6. PICK q \in K : q = Queued /\ \A k \in K : k <= q
  BY <1>3, <1>5
<1>7. q \in 0 .. NbSdus /\ \A j \in 0 .. q - 1 : sdus[NextSdu(current_sdu, j)].mem
  BY <1>6
<1>8. sdus[current_sdu].mem => q > 0
  <2> HIDE DEF K
  <2> QED
    BY <1>4, <1>6, <1>7
<1> QED
  BY <1>6, <1>7, <1>8

\* A grant above the header and an SDU to send: the PDU is not empty.
LEMMA NewSizeIs ==
  ASSUME SduFields, NEW g \in Grants
  PROVE  /\ NewPart(g) \subseteq Ring
         /\ \A j \in Ring : TakenOf(g)[j] \in Nat /\ TakenOf(g)[j] <= Rest[j]
         /\ \A j \in NewPart(g) : TakenOf(g)[j] = Taken(NewCap(g), j) /\ TakenOf(g)[j] > 0
         /\ NewSize(g) = Total(TakenOf(g), Ring) /\ NewSize(g) \in Nat
         /\ g > HeaderSize /\ HasNewPdu => NewSize(g) > 0
<1>1. g \in Nat /\ HeaderSize \in Nat /\ occupancy \in Int
  BY TxSizeAssumption DEF SduFields
<1>2. PICK cap \in Int : cap = NewCap(g) /\ (g > HeaderSize /\ occupancy > 0 => cap > 0)
  <2>1. PICK b \in Int : b = g - HeaderSize /\ (g > HeaderSize => b > 0)
    BY <1>1
  <2>2. Min({b, occupancy}) \in {b, occupancy}
    BY <1>1, <2>1, MinOfTwo
  <2> QED
    BY <1>1, <2>1, <2>2 DEF NewCap
<1>3. /\ NewPart(g) = {j \in 0 .. Queued - 1 : Taken(cap, j) > 0}
      /\ NewSize(g) = MapThenSumSet(LAMBDA j : Taken(cap, j), NewPart(g))
      /\ TakenOf(g) = [j \in Ring |-> IF j \in NewPart(g) THEN Taken(cap, j) ELSE 0]
  BY <1>2 DEF NewPart, NewSize, TakenOf
<1>4. NewPart(g) \subseteq Ring
  BY <1>3, QueuedIs, RingFacts DEF Ring
<1>5. \A j \in Ring : Taken(cap, j) \in Nat /\ Taken(cap, j) <= Rest[j] /\ Rest[j] \in Nat
  BY TakenIs, RestIs
<1>6. \A j \in Ring : TakenOf(g)[j] \in Nat /\ TakenOf(g)[j] <= Rest[j]
  BY <1>3, <1>5
<1>7. \A j \in NewPart(g) : TakenOf(g)[j] = Taken(cap, j) /\ TakenOf(g)[j] > 0
  BY <1>3, <1>4
<1>8. IsFiniteSet(Ring) /\ IsFiniteSet(NewPart(g))
  BY <1>4, RingFacts, FS_Subset
<1>9. SumsAs(LAMBDA j : Taken(cap, j), TakenOf(g), NewPart(g))
  BY <1>8, SumIsTotal
<1>10. NewSize(g) = Total(TakenOf(g), NewPart(g))
  BY <1>3, <1>7, <1>9 DEF SumsAs
<1>11. Total(TakenOf(g), Ring) = Total(TakenOf(g), NewPart(g))
  <2>1. \A j \in Ring \ NewPart(g) : TakenOf(g)[j] = 0
    BY <1>3
  <2>2. \A j \in Ring : TakenOf(g)[j] \in Int
    BY <1>6
  <2> QED
    BY <1>4, <1>8, <2>1, <2>2, TotalZeros
<1>12. Total(TakenOf(g), Ring) \in Nat /\ \A j \in Ring : TakenOf(g)[j] <= Total(TakenOf(g), Ring)
  BY <1>6, <1>8, TotalNat
<1>13. ASSUME g > HeaderSize, HasNewPdu PROVE NewSize(g) > 0
  <2>1. cap > 0 /\ sdus[current_sdu].mem
    BY <1>2, <1>13 DEF HasNewPdu
  <2>2. 0 \in Ring /\ 0 \in 0 .. Queued - 1
    BY <2>1, QueuedIs, RingFacts
  <2>3. Rest[0] > 0
    BY <2>2, QueuedIs, RestIs
  <2>4. Taken(cap, 0) > 0
    BY <2>1, <2>2, <2>3, TakenIs
  <2>5. 0 \in NewPart(g)
    BY <1>3, <2>2, <2>4
  <2>6. TakenOf(g)[0] > 0 /\ TakenOf(g)[0] \in Nat /\ TakenOf(g)[0] <= Total(TakenOf(g), Ring)
    BY <1>6, <1>7, <1>12, <2>2, <2>5
  <2> QED
    BY <1>10, <1>11, <1>12, <2>6
<1> QED
  BY <1>2, <1>4, <1>6, <1>7, <1>10, <1>11, <1>12, <1>13

LEMMA TransmitNewSdus ==
  ASSUME SduFields, NEW g \in Grants, TransmitNew(g)
  PROVE  /\ SduFields' /\ NewSize(g) > 0
         /\ slots' = [slots EXCEPT ![vt_s] =
                        NewPdu(NewSize(g), {NextSdu(current_sdu, j) : j \in NewPart(g)})]
         /\ sdus' = [i \in Ring |->
                       IF PlaceOf(current_sdu, i) \in NewPart(g)
                       THEN SegmentedSdu(sdus[i], TakenOf(g)[PlaceOf(current_sdu, i)])
                       ELSE sdus[i]]
         /\ \A i \in Ring :
              sdus'[i].remaining = sdus[i].remaining - TakenOf(g)[PlaceOf(current_sdu, i)]
         /\ \A i \in Ring : sdus'[i].mui = sdus[i].mui /\ sdus'[i].nb_ack = sdus[i].nb_ack
         /\ \A i \in Ring : sdus'[i].nb_pdus = IF PlaceOf(current_sdu, i) \in NewPart(g)
                                               THEN sdus[i].nb_pdus + 1 ELSE sdus[i].nb_pdus
         /\ occupancy' = occupancy - NewSize(g)
         /\ conf' = conf
<1>1. /\ DOMAIN sdus = Ring /\ current_sdu \in Ring /\ next_sdu \in Ring /\ occupancy \in Int
      /\ \A i \in Ring : SduShape(sdus[i])
  BY DEF SduFields
<1>2. /\ slots' = [slots EXCEPT ![vt_s] =
                     NewPdu(NewSize(g), {NextSdu(current_sdu, j) : j \in NewPart(g)})]
      /\ occupancy' = occupancy - NewSize(g) /\ conf' = conf /\ next_sdu' = next_sdu
      /\ g > HeaderSize /\ HasNewPdu
  BY DEF TransmitNew, NewSize, NewPart, NewCap
<1>3. sdus' = [i \in DOMAIN sdus |->
                 LET j == (i - current_sdu) % NbSdus
                 IN  IF j \in NewPart(g) THEN SegmentedSdu(sdus[i], Taken(NewCap(g), j)) ELSE sdus[i]]
  BY DEF TransmitNew, NewPart, NewCap
<1>4. PICK w \in Nat : current_sdu' = NextSdu(current_sdu, w)
  <2> DEFINE W == {j \in NewPart(g) :
                     Taken(NewCap(g), j) = sdus[NextSdu(current_sdu, j)].remaining}
  <2>1. current_sdu' = NextSdu(current_sdu, Cardinality(W))
    BY DEF TransmitNew, NewPart, NewCap
  <2>2. W \subseteq Ring
    BY NewSizeIs
  <2>3. Cardinality(W) \in Nat
    BY <2>2, RingFacts, FS_Subset, FS_CardinalityType
  <2> QED
    BY <2>1, <2>3
<1>5. \A i \in Ring : PlaceOf(current_sdu, i) \in Ring
  BY <1>1, PlaceIs
<1>6. sdus' = [i \in Ring |->
                 IF PlaceOf(current_sdu, i) \in NewPart(g)
                 THEN SegmentedSdu(sdus[i], TakenOf(g)[PlaceOf(current_sdu, i)])
                 ELSE sdus[i]]
  <2>1. \A j \in NewPart(g) : TakenOf(g)[j] = Taken(NewCap(g), j)
    BY NewSizeIs
  <2> QED
    BY <1>1, <1>3, <2>1 DEF PlaceOf
<1>7. ASSUME NEW i \in Ring
      PROVE  /\ SduShape(sdus'[i])
             /\ sdus'[i].remaining = sdus[i].remaining - TakenOf(g)[PlaceOf(current_sdu, i)]
             /\ sdus'[i].mui = sdus[i].mui /\ sdus'[i].nb_ack = sdus[i].nb_ack
             /\ sdus'[i].nb_pdus = IF PlaceOf(current_sdu, i) \in NewPart(g)
                                   THEN sdus[i].nb_pdus + 1 ELSE sdus[i].nb_pdus
  <2>1. PICK j \in Ring : j = PlaceOf(current_sdu, i)
    BY <1>5
  <2>2. PICK d : d = sdus[i] /\ SduShape(d)
    BY <1>1
  <2>3. PICK x \in Nat : x = TakenOf(g)[j] /\ x <= d.remaining
    BY <2>1, <2>2, NewSizeIs, RestIs
  <2>4. PICK e : e = sdus'[i] /\ e = IF j \in NewPart(g) THEN SegmentedSdu(d, x) ELSE d
    BY <1>6, <2>1, <2>2, <2>3
  <2>5. CASE j \in NewPart(g)
    <3>1. PICK r, n, b : /\ r = d.remaining - x /\ n = d.nb_pdus + 1 /\ b = (d.remaining > x)
                         /\ e = [d EXCEPT !.remaining = r, !.nb_pdus = n, !.mem = b]
      BY <2>4, <2>5 DEF SegmentedSdu
    <3>2. r \in Nat /\ n \in Nat /\ b \in BOOLEAN /\ (b <=> r > 0)
      <4>1. PICK y \in Nat : y = d.remaining /\ d.nb_pdus \in Nat
        BY <2>2 DEF SduShape
      <4>2. r \in Nat /\ n \in Nat
        BY <2>3, <3>1, <4>1
      <4>3. b = (y > x) /\ r = y - x
        BY <3>1, <4>1
      <4>4. CASE y > x
        <5>1. b = TRUE
          BY <2>3, <4>1, <4>3, <4>4
        <5> QED
          BY <4>1, <4>2, <4>3, <4>4, <5>1
      <4>5. CASE ~(y > x)
        <5>1. b = FALSE
          <6>1. (y > x) = FALSE
            BY <4>5
          <6> QED
            BY <4>3, <6>1, Zenon
        <5> QED
          BY <4>1, <4>2, <4>3, <4>5, <5>1
      <4> QED
        BY <4>4, <4>5
    <3>3. /\ SduShape(e) /\ e.remaining = r /\ e.mui = d.mui /\ e.nb_ack = d.nb_ack
          /\ e.nb_pdus = n
      <4>1. d = [mem |-> d.mem, remaining |-> d.remaining, nb_pdus |-> d.nb_pdus,
                 nb_ack |-> d.nb_ack, done |-> d.done, mui |-> d.mui]
        BY <2>2 DEF SduShape
      <4>2. e = [mem |-> b, remaining |-> r, nb_pdus |-> n, nb_ack |-> d.nb_ack,
                 done |-> d.done, mui |-> d.mui]
        BY <3>1, <4>1
      <4>3. /\ e.mem = b /\ e.remaining = r /\ e.nb_pdus = n /\ e.nb_ack = d.nb_ack
            /\ e.done = d.done /\ e.mui = d.mui
        BY <4>2
      <4>4. d.done \in BOOLEAN /\ d.nb_ack \in Nat /\ d.mui \in Nat
        BY <2>2 DEF SduShape
      <4>5. e = [mem |-> e.mem, remaining |-> e.remaining, nb_pdus |-> e.nb_pdus,
                 nb_ack |-> e.nb_ack, done |-> e.done, mui |-> e.mui]
        BY <4>2, <4>3
      <4> QED
        BY <3>2, <4>3, <4>4, <4>5 DEF SduShape
    <3> QED
      BY <2>1, <2>2, <2>3, <2>4, <2>5, <3>1, <3>3
  <2>6. CASE j \notin NewPart(g)
    <3>1. x = 0
      BY <2>3, <2>6 DEF TakenOf
    <3>2. d.remaining \in Nat
      BY <2>2 DEF SduShape
    <3>3. d.remaining = d.remaining - x
      BY <3>1, <3>2
    <3> QED
      BY <2>1, <2>2, <2>3, <2>4, <2>6, <3>3
  <2> QED
    BY <2>5, <2>6
<1>8. NewSize(g) \in Nat /\ NewSize(g) > 0
  BY <1>2, NewSizeIs
<1>9. SduFields'
  <2>1. current_sdu' \in Ring
    BY <1>1, <1>4, NextSduIn, RingFacts
  <2>2. occupancy' \in Int
    BY <1>1, <1>2, <1>8
  <2>3. IsSeq(conf')
    BY <1>2 DEF SduFields
  <2>4. sdus' = [i \in Ring |-> sdus'[i]]
    BY <1>6
  <2> QED
    BY <1>1, <1>2, <1>7, <2>1, <2>2, <2>3, <2>4 DEF SduFields
<1> QED
  BY <1>2, <1>6, <1>7, <1>8, <1>9

\* rlc_am_data_req: an SDU enters the ring.
NewSdu(size) == [NoSdu EXCEPT !.mem = TRUE, !.remaining = size, !.mui = Len(conf) + 1]

LEMMA DataReqFields ==
  ASSUME SduFields, NEW size \in SduSizes, DataReq(size)
  PROVE  /\ SduFields'
         /\ sdus' = [i \in Ring |-> IF i = next_sdu THEN NewSdu(size) ELSE sdus[i]]
         /\ NewSdu(size).remaining = size /\ NewSdu(size).mui = Len(conf) + 1
         /\ NewSdu(size).nb_pdus = 0 /\ NewSdu(size).nb_ack = 0
         /\ occupancy' = occupancy + size /\ size \in Nat /\ size > 0
         /\ conf' = Append(conf, "none")
<1>1. /\ sdus = [i \in Ring |-> sdus[i]] /\ next_sdu \in Ring /\ current_sdu \in Ring
      /\ IsSeq(conf) /\ occupancy \in Int
      /\ \A i \in Ring : SduShape(sdus[i])
  BY DEF SduFields
<1>2. size \in Nat /\ size > 0
  BY TxSizeAssumption
<1>3. /\ sdus' = [sdus EXCEPT ![next_sdu] = NewSdu(size)]
      /\ conf' = Append(conf, "none") /\ occupancy' = occupancy + size
      /\ next_sdu' = NextSdu(next_sdu, 1) /\ current_sdu' = current_sdu
  BY DEF DataReq, NewSdu
<1>4. PICK d : d = NewSdu(size)
  OBVIOUS
<1>5. PICK m \in Nat : m = Len(conf) + 1
  BY <1>1 DEF IsSeq
<1>6. d = [mem |-> TRUE, remaining |-> size, nb_pdus |-> 0, nb_ack |-> 0, done |-> FALSE, mui |-> m]
  BY <1>4, <1>5 DEF NewSdu, NoSdu
<1>7. SduShape(d) /\ d.remaining = size /\ d.mui = m /\ d.nb_pdus = 0 /\ d.nb_ack = 0
  BY <1>2, <1>6 DEF SduShape
<1>8. sdus' = [i \in Ring |-> IF i = next_sdu THEN d ELSE sdus[i]]
  BY <1>1, <1>3, <1>4
<1>9. IsSeq(conf')
  BY <1>1, <1>3, AppendIs
<1>10. next_sdu' \in Ring
  BY <1>1, <1>3, NextSduIn, RingFacts
<1>11. SduFields'
  <2>1. \A i \in Ring : SduShape(sdus'[i])
    BY <1>1, <1>7, <1>8
  <2>2. sdus' = [i \in Ring |-> sdus'[i]]
    BY <1>8
  <2>3. occupancy' \in Int
    BY <1>1, <1>2, <1>3
  <2> QED
    BY <1>1, <1>3, <1>9, <1>10, <2>1, <2>2, <2>3 DEF SduFields
<1>12. /\ NewSdu(size).remaining = size /\ NewSdu(size).mui = Len(conf) + 1
       /\ NewSdu(size).nb_pdus = 0 /\ NewSdu(size).nb_ack = 0
  BY <1>4, <1>5, <1>7
<1>13. sdus' = [i \in Ring |-> IF i = next_sdu THEN NewSdu(size) ELSE sdus[i]]
  BY <1>4, <1>8
<1> QED
  BY <1>2, <1>3, <1>11, <1>12, <1>13

LEMMA SameSdus ==
  ASSUME SduFields, UNCHANGED <<sdus, current_sdu, next_sdu, occupancy, conf>>
  PROVE  SduFields'
BY DEF SduFields

LEMMA DroppedFields ==
  ASSUME SduFields, DataReqDropped
  PROVE  SduFields' /\ sdus' = sdus /\ occupancy' = occupancy /\ conf' = Append(conf, "dropped")
<1>1. conf' = Append(conf, "dropped") /\ UNCHANGED <<sdus, current_sdu, next_sdu, occupancy>>
  BY DEF DataReqDropped
<1>2. IsSeq(conf')
  BY <1>1, AppendIs DEF SduFields
<1> QED
  BY <1>1, <1>2 DEF SduFields

\* What a step does to the SDUs.
SdusTouched ==
  \/ UNCHANGED sdu_vars
  \/ \E s, how : SdusDone(s, how)

LEMMA TouchedFields ==
  ASSUME SduFields, SdusTouched
  PROVE  SduFields'
BY SameSdus, SdusDoneFields DEF SdusTouched, sdu_vars

LEMMA StatusTouches == StatusStep => SdusTouched
<1> SUFFICES ASSUME StatusStep PROVE SdusTouched
  OBVIOUS
<1>1. CASE AtNack
  <2>1. PICK sn, first, start, stop : NackPdu(sn, first, start, stop)
    BY <1>1 DEF StatusStep
  <2> QED
    BY <2>1 DEF NackPdu, NackSdus, SdusTouched
<1>2. CASE ~AtNack
  <2>1. PICK sn : AckPdu(sn)
    BY <1>2 DEF StatusStep
  <2> QED
    BY <2>1 DEF AckPdu, SdusTouched
<1> QED
  BY <1>1, <1>2

LEMMA RepeatTouches ==
  ASSUME NEW g, RetransmitWhole(g) \/ RetransmitSegment(g) \/ RetransmitAny(g)
  PROVE  SdusTouched
<1>1. CASE RetransmitWhole(g)
  BY <1>1 DEF RetransmitWhole, SdusTouched
<1>2. CASE RetransmitSegment(g)
  BY <1>2 DEF RetransmitSegment, SdusTouched
<1>3. CASE RetransmitAny(g)
  <2>1. PICK sn : NackSdus(sn)
    BY <1>3 DEF RetransmitAny
  <2> QED
    BY <2>1 DEF NackSdus, SdusTouched
<1> QED
  BY <1>1, <1>2, <1>3

\* The steps of the sender, without those that leave its window, its slots and its
\* SDUs alone.
SenderStep ==
  \/ \E size \in SduSizes : DataReq(size)
  \/ DataReqDropped
  \/ \E g \in Grants : GetPdus(g)
  \/ StatusStep
  \/ UNCHANGED <<vt_a, vt_s, slots, retrans_vars, sdu_vars>>

LEMMA TxIsSenderStep == [TxNext]_tx_vars => SenderStep
<1> SUFFICES ASSUME [TxNext]_tx_vars PROVE SenderStep
  OBVIOUS
<1>1. CASE PollTimeOut \/ AnyStatus \/ TakePdu
  BY <1>1 DEF PollTimeOut, AnyStatus, ReceiveStatus, TakePdu, SenderStep
<1>2. CASE UNCHANGED tx_vars
  BY <1>2 DEF tx_vars, sdu_vars, retrans_vars, SenderStep
<1> QED
  BY <1>1, <1>2 DEF TxNext, SenderStep

LEMMA LinkIsSenderStep == [LinkNext]_link_vars => SenderStep
<1> SUFFICES ASSUME [LinkNext]_link_vars PROVE SenderStep
  OBVIOUS
<1>1. CASE PollTimeOut \/ DeliverReport \/ TakePdu
  BY <1>1 DEF PollTimeOut, DeliverReport, ReceiveStatus, TakePdu, SenderStep
<1>2. CASE UNCHANGED tx_vars
  BY <1>2 DEF tx_vars, sdu_vars, retrans_vars, SenderStep
<1>3. \/ \E size \in SduSizes : DataReq(size)
      \/ DataReqDropped \/ PollTimeOut \/ \E g \in Grants : GetPdus(g)
      \/ DeliverReport \/ StatusStep \/ TakePdu \/ UNCHANGED tx_vars
  BY DEF LinkNext, Submit, TimeOut, Request, Lose, Arrive, Report, LoseReport, Process, link_vars
<1> QED
  BY <1>1, <1>2, <1>3 DEF SenderStep

LEMMA SduFieldsStep == SduFields /\ SenderStep => SduFields'
<1> SUFFICES ASSUME SduFields, SenderStep PROVE SduFields'
  OBVIOUS
<1>1. ASSUME NEW size \in SduSizes, DataReq(size) PROVE SduFields'
  BY <1>1, DataReqFields
<1>2. CASE DataReqDropped
  BY <1>2, DroppedFields
<1>3. ASSUME NEW g \in Grants, GetPdus(g) PROVE SduFields'
  BY <1>3, RepeatTouches, TouchedFields, TransmitNewSdus DEF GetPdus
<1>4. CASE StatusStep
  BY <1>4, StatusTouches, TouchedFields
<1>5. CASE UNCHANGED sdu_vars
  BY <1>5, SameSdus DEF sdu_vars
<1> QED
  BY <1>1, <1>2, <1>3, <1>4, <1>5 DEF SenderStep

LEMMA SduFieldsInit == TxInit => SduFields
<1> SUFFICES ASSUME TxInit PROVE SduFields
  OBVIOUS
<1>1. /\ sdus = [i \in Ring |-> NoSdu] /\ current_sdu = 0 /\ next_sdu = 0
      /\ occupancy = 0 /\ conf = <<>>
  BY DEF TxInit, Ring
<1>2. IsSeq(conf)
  BY <1>1 DEF IsSeq
<1> QED
  BY <1>1, <1>2, NoSduShape, RingFacts DEF SduFields

-----------------------------------------------------------------------------
(* Only what has been received is acknowledged.                             *)

\* How far a report reaches, from VT(A) = a: one after its ACK_SN.
Reach(a, r) == Dist(a, Plus(r.ack, 1))
NackedBy(r) == {r.nacks[i].sn : i \in 1 .. Len(r.nacks)}
AckedBy(a, r) == {sn \in SN : Dist(a, sn) + 1 < Reach(a, r)} \ NackedBy(r)

\* A report does not speak against the SNs in A: it NACKs none of them, and its
\* ACK_SN has not fallen behind them.
Spared(a, A, r) == A \cap NackedBy(r) = {} /\ \A sn \in A : Dist(a, sn) < Reach(a, r)

ReportFields(r) ==
  r.ack \in SN /\ IsSeq(r.nacks) /\ \A i \in 1 .. Len(r.nacks) : r.nacks[i].sn \in SN

\* A report on its way NACKs what is missing, in order, and does not reach past VT(S) = s.
ReportSound(a, s, m, r) ==
  /\ ReportFields(r) /\ Reach(a, r) <= Dist(a, s) + 1
  /\ \A sn \in SN : Dist(a, sn) + 1 < Reach(a, r) /\ m[sn] # {} => sn \in NackedBy(r)
  /\ \A i \in 1 .. Len(r.nacks) : Dist(a, r.nacks[i].sn) + 1 < Reach(a, r)
  /\ \A i, j \in 1 .. Len(r.nacks) :
       i <= j => Dist(a, r.nacks[i].sn) <= Dist(a, r.nacks[j].sn)

\* VT(A) moves from a to b over k SNs that the report spares.
Moves(a, b, k, s) ==
  /\ WindowSize >= 2 /\ a \in SN /\ s \in SN /\ k \in 0 .. Dist(a, s)
  /\ Dist(a, s) <= WindowSize /\ b = Plus(a, k)
Passed(a, k) == {sn \in SN : Dist(a, sn) < k}

LEMMA MovesDist ==
  ASSUME NEW a, NEW b, NEW k, NEW s, Moves(a, b, k, s), NEW sn \in SN
  PROVE  /\ Dist(a, sn) \in 0 .. SnModulo - 1 /\ Dist(b, sn) \in 0 .. SnModulo - 1
         /\ b \in SN /\ k \in Nat /\ k < SnModulo
         /\ Dist(b, sn) = IF k <= Dist(a, sn) THEN Dist(a, sn) - k
                          ELSE Dist(a, sn) - k + SnModulo
<1>1. a \in SN /\ s \in SN /\ b = Plus(a, k) /\ k \in 0 .. Dist(a, s)
  BY DEF Moves
<1>2. Dist(a, s) \in 0 .. SnModulo - 1
  BY <1>1, DistIs
<1>3. k \in 0 .. SnModulo - 1 /\ k \in 0 .. SnModulo
  BY <1>1, <1>2, TxSnFacts
<1>4. b \in SN
  BY <1>1, <1>3, PlusIs
<1>5. Dist(a, sn) \in 0 .. SnModulo - 1 /\ Dist(b, sn) \in 0 .. SnModulo - 1
  BY <1>1, <1>4, DistIs
<1>6. Dist(b, sn) = IF k <= Dist(a, sn) THEN Dist(a, sn) - k ELSE Dist(a, sn) - k + SnModulo
  BY <1>1, <1>3, DistMoved
<1> QED
  BY <1>3, <1>4, <1>5, <1>6, TxSnFacts

\* The report still reaches as far, and VT(A) and VT(S) are nearer by k.
LEMMA ReachMoved ==
  ASSUME NEW a, NEW b, NEW k, NEW s, Moves(a, b, k, s), NEW m, NEW r,
         ReportSound(a, s, m, r), Spared(a, Passed(a, k), r)
  PROVE  /\ Reach(a, r) \in Nat /\ k <= Reach(a, r) /\ Reach(b, r) = Reach(a, r) - k
         /\ Dist(b, s) = Dist(a, s) - k /\ Reach(a, r) < SnModulo
<1>1. /\ r.ack \in SN /\ a \in SN /\ s \in SN /\ k \in 0 .. Dist(a, s)
      /\ Dist(a, s) <= WindowSize /\ WindowSize >= 2
      /\ Reach(a, r) <= Dist(a, s) + 1
  BY DEF ReportSound, ReportFields, Moves
<1>2. PICK e \in SN : e = Plus(r.ack, 1)
  BY <1>1, DistNext
<1>3. Reach(a, r) = Dist(a, e) /\ Reach(b, r) = Dist(b, e)
  BY <1>2 DEF Reach
<1>4. /\ Dist(a, e) \in 0 .. SnModulo - 1 /\ k \in Nat /\ k < SnModulo
      /\ Dist(b, e) = IF k <= Dist(a, e) THEN Dist(a, e) - k ELSE Dist(a, e) - k + SnModulo
      /\ Dist(a, s) \in 0 .. SnModulo - 1
      /\ Dist(b, s) = IF k <= Dist(a, s) THEN Dist(a, s) - k ELSE Dist(a, s) - k + SnModulo
  BY <1>1, MovesDist
<1>5. k <= Dist(a, e)
  <2>1. CASE k = 0
    BY <1>4, <2>1
  <2>2. CASE k # 0
    <3>1. k - 1 \in 0 .. SnModulo - 1 /\ k - 1 \in 0 .. SnModulo
      BY <1>4, <2>2, TxSnFacts
    <3>2. PICK x \in SN : x = Plus(a, k - 1)
      BY <1>1, <3>1, PlusIs
    <3>3. Dist(a, x) = k - 1
      BY <1>1, <3>1, <3>2, PlusDist
    <3>4. x \in Passed(a, k)
      BY <1>4, <3>3 DEF Passed
    <3>5. Dist(a, x) < Dist(a, e)
      BY <1>3, <3>4 DEF Spared
    <3> QED
      BY <1>4, <3>3, <3>5
  <2> QED
    BY <2>1, <2>2
<1> QED
  BY <1>1, <1>3, <1>4, <1>5, TxSnFacts

LEMMA SparedMoved ==
  ASSUME NEW a, NEW b, NEW k, NEW s, Moves(a, b, k, s), NEW m, NEW r,
         ReportSound(a, s, m, r), Spared(a, Passed(a, k), r),
         NEW A, Spared(a, A, r), NEW B, B \subseteq A, B \subseteq SN,
         \A sn \in B : k <= Dist(a, sn)
  PROVE  Spared(b, B, r)
<1>1. PICK e \in Nat : e = Reach(a, r) /\ k <= e /\ Reach(b, r) = e - k
  BY ReachMoved
<1>2. ASSUME NEW sn \in B PROVE Dist(b, sn) < e - k
  <2>1. /\ Dist(a, sn) \in 0 .. SnModulo - 1 /\ k \in Nat /\ k <= Dist(a, sn)
        /\ Dist(b, sn) = IF k <= Dist(a, sn) THEN Dist(a, sn) - k
                         ELSE Dist(a, sn) - k + SnModulo
    BY MovesDist
  <2>2. Dist(a, sn) < e
    BY <1>1 DEF Spared
  <2> QED
    BY <1>1, <2>1, <2>2
<1> QED
  BY <1>1, <1>2 DEF Spared

LEMMA AckedByMoved ==
  ASSUME NEW a, NEW b, NEW k, NEW s, Moves(a, b, k, s), NEW m, NEW r,
         ReportSound(a, s, m, r), Spared(a, Passed(a, k), r)
  PROVE  /\ AckedBy(b, r) \subseteq AckedBy(a, r) /\ AckedBy(b, r) \subseteq SN
         /\ \A sn \in AckedBy(b, r) : k <= Dist(a, sn)
<1>1. PICK e \in Nat : /\ e = Reach(a, r) /\ k <= e /\ Reach(b, r) = e - k
                       /\ e < SnModulo
  BY ReachMoved
<1>2. ASSUME NEW sn \in SN, Dist(b, sn) + 1 < e - k
      PROVE  k <= Dist(a, sn) /\ Dist(a, sn) + 1 < e
  <2>1. /\ Dist(a, sn) \in 0 .. SnModulo - 1 /\ k \in Nat
        /\ Dist(b, sn) = IF k <= Dist(a, sn) THEN Dist(a, sn) - k
                         ELSE Dist(a, sn) - k + SnModulo
    BY MovesDist
  <2> QED
    BY <1>1, <1>2, <2>1, TxSnFacts
<1> QED
  BY <1>1, <1>2 DEF AckedBy

LEMMA ReportMoved ==
  ASSUME NEW a, NEW b, NEW k, NEW s, Moves(a, b, k, s), NEW m, NEW r,
         ReportSound(a, s, m, r), Spared(a, Passed(a, k), r)
  PROVE  ReportSound(b, s, m, r)
<1>1. PICK e \in Nat : /\ e = Reach(a, r) /\ k <= e /\ Reach(b, r) = e - k
                       /\ e < SnModulo /\ Dist(b, s) = Dist(a, s) - k
  BY ReachMoved
<1>2. k \in Nat /\ Dist(a, s) \in Nat
  BY DistIs, TxSnFacts DEF Moves
<1>3. /\ ReportFields(r) /\ e <= Dist(a, s) + 1
      /\ \A sn \in SN : Dist(a, sn) + 1 < e /\ m[sn] # {} => sn \in NackedBy(r)
      /\ \A i \in 1 .. Len(r.nacks) : Dist(a, r.nacks[i].sn) + 1 < e
      /\ \A i, j \in 1 .. Len(r.nacks) :
           i <= j => Dist(a, r.nacks[i].sn) <= Dist(a, r.nacks[j].sn)
  BY <1>1 DEF ReportSound
<1>4. e - k <= Dist(b, s) + 1
  BY <1>1, <1>2, <1>3
<1>5. ASSUME NEW sn \in SN, Dist(b, sn) + 1 < e - k, m[sn] # {}
      PROVE  sn \in NackedBy(r)
  <2>1. /\ Dist(a, sn) \in 0 .. SnModulo - 1
        /\ Dist(b, sn) = IF k <= Dist(a, sn) THEN Dist(a, sn) - k
                         ELSE Dist(a, sn) - k + SnModulo
    BY MovesDist
  <2>2. Dist(a, sn) + 1 < e
    BY <1>1, <1>2, <1>5, <2>1, TxSnFacts
  <2> QED
    BY <1>3, <1>5, <2>2
<1>6. ASSUME NEW i \in 1 .. Len(r.nacks)
      PROVE  /\ Dist(b, r.nacks[i].sn) = Dist(a, r.nacks[i].sn) - k
             /\ Dist(a, r.nacks[i].sn) \in Nat
  <2>1. PICK sn \in SN : sn = r.nacks[i].sn
    BY <1>3 DEF ReportFields
  <2>2. sn \notin Passed(a, k)
    BY <2>1 DEF Spared, NackedBy
  <2>3. /\ Dist(a, sn) \in 0 .. SnModulo - 1
        /\ Dist(b, sn) = IF k <= Dist(a, sn) THEN Dist(a, sn) - k
                         ELSE Dist(a, sn) - k + SnModulo
    BY MovesDist
  <2>4. k <= Dist(a, sn)
    BY <1>2, <2>2, <2>3, TxSnFacts DEF Passed
  <2> QED
    BY <2>1, <2>3, <2>4
<1>7. \A i \in 1 .. Len(r.nacks) : Dist(b, r.nacks[i].sn) + 1 < e - k
  <2> TAKE i \in 1 .. Len(r.nacks)
  <2>1. PICK x \in Nat : /\ x = Dist(a, r.nacks[i].sn) /\ x + 1 < e
                         /\ Dist(b, r.nacks[i].sn) = x - k
    BY <1>3, <1>6
  <2> QED
    BY <1>1, <1>2, <2>1
<1>8. ASSUME NEW i \in 1 .. Len(r.nacks), NEW j \in 1 .. Len(r.nacks), i <= j
      PROVE  Dist(b, r.nacks[i].sn) <= Dist(b, r.nacks[j].sn)
  <2>1. PICK x \in Nat, y \in Nat : /\ x = Dist(a, r.nacks[i].sn) /\ y = Dist(a, r.nacks[j].sn)
                                    /\ Dist(b, r.nacks[i].sn) = x - k
                                    /\ Dist(b, r.nacks[j].sn) = y - k
    BY <1>6
  <2>2. x <= y
    BY <1>3, <1>8, <2>1
  <2> QED
    BY <1>2, <2>1, <2>2
<1> QED
  BY <1>1, <1>3, <1>4, <1>5, <1>7, <1>8 DEF ReportSound

\* The report in process, c, has the SNs from its cursor to its ACK_SN left.
Remaining(c) == {c.nacks[i].sn : i \in c.i .. Len(c.nacks)}
ToAck(c) == {sn \in SN : Dist(c.cursor, sn) < Dist(c.cursor, c.ack)} \ Remaining(c)

CtrlFields(c) ==
  /\ c.cursor \in SN /\ c.ack \in SN /\ c.cursor # c.ack
  /\ IsSeq(c.nacks) /\ \A i \in 1 .. Len(c.nacks) : c.nacks[i].sn \in SN
  /\ c.i \in 1 .. Len(c.nacks) + 1

\* It NACKs what is missing of them, in order; a second NACK of an SN follows at once.
CtrlSound(m, c) ==
  /\ CtrlFields(c)
  /\ \A sn \in SN : Dist(c.cursor, sn) < Dist(c.cursor, c.ack) /\ m[sn] # {}
                    => sn \in Remaining(c)
  /\ \A i \in c.i .. Len(c.nacks) : Dist(c.cursor, c.nacks[i].sn) < Dist(c.cursor, c.ack)
  /\ \A i, j \in c.i .. Len(c.nacks) :
       i <= j => Dist(c.cursor, c.nacks[i].sn) <= Dist(c.cursor, c.nacks[j].sn)
  /\ c.i > 1 /\ c.i <= Len(c.nacks) /\ c.nacks[c.i].sn = c.nacks[c.i - 1].sn
     => c.nacks[c.i].sn = c.cursor

LEMMA DistNat ==
  \A a, b \in SN : /\ Dist(a, b) \in Nat /\ Dist(a, b) < SnModulo
                   /\ Dist(a, a) = 0 /\ (Dist(a, b) = 0 <=> a = b)
BY DistIs, TxSnFacts

\* The SN at the cursor is NACKed by the next of the NACKs, or by none.
LEMMA CursorAcked ==
  ASSUME NEW m, CtrlSound(m, ctrl), ~AtNack
  PROVE  ctrl.cursor \in ToAck(ctrl) /\ m[ctrl.cursor] = {} /\ ctrl.cursor \notin Remaining(ctrl)
<1>1. /\ ctrl.cursor \in SN /\ ctrl.ack \in SN /\ ctrl.cursor # ctrl.ack
      /\ Len(ctrl.nacks) \in Nat /\ ctrl.i \in 1 .. Len(ctrl.nacks) + 1
      /\ \A i \in 1 .. Len(ctrl.nacks) : ctrl.nacks[i].sn \in SN
  BY DEF CtrlSound, CtrlFields, IsSeq
<1>2. ctrl.cursor \notin Remaining(ctrl)
  <2> SUFFICES ASSUME NEW j \in ctrl.i .. Len(ctrl.nacks), ctrl.nacks[j].sn = ctrl.cursor
               PROVE  FALSE
    BY DEF Remaining
  <2>1. ctrl.i \in ctrl.i .. Len(ctrl.nacks) /\ ctrl.i <= j /\ ctrl.i \in 1 .. Len(ctrl.nacks)
    BY <1>1
  <2>2. Dist(ctrl.cursor, ctrl.nacks[ctrl.i].sn) <= Dist(ctrl.cursor, ctrl.cursor)
    BY <2>1 DEF CtrlSound
  <2>3. ctrl.nacks[ctrl.i].sn \in SN /\ Dist(ctrl.cursor, ctrl.cursor) = 0
    BY <1>1, <2>1, DistIs
  <2>4. Dist(ctrl.cursor, ctrl.nacks[ctrl.i].sn) = 0
    BY <1>1, <2>2, <2>3, DistNat
  <2>5. ctrl.nacks[ctrl.i].sn = ctrl.cursor
    BY <1>1, <2>3, <2>4, DistIs
  <2> QED
    BY <2>1, <2>5 DEF AtNack
<1>3. Dist(ctrl.cursor, ctrl.cursor) < Dist(ctrl.cursor, ctrl.ack)
  <2>1. PICK d \in Nat : d = Dist(ctrl.cursor, ctrl.ack) /\ d # 0
    BY <1>1, DistNat
  <2> QED
    BY <1>1, <2>1, DistNat
<1> QED
  BY <1>1, <1>2, <1>3 DEF ToAck, CtrlSound

\* Distances from the SN after c.
LEMMA DistFromNext ==
  ASSUME NEW c \in SN, NEW sn \in SN
  PROVE  /\ Plus(c, 1) \in SN
         /\ Dist(Plus(c, 1), sn) = IF sn = c THEN SnModulo - 1 ELSE Dist(c, sn) - 1
<1>1. 1 \in 0 .. SnModulo - 1 /\ SnModulo \in Nat
  BY TxSnFacts
<1>2. Plus(c, 1) \in SN
  BY DistNext
<1>3. Dist(Plus(c, 1), sn) = IF 1 <= Dist(c, sn) THEN Dist(c, sn) - 1
                             ELSE Dist(c, sn) - 1 + SnModulo
  BY <1>1, DistMoved
<1>4. Dist(c, sn) \in 0 .. SnModulo - 1 /\ (Dist(c, sn) = 0 <=> c = sn)
  BY DistIs
<1> QED
  BY <1>1, <1>2, <1>3, <1>4

\* What NextCtrl makes of the report.
LEMMA NextCtrlIs ==
  ASSUME TxFields, ctrl.on
  PROVE  LET i      == IF AtNack THEN ctrl.i + 1 ELSE ctrl.i
             again  == i > 1 /\ i <= Len(ctrl.nacks) /\ SameSn(i)
             cursor == IF again THEN ctrl.cursor ELSE Plus(ctrl.cursor, 1)
         IN  NextCtrl.on =>
               /\ NextCtrl.nacks = ctrl.nacks /\ NextCtrl.ack = ctrl.ack
               /\ NextCtrl.i = i /\ NextCtrl.cursor = cursor /\ cursor # ctrl.ack
<1> DEFINE i      == IF AtNack THEN ctrl.i + 1 ELSE ctrl.i
           again  == i > 1 /\ i <= Len(ctrl.nacks) /\ SameSn(i)
           cursor == IF again THEN ctrl.cursor ELSE Plus(ctrl.cursor, 1)
<1>1. NextCtrl = IF cursor = ctrl.ack THEN Idle ELSE [ctrl EXCEPT !.i = i, !.cursor = cursor]
  BY DEF NextCtrl
<1>2. ctrl = [on |-> ctrl.on, ack |-> ctrl.ack, nacks |-> ctrl.nacks, i |-> ctrl.i,
              cursor |-> ctrl.cursor]
  BY DEF TxFields
<1> HIDE DEF i, cursor
<1>3. PICK n : n = NextCtrl
  OBVIOUS
<1>4. CASE cursor = ctrl.ack
  <2>1. ~n.on
    BY <1>1, <1>3, <1>4 DEF Idle
  <2> QED
    BY <1>3, <2>1
<1>5. CASE cursor # ctrl.ack
  <2>1. n = [on |-> ctrl.on, ack |-> ctrl.ack, nacks |-> ctrl.nacks, i |-> i, cursor |-> cursor]
    BY <1>1, <1>2, <1>3, <1>5
  <2>2. n.nacks = ctrl.nacks /\ n.ack = ctrl.ack /\ n.i = i /\ n.cursor = cursor
    BY <2>1
  <2> QED
    BY <1>3, <1>5, <2>2 DEF i, cursor
<1> QED
  BY <1>4, <1>5

\* The report goes on to the next NACK of the same SN, or to the next SN.
LEMMA CtrlGoesOn ==
  ASSUME TxFields, ctrl.on, NEW m, CtrlSound(m, ctrl), NextCtrl.on
  PROVE  CtrlSound(m, NextCtrl) /\ ToAck(NextCtrl) \subseteq ToAck(ctrl)
<1> DEFINE c == ctrl.cursor
           e == ctrl.ack
           N == Len(ctrl.nacks)
           S(i) == ctrl.nacks[i].sn
           i1 == IF AtNack THEN ctrl.i + 1 ELSE ctrl.i
           again == i1 > 1 /\ i1 <= N /\ S(i1) = S(i1 - 1)
           c1 == IF again THEN c ELSE Plus(c, 1)
<1>1. /\ c \in SN /\ e \in SN /\ c # e /\ N \in Nat /\ ctrl.i \in 1 .. N + 1
      /\ \A i \in 1 .. N : S(i) \in SN
      /\ IsSeq(ctrl.nacks)
  BY DEF CtrlSound, CtrlFields, IsSeq
<1>2. /\ \A sn \in SN : Dist(c, sn) < Dist(c, e) /\ m[sn] # {} => \E i \in ctrl.i .. N : S(i) = sn
      /\ \A i \in ctrl.i .. N : Dist(c, S(i)) < Dist(c, e)
      /\ \A i, j \in ctrl.i .. N : i <= j => Dist(c, S(i)) <= Dist(c, S(j))
      /\ ctrl.i > 1 /\ ctrl.i <= N /\ S(ctrl.i) = S(ctrl.i - 1) => S(ctrl.i) = c
  BY DEF CtrlSound, Remaining
<1>3. /\ NextCtrl.nacks = ctrl.nacks /\ NextCtrl.ack = e /\ NextCtrl.i = i1
      /\ NextCtrl.cursor = c1 /\ c1 # e
  BY NextCtrlIs DEF SameSn
<1>4. AtNack <=> ctrl.i <= N /\ S(ctrl.i) = c
  BY DEF AtNack
<1>5. i1 \in 1 .. N + 1 /\ (\A i \in i1 .. N : i \in ctrl.i .. N /\ i \in 1 .. N)
  BY <1>1, <1>4
<1>6. \A sn \in SN : sn # c /\ (\E i \in ctrl.i .. N : S(i) = sn) => \E i \in i1 .. N : S(i) = sn
  <2> SUFFICES ASSUME NEW i \in ctrl.i .. N, S(i) # c
               PROVE  i \in i1 .. N
    OBVIOUS
  <2> QED
    BY <1>1, <1>4
<1>7. again => S(i1) = c /\ AtNack
  <2> SUFFICES ASSUME again PROVE S(i1) = c /\ AtNack
    OBVIOUS
  <2>1. CASE AtNack
    <3>1. i1 - 1 = ctrl.i
      BY <1>1, <2>1
    <3> QED
      BY <1>4, <2>1, <3>1
  <2>2. CASE ~AtNack
    BY <1>2, <1>4, <2>2
  <2> QED
    BY <2>1, <2>2
<1>8. ~again => \A i \in i1 .. N : S(i) # c
  <2> SUFFICES ASSUME ~again, NEW i \in i1 .. N, S(i) = c PROVE FALSE
    OBVIOUS
  <2>1. i1 \in i1 .. N /\ i1 <= i /\ i1 \in ctrl.i .. N /\ i \in ctrl.i .. N /\ i1 \in 1 .. N
    BY <1>1, <1>5
  <2>2. Dist(c, S(i1)) <= Dist(c, c)
    BY <1>2, <2>1
  <2>3. S(i1) \in SN
    BY <1>1, <2>1
  <2>4. S(i1) = c
    BY <1>1, <2>2, <2>3, DistNat
  <2>5. CASE AtNack
    <3>1. i1 - 1 = ctrl.i /\ i1 > 1
      BY <1>1, <2>5
    <3> QED
      BY <1>4, <2>1, <2>4, <2>5, <3>1
  <2>6. CASE ~AtNack
    BY <1>4, <2>1, <2>4, <2>6
  <2> QED
    BY <2>5, <2>6
<1> HIDE DEF c, e, N, S, i1
<1>9. CASE again
  <2>1. c1 = c
    BY <1>9
  <2>2. \A sn \in SN : (\E i \in ctrl.i .. N : S(i) = sn) => \E i \in i1 .. N : S(i) = sn
    <3>1. i1 \in i1 .. N /\ S(i1) = c
      BY <1>5, <1>7, <1>9
    <3> QED
      BY <1>6, <3>1
  <2>3. CtrlSound(m, NextCtrl)
    <3>1. CtrlFields(NextCtrl)
      BY <1>1, <1>3, <1>5, <2>1 DEF CtrlFields, N, S
    <3>2. \A sn \in SN : Dist(c, sn) < Dist(c, e) /\ m[sn] # {} => \E i \in i1 .. N : S(i) = sn
      BY <1>2, <2>2
    <3>3. \A i \in i1 .. N : Dist(c, S(i)) < Dist(c, e)
      BY <1>2, <1>5
    <3>4. \A i, j \in i1 .. N : i <= j => Dist(c, S(i)) <= Dist(c, S(j))
      BY <1>2, <1>5
    <3> QED
      BY <1>3, <1>7, <1>9, <2>1, <3>1, <3>2, <3>3, <3>4 DEF CtrlSound, Remaining, N, S
  <2>4. ToAck(NextCtrl) \subseteq ToAck(ctrl)
    BY <1>3, <2>1, <2>2 DEF ToAck, Remaining, N, S, c, e
  <2> QED
    BY <2>3, <2>4
<1>10. CASE ~again
  <2>1. c1 = Plus(c, 1) /\ c1 \in SN
    BY <1>1, <1>10, DistNext
  <2>2. \A sn \in SN : Dist(c1, sn) = IF sn = c THEN SnModulo - 1 ELSE Dist(c, sn) - 1
    BY <1>1, <2>1, DistFromNext
  <2>3. PICK d \in Nat : d = Dist(c, e) /\ d > 0 /\ d < SnModulo /\ Dist(c1, e) = d - 1
    BY <1>1, <2>2, DistNat
  <2>4. \A sn \in SN : Dist(c1, sn) < Dist(c1, e) => sn # c /\ Dist(c, sn) < d
    BY <1>1, <2>2, <2>3, DistNat, TxSnFacts
  <2>5. \A i \in i1 .. N : S(i) # c /\ S(i) \in SN /\ Dist(c1, S(i)) = Dist(c, S(i)) - 1
    BY <1>1, <1>5, <1>8, <1>10, <2>2
  <2>6. CtrlSound(m, NextCtrl)
    <3>1. CtrlFields(NextCtrl)
      BY <1>1, <1>3, <1>5, <2>1 DEF CtrlFields, N, S
    <3>2. \A sn \in SN : Dist(c1, sn) < Dist(c1, e) /\ m[sn] # {} => \E i \in i1 .. N : S(i) = sn
      BY <1>2, <1>6, <2>3, <2>4
    <3>3. \A i \in i1 .. N : Dist(c1, S(i)) < Dist(c1, e)
      <4> TAKE i \in i1 .. N
      <4>1. PICK x \in Nat : x = Dist(c, S(i)) /\ x < d /\ Dist(c1, S(i)) = x - 1
        BY <1>1, <1>2, <1>5, <2>3, <2>5, DistNat
      <4> QED
        BY <2>3, <4>1
    <3>4. ASSUME NEW i \in i1 .. N, NEW j \in i1 .. N, i <= j
          PROVE  Dist(c1, S(i)) <= Dist(c1, S(j))
      <4>1. PICK x \in Nat, y \in Nat : /\ x = Dist(c, S(i)) /\ y = Dist(c, S(j))
                                        /\ Dist(c1, S(i)) = x - 1 /\ Dist(c1, S(j)) = y - 1
        BY <1>1, <2>5, DistNat
      <4>2. x <= y
        BY <1>2, <1>5, <3>4, <4>1
      <4> QED
        BY <4>1, <4>2
    <3> QED
      BY <1>3, <1>10, <3>1, <3>2, <3>3, <3>4 DEF CtrlSound, Remaining, N, S
  <2>7. ASSUME NEW sn \in SN, Dist(c1, sn) < Dist(c1, e), ~\E i \in i1 .. N : S(i) = sn
        PROVE  Dist(c, sn) < d /\ ~\E i \in ctrl.i .. N : S(i) = sn
    BY <1>6, <2>4, <2>7
  <2>8. ToAck(NextCtrl) \subseteq ToAck(ctrl)
    BY <1>3, <2>3, <2>7 DEF ToAck, Remaining, N, S, c, e
  <2> QED
    BY <2>6, <2>8
<1> QED
  BY <1>9, <1>10

-----------------------------------------------------------------------------
(* The reports of the peer.                                                 *)

MissingFields ==
  /\ missing = [sn \in SN |-> missing[sn]]
  /\ \A sn \in SN : missing[sn] \subseteq Nat /\ IsFiniteSet(missing[sn])

LEMMA RunsIs ==
  ASSUME MissingFields, NEW sn \in SN
  PROVE  /\ IsSeq(Runs(sn)) /\ \A i \in 1 .. Len(Runs(sn)) : Runs(sn)[i].sn = sn
         /\ Len(Runs(sn)) > 0 <=> missing[sn] # {}
<1> DEFINE M == missing[sn]
           starts == {b \in M : b - 1 \notin M}
           n == Cardinality(starts)
<1>1. M \subseteq Nat /\ IsFiniteSet(M)
  BY DEF MissingFields
<1>2. IsFiniteSet(starts) /\ n \in Nat
  BY <1>1, FS_Subset, FS_CardinalityType
<1>3. Runs(sn) = [i \in 1 .. n |-> Runs(sn)[i]] /\ \A i \in 1 .. n : Runs(sn)[i].sn = sn
  BY DEF Runs
<1>4. IsSeq(Runs(sn)) /\ Len(Runs(sn)) = n
  <2> HIDE DEF n
  <2> QED
    BY <1>2, <1>3, FunctionIsSeq
<1>5. n > 0 <=> starts # {}
  <2> HIDE DEF starts
  <2> QED
    BY <1>2, FS_EmptySet
<1>6. M # {} => starts # {}
  <2> SUFFICES ASSUME M # {} PROVE starts # {}
    OBVIOUS
  <2>1. PICK b \in M : \A x \in M : b <= x
    BY <1>1, LeastNatural
  <2>2. b - 1 \notin M
    BY <1>1, <2>1
  <2> QED
    BY <2>1, <2>2
<1>7. starts # {} => M # {}
  OBVIOUS
<1> HIDE DEF n, starts, M
<1> QED
  BY <1>3, <1>4, <1>5, <1>6, <1>7 DEF M

\* A list of NACKs of what is missing of the first n PDUs.
NacksOf(f, n) ==
  /\ IsSeq(f)
  /\ \A i \in 1 .. Len(f) : /\ f[i].sn \in SN /\ Dist(vt_a, f[i].sn) < n
                            /\ missing[f[i].sn] # {}
  /\ \A i, j \in 1 .. Len(f) : i <= j => Dist(vt_a, f[i].sn) <= Dist(vt_a, f[j].sn)
  /\ \A sn \in SN : Dist(vt_a, sn) < n /\ missing[sn] # {} => \E i \in 1 .. Len(f) : f[i].sn = sn

LEMMA NoNacks ==
  ASSUME NEW f, IsSeq(f), Len(f) = 0, vt_a \in SN
  PROVE  NacksOf(f, 0)
<1>1. \A sn \in SN : ~(Dist(vt_a, sn) < 0)
  BY DistNat
<1> QED
  BY <1>1 DEF NacksOf

LEMMA MoreNacks ==
  ASSUME MissingFields, vt_a \in SN, NEW n \in 0 .. SnModulo - 1, NEW f, NacksOf(f, n)
  PROVE  NacksOf(f \o Runs(Plus(vt_a, n)), n + 1)
<1>1. SnModulo \in Nat /\ n \in Nat
  BY TxSnFacts
<1>2. PICK x \in SN : x = Plus(vt_a, n) /\ Dist(vt_a, x) = n
  <2>1. n \in 0 .. SnModulo
    BY <1>1
  <2>2. PICK x \in SN : x = Plus(vt_a, n)
    BY <2>1, PlusIs
  <2>3. Dist(vt_a, x) = n
    BY <2>2, PlusDist
  <2> QED
    BY <2>2, <2>3
<1>3. PICK t : /\ t = Runs(x) /\ IsSeq(t) /\ (\A i \in 1 .. Len(t) : t[i].sn = x)
               /\ Len(t) > 0 <=> missing[x] # {}
  BY RunsIs
<1>4. /\ IsSeq(f)
      /\ \A i \in 1 .. Len(f) : /\ f[i].sn \in SN /\ Dist(vt_a, f[i].sn) < n
                                /\ missing[f[i].sn] # {}
      /\ \A i, j \in 1 .. Len(f) : i <= j => Dist(vt_a, f[i].sn) <= Dist(vt_a, f[j].sn)
      /\ \A sn \in SN : Dist(vt_a, sn) < n /\ missing[sn] # {}
                        => \E i \in 1 .. Len(f) : f[i].sn = sn
  BY DEF NacksOf
<1>5. PICK a \in Nat, b \in Nat : a = Len(f) /\ b = Len(t)
  BY <1>3, <1>4 DEF IsSeq
<1>6. PICK g : /\ g = f \o t /\ IsSeq(g) /\ Len(g) = a + b
               /\ \A i \in 1 .. a : g[i] = f[i]
               /\ \A i \in 1 .. b : g[a + i] = t[i]
  <2>1. IsSeq(f) /\ IsSeq(t)
    BY <1>3, <1>4
  <2>2. /\ IsSeq(f \o t) /\ Len(f \o t) = Len(f) + Len(t)
        /\ \A i \in 1 .. Len(f) : (f \o t)[i] = f[i]
        /\ \A i \in 1 .. Len(t) : (f \o t)[Len(f) + i] = t[i]
    BY <2>1, ConcatIs
  <2>3. PICK h : h = f \o t
    OBVIOUS
  <2>4. /\ IsSeq(h) /\ Len(h) = a + b
        /\ \A i \in 1 .. a : h[i] = f[i]
        /\ \A i \in 1 .. b : h[a + i] = t[i]
    BY <1>5, <2>2, <2>3, Zenon
  <2> QED
    BY <2>3, <2>4, Zenon
<1>7. \A i \in 1 .. a + b : i \in 1 .. a \/ (i - a \in 1 .. b /\ g[i].sn = x /\ b > 0)
  <2> SUFFICES ASSUME NEW i \in 1 .. a + b, i \notin 1 .. a
               PROVE  i - a \in 1 .. b /\ g[i].sn = x /\ b > 0
    OBVIOUS
  <2>1. PICK j \in 1 .. b : j = i - a /\ i = a + j
    OBVIOUS
  <2>2. g[a + j] = t[j] /\ t[j].sn = x
    BY <1>3, <1>5, <1>6
  <2> QED
    BY <2>1, <2>2
<1>8. \A i \in 1 .. a : /\ g[i].sn \in SN /\ Dist(vt_a, g[i].sn) < n /\ missing[g[i].sn] # {}
                        /\ Dist(vt_a, g[i].sn) \in Nat
  BY <1>4, <1>5, <1>6, DistNat
<1>9. \A i \in 1 .. a + b : /\ g[i].sn \in SN /\ Dist(vt_a, g[i].sn) < n + 1
                            /\ missing[g[i].sn] # {}
  <2> TAKE i \in 1 .. a + b
  <2>1. CASE i \in 1 .. a
    BY <1>1, <1>8, <2>1
  <2>2. CASE i \notin 1 .. a
    BY <1>1, <1>2, <1>3, <1>5, <1>7, <2>2
  <2> QED
    BY <2>1, <2>2
<1>10. ASSUME NEW i \in 1 .. a + b, NEW j \in 1 .. a + b, i <= j
       PROVE  Dist(vt_a, g[i].sn) <= Dist(vt_a, g[j].sn)
  <2>1. CASE j \in 1 .. a
    <3>1. i \in 1 .. a
      BY <1>10, <2>1
    <3> QED
      BY <1>4, <1>5, <1>6, <1>10, <2>1, <3>1
  <2>2. CASE j \notin 1 .. a
    <3>1. Dist(vt_a, g[j].sn) = n
      BY <1>2, <1>7, <2>2
    <3>2. CASE i \in 1 .. a
      BY <1>1, <1>8, <3>1, <3>2
    <3>3. CASE i \notin 1 .. a
      BY <1>1, <1>2, <1>7, <3>1, <3>3
    <3> QED
      BY <3>2, <3>3
  <2> QED
    BY <2>1, <2>2
<1>11. ASSUME NEW sn \in SN, Dist(vt_a, sn) < n + 1, missing[sn] # {}
       PROVE  \E i \in 1 .. a + b : g[i].sn = sn
  <2>1. CASE Dist(vt_a, sn) < n
    <3>1. PICK i \in 1 .. a : f[i].sn = sn
      BY <1>4, <1>5, <1>11, <2>1
    <3>2. i \in 1 .. a + b /\ g[i].sn = sn
      BY <1>6, <3>1
    <3> QED
      BY <3>2
  <2>2. CASE ~(Dist(vt_a, sn) < n)
    <3>1. Dist(vt_a, sn) = n
      BY <1>1, <1>11, <2>2, DistNat
    <3>2. sn = x
      BY <1>2, <3>1, PlusDist
    <3>3. b > 0
      BY <1>3, <1>5, <1>11, <3>2
    <3>4. a + 1 \in 1 .. a + b /\ 1 \in 1 .. b
      BY <3>3
    <3>5. g[a + 1].sn = x
      BY <1>3, <1>5, <1>6, <3>4
    <3> QED
      BY <3>2, <3>4, <3>5
  <2> QED
    BY <2>1, <2>2
<1>12. NacksOf(g, n + 1)
  BY <1>6, <1>9, <1>10, <1>11 DEF NacksOf
<1> QED
  BY <1>2, <1>3, <1>6, <1>12

LEMMA NacksIs ==
  ASSUME MissingFields, vt_a \in SN, NEW d \in 0 .. SnModulo
  PROVE  NacksOf(Nacks(d), d)
<1> DEFINE q == [k \in 1 .. d |-> Runs(Plus(vt_a, k - 1))]
<1>1. d \in Nat /\ SnModulo \in Nat
  BY TxSnFacts
<1>2. IsSeq(q) /\ Len(q) = d
  BY <1>1, FunctionIsSeq
<1>3. Nacks(d) = FlattenSeq(q)
  BY DEF Nacks
<1>4. \A k \in 1 .. d : q[k] = Runs(Plus(vt_a, k - 1))
  OBVIOUS
<1> HIDE DEF q
<1>5. CASE d = 0
  <2>1. FlattenSeq(q) = q
    BY <1>2, <1>5 DEF FlattenSeq
  <2> QED
    BY <1>2, <1>3, <1>5, <2>1, NoNacks
<1>6. CASE d > 0
  <2>1. PICK F : FlattenTrace(F, q)
    BY <1>1, <1>2, <1>6, FlattenSeqTrace
  <2>2. F[1] = q[1] /\ (\A i \in 2 .. d : F[i] = F[i - 1] \o q[i]) /\ Nacks(d) = F[d]
    BY <1>2, <1>3, <2>1 DEF FlattenTrace
  <2> DEFINE K == {n \in Nat : n = 0 \/ NacksOf(F[n], n)}
  <2>3. 0 \in K
    OBVIOUS
  <2>4. ASSUME NEW n \in 0 .. d - 1, n \in K PROVE n + 1 \in K
    <3>1. n \in Nat /\ n + 1 \in Nat /\ n \in 0 .. SnModulo - 1 /\ n + 1 \in 1 .. d
      BY <1>1
    <3>2. q[n + 1] = Runs(Plus(vt_a, n))
      BY <1>4, <3>1
    <3>3. CASE n = 0
      <4>1. NacksOf(<<>>, 0)
        <5>1. IsSeq(<<>>) /\ Len(<<>>) = 0
          BY DEF IsSeq
        <5> QED
          BY <5>1, NoNacks
      <4>2. NacksOf(<<>> \o Runs(Plus(vt_a, n)), n + 1)
        BY <3>1, <3>3, <4>1, MoreNacks
      <4>3. <<>> \o Runs(Plus(vt_a, n)) = Runs(Plus(vt_a, n))
        <5>1. Plus(vt_a, n) \in SN
          BY <3>1, PlusIs, TxSnFacts
        <5>2. PICK t, S : t = Runs(Plus(vt_a, n)) /\ t \in Seq(S)
          BY <5>1, RunsIs, SeqOfElements
        <5> QED
          BY <5>2
      <4>4. F[n + 1] = Runs(Plus(vt_a, n))
        BY <2>2, <3>2, <3>3
      <4> QED
        BY <3>1, <4>2, <4>3, <4>4
    <3>4. CASE n # 0
      <4>1. F[n + 1] = F[n] \o Runs(Plus(vt_a, n))
        <5>1. n + 1 \in 2 .. d /\ (n + 1) - 1 = n
          BY <3>1, <3>4
        <5> QED
          BY <2>2, <3>2, <5>1
      <4>2. NacksOf(F[n], n)
        BY <2>4, <3>4
      <4>3. NacksOf(F[n] \o Runs(Plus(vt_a, n)), n + 1)
        BY <3>1, <4>2, MoreNacks
      <4> QED
        BY <3>1, <4>1, <4>3
    <3> QED
      BY <3>3, <3>4
  <2> HIDE DEF K
  <2>5. d \in K
    BY <1>1, <2>3, <2>4, InductionUpTo
  <2> QED
    BY <1>6, <2>2, <2>5 DEF K
<1> QED
  BY <1>1, <1>5, <1>6

-----------------------------------------------------------------------------
(* All reports on their way.                                                *)

\* Of the SNs in A and in B, those that are acknowledged and those that the report in
\* process will acknowledge, no report speaks against one; nor does a report against
\* one that an earlier report acknowledges.
ReportsSound(a, s, m, A, B, rs) ==
  /\ IsSeq(rs)
  /\ \A q \in 1 .. Len(rs) :
       /\ ReportSound(a, s, m, rs[q]) /\ Spared(a, A, rs[q]) /\ Spared(a, B, rs[q])
       /\ \A p \in 1 .. q - 1 : Spared(a, AckedBy(a, rs[p]), rs[q])

AckedSns == {sn \in SN : slots[sn].ack}
Acking == IF ctrl.on THEN Outstanding \cap ToAck(ctrl) ELSE {}

LinkFields ==
  /\ MissingFields /\ AckedIsReceived
  /\ ctrl.on => CtrlSound(missing, ctrl)
  /\ \A sn \in Outstanding : slots[sn].size \in Nat /\ slots[sn].size > 0
  /\ ReportsSound(vt_a, vt_s, missing, AckedSns, Acking, reports)

LEMMA SparedUnion ==
  ASSUME NEW a, NEW A, NEW B, NEW r, Spared(a, A, r), Spared(a, B, r), NEW C, C \subseteq A \cup B
  PROVE  Spared(a, C, r)
BY DEF Spared

LEMMA SparedNone == \A a, r : Spared(a, {}, r)
BY DEF Spared

\* The peer gets more, and fewer SNs matter.
LEMMA ReportsKept ==
  ASSUME NEW a, NEW s, NEW m, NEW A, NEW B, NEW rs, ReportsSound(a, s, m, A, B, rs),
         NEW n, \A sn \in SN : n[sn] # {} => m[sn] # {},
         NEW C, C \subseteq A \cup B, NEW D, D \subseteq A \cup B
  PROVE  ReportsSound(a, s, n, C, D, rs)
<1>1. IsSeq(rs)
  BY DEF ReportsSound
<1>2. ASSUME NEW q \in 1 .. Len(rs)
      PROVE  /\ ReportSound(a, s, n, rs[q]) /\ Spared(a, C, rs[q]) /\ Spared(a, D, rs[q])
             /\ \A p \in 1 .. q - 1 : Spared(a, AckedBy(a, rs[p]), rs[q])
  <2>1. PICK r : r = rs[q]
    OBVIOUS
  <2>2. /\ ReportSound(a, s, m, r) /\ Spared(a, A, r) /\ Spared(a, B, r)
        /\ \A p \in 1 .. q - 1 : Spared(a, AckedBy(a, rs[p]), r)
    BY <2>1 DEF ReportsSound
  <2>3. ReportSound(a, s, n, r)
    BY <2>2 DEF ReportSound
  <2>4. Spared(a, C, r) /\ Spared(a, D, r)
    BY <2>2, SparedUnion
  <2> QED
    BY <2>1, <2>2, <2>3, <2>4
<1> QED
  BY <1>1, <1>2 DEF ReportsSound

\* VT(A) moves over SNs that no report speaks against.
LEMMA ReportsMoved ==
  ASSUME NEW a, NEW b, NEW k, NEW s, Moves(a, b, k, s), NEW m, NEW A, NEW B, NEW rs,
         ReportsSound(a, s, m, A, B, rs), Passed(a, k) \subseteq A \cup B,
         NEW C, C \subseteq A \cup B, C \subseteq SN, \A sn \in C : k <= Dist(a, sn),
         NEW D, D \subseteq A \cup B, D \subseteq SN, \A sn \in D : k <= Dist(a, sn)
  PROVE  ReportsSound(b, s, m, C, D, rs)
<1>1. IsSeq(rs) /\ Len(rs) \in Nat
  BY DEF ReportsSound, IsSeq
<1>2. ASSUME NEW q \in 1 .. Len(rs)
      PROVE  ReportSound(a, s, m, rs[q]) /\ Spared(a, Passed(a, k), rs[q])
  <2>1. ReportSound(a, s, m, rs[q]) /\ Spared(a, A, rs[q]) /\ Spared(a, B, rs[q])
    BY DEF ReportsSound
  <2> QED
    BY <2>1, SparedUnion
<1>3. ASSUME NEW q \in 1 .. Len(rs)
      PROVE  /\ ReportSound(b, s, m, rs[q]) /\ Spared(b, C, rs[q]) /\ Spared(b, D, rs[q])
             /\ \A p \in 1 .. q - 1 : Spared(b, AckedBy(b, rs[p]), rs[q])
  <2>1. PICK r : r = rs[q]
    OBVIOUS
  <2>2. /\ ReportSound(a, s, m, r) /\ Spared(a, Passed(a, k), r)
        /\ \A p \in 1 .. q - 1 : Spared(a, AckedBy(a, rs[p]), r)
    BY <1>2, <2>1 DEF ReportsSound
  <2>3. Spared(a, C, r) /\ Spared(a, D, r)
    <3>1. Spared(a, A, r) /\ Spared(a, B, r)
      BY <2>1 DEF ReportsSound
    <3> QED
      BY <3>1, SparedUnion
  <2>4. ReportSound(b, s, m, r)
    BY <2>2, ReportMoved
  <2>5. Spared(b, C, r) /\ Spared(b, D, r)
    BY <2>2, <2>3, SparedMoved
  <2>6. ASSUME NEW p \in 1 .. q - 1 PROVE Spared(b, AckedBy(b, rs[p]), r)
    <3>1. p \in 1 .. Len(rs)
      BY <1>1
    <3>2. PICK t : t = rs[p] /\ ReportSound(a, s, m, t) /\ Spared(a, Passed(a, k), t)
      BY <1>2, <3>1
    <3>3. /\ AckedBy(b, t) \subseteq AckedBy(a, t) /\ AckedBy(b, t) \subseteq SN
          /\ \A sn \in AckedBy(b, t) : k <= Dist(a, sn)
      BY <3>2, AckedByMoved
    <3>4. Spared(a, AckedBy(a, t), r)
      BY <2>2, <3>2
    <3>5. Spared(b, AckedBy(b, t), r)
      BY <2>2, <3>3, <3>4, SparedMoved
    <3> QED
      BY <3>2, <3>5
  <2> QED
    BY <2>1, <2>4, <2>5, <2>6
<1> QED
  BY <1>1, <1>3 DEF ReportsSound

\* The first report is taken from the link; D is what it will acknowledge, or nothing.
LEMMA ReportsTail ==
  ASSUME NEW a, NEW s, NEW m, NEW A, NEW B, NEW rs, ReportsSound(a, s, m, A, B, rs), rs # <<>>,
         NEW D, D \subseteq AckedBy(a, rs[1])
  PROVE  ReportsSound(a, s, m, A, D, Tail(rs))
<1>1. IsSeq(rs) /\ Len(rs) \in Nat
  BY DEF ReportsSound, IsSeq
<1>2. PICK t : /\ t = Tail(rs) /\ IsSeq(t) /\ Len(t) = Len(rs) - 1 /\ Len(rs) > 0
               /\ \A i \in 1 .. Len(rs) - 1 : t[i] = rs[i + 1]
  <2>1. /\ IsSeq(Tail(rs)) /\ Len(Tail(rs)) = Len(rs) - 1 /\ Len(rs) > 0
        /\ \A i \in 1 .. Len(rs) - 1 : Tail(rs)[i] = rs[i + 1]
    BY <1>1, TailIs
  <2> QED
    BY <2>1
<1>3. ASSUME NEW q \in 1 .. Len(t)
      PROVE  /\ ReportSound(a, s, m, t[q]) /\ Spared(a, A, t[q]) /\ Spared(a, D, t[q])
             /\ \A p \in 1 .. q - 1 : Spared(a, AckedBy(a, t[p]), t[q])
  <2>1. PICK u \in 1 .. Len(rs) : u = q + 1 /\ t[q] = rs[u]
    BY <1>1, <1>2
  <2>2. /\ ReportSound(a, s, m, rs[u]) /\ Spared(a, A, rs[u])
        /\ \A p \in 1 .. u - 1 : Spared(a, AckedBy(a, rs[p]), rs[u])
    BY DEF ReportsSound
  <2>3. Spared(a, AckedBy(a, rs[1]), rs[u])
    <3>1. 1 \in 1 .. u - 1
      BY <2>1
    <3> QED
      BY <2>2, <3>1
  <2>4. Spared(a, D, rs[u])
    BY <2>3 DEF Spared
  <2>5. ASSUME NEW p \in 1 .. q - 1 PROVE Spared(a, AckedBy(a, t[p]), rs[u])
    <3>1. p + 1 \in 1 .. u - 1 /\ t[p] = rs[p + 1]
      BY <1>1, <1>2, <2>1
    <3> QED
      BY <2>2, <3>1
  <2> QED
    BY <2>1, <2>2, <2>4, <2>5
<1> QED
  BY <1>2, <1>3 DEF ReportsSound

\* A report is sent.
LEMMA ReportsMore ==
  ASSUME NEW a, NEW s, NEW m, NEW A, NEW rs, ReportsSound(a, s, m, A, {}, rs),
         NEW r, ReportSound(a, s, m, r), Spared(a, A, r),
         \A p \in 1 .. Len(rs) : Spared(a, AckedBy(a, rs[p]), r)
  PROVE  ReportsSound(a, s, m, A, {}, Append(rs, r))
<1>1. IsSeq(rs) /\ Len(rs) \in Nat
  BY DEF ReportsSound, IsSeq
<1>2. PICK t : /\ t = Append(rs, r) /\ IsSeq(t) /\ Len(t) = Len(rs) + 1
               /\ (\A i \in 1 .. Len(rs) : t[i] = rs[i]) /\ t[Len(rs) + 1] = r
  <2>1. /\ IsSeq(Append(rs, r)) /\ Len(Append(rs, r)) = Len(rs) + 1
        /\ \A i \in 1 .. Len(rs) : Append(rs, r)[i] = rs[i]
        /\ Append(rs, r)[Len(rs) + 1] = r
    BY <1>1, AppendIs
  <2> QED
    BY <2>1
<1>3. ASSUME NEW q \in 1 .. Len(t)
      PROVE  /\ ReportSound(a, s, m, t[q]) /\ Spared(a, A, t[q]) /\ Spared(a, {}, t[q])
             /\ \A p \in 1 .. q - 1 : Spared(a, AckedBy(a, t[p]), t[q])
  <2>1. \A p \in 1 .. q - 1 : p \in 1 .. Len(rs) /\ t[p] = rs[p]
    BY <1>1, <1>2
  <2>2. CASE q \in 1 .. Len(rs)
    BY <1>2, <2>1, <2>2 DEF ReportsSound
  <2>3. CASE q \notin 1 .. Len(rs)
    <3>1. q = Len(rs) + 1
      BY <1>1, <1>2, <2>3
    <3> QED
      BY <1>2, <2>1, <3>1, SparedNone
  <2> QED
    BY <2>2, <2>3
<1> QED
  BY <1>2, <1>3 DEF ReportsSound

\* A new PDU is sent, of which no report speaks.
LEMMA ReportsGrown ==
  ASSUME NEW a \in SN, NEW s \in SN, NEW m, NEW A, NEW rs, ReportsSound(a, s, m, A, {}, rs),
         NEW z \in SN, Dist(a, z) = Dist(a, s) + 1,
         NEW n, \A sn \in SN : sn # s => n[sn] = m[sn]
  PROVE  ReportsSound(a, z, n, A, {}, rs)
<1>1. IsSeq(rs)
  BY DEF ReportsSound
<1>2. ASSUME NEW q \in 1 .. Len(rs)
      PROVE  ReportSound(a, z, n, rs[q])
  <2>1. PICK r : r = rs[q] /\ ReportSound(a, s, m, r)
    BY DEF ReportsSound
  <2>2. PICK e \in Nat, d \in Nat : e = Reach(a, r) /\ d = Dist(a, s)
    <3>1. Plus(r.ack, 1) \in SN
      BY <2>1, DistNext DEF ReportSound, ReportFields
    <3> QED
      BY <3>1, DistNat DEF Reach
  <2>3. /\ ReportFields(r) /\ e <= d + 1
        /\ \A sn \in SN : Dist(a, sn) + 1 < e /\ m[sn] # {} => sn \in NackedBy(r)
        /\ \A i \in 1 .. Len(r.nacks) : Dist(a, r.nacks[i].sn) + 1 < e
        /\ \A i, j \in 1 .. Len(r.nacks) :
             i <= j => Dist(a, r.nacks[i].sn) <= Dist(a, r.nacks[j].sn)
    BY <2>1, <2>2 DEF ReportSound
  <2>4. ~(d + 1 < e) /\ e <= (d + 1) + 1
    BY <2>2, <2>3
  <2>5. \A sn \in SN : Dist(a, sn) + 1 < e /\ n[sn] # {} => sn \in NackedBy(r)
    BY <2>2, <2>3, <2>4
  <2>6. e <= Dist(a, z) + 1
    BY <2>2, <2>4
  <2>7. ReportSound(a, z, n, r)
    BY <2>2, <2>3, <2>5, <2>6 DEF ReportSound
  <2> QED
    BY <2>1, <2>7
<1> QED
  BY <1>1, <1>2 DEF ReportsSound

-----------------------------------------------------------------------------
(* Steps that acknowledge nothing.                                          *)

\* What the repetition and the NACK of a PDU leave of it.
SlotsKept ==
  \A sn \in SN : /\ slots'[sn].mem = slots[sn].mem /\ slots'[sn].ack = slots[sn].ack
                 /\ SamePayload(slots'[sn], slots[sn])

LEMMA OneSlotKept ==
  ASSUME TxInvariant, NEW sn \in SN, NEW p, p.mem = slots[sn].mem, p.ack = slots[sn].ack,
         SamePayload(p, slots[sn]), slots' = [slots EXCEPT ![sn] = p]
  PROVE  SlotsKept
<1>1. slots = [t \in SN |-> slots[t]]
  BY DEF TxInvariant, TxFields, SlotsShape
<1>2. \A t \in SN : slots'[t] = IF t = sn THEN p ELSE slots[t]
  BY <1>1
<1> QED
  BY <1>2 DEF SlotsKept, SamePayload

\* A PDU is repeated, and a PDU is NACKed: what becomes of its slot.
RepeatDone(sn) ==
  /\ slots[sn].retx >= 0 /\ UNCHANGED <<vt_a, num_pdus, to_retransmit, sdu_vars>>
  /\ \E p : /\ slots' = [slots EXCEPT ![sn] = p] /\ p.mem = slots[sn].mem
             /\ p.ack = slots[sn].ack /\ SamePayload(p, slots[sn])
             /\ p.retx \in {slots[sn].retx, More(slots[sn].retx)}
NackDone(sn) ==
  /\ NackCounters(sn) /\ NackSdus(sn) /\ UNCHANGED vt_a
  /\ \E p : /\ slots' = [slots EXCEPT ![sn] = p] /\ p.mem = slots[sn].mem
             /\ p.ack = slots[sn].ack /\ SamePayload(p, slots[sn])
             /\ p.retx = More(slots[sn].retx)

LEMMA DoneKeeps ==
  ASSUME TxInvariant, NEW sn \in SN, RepeatDone(sn) \/ NackDone(sn)
  PROVE  SlotsKept /\ vt_a' = vt_a
BY OneSlotKept DEF RepeatDone, NackDone

LEMMA RepeatIs ==
  ASSUME TxInvariant, NEW g, RetransmitWhole(g) \/ RetransmitSegment(g)
  PROVE  first_retrans \in Held /\ RepeatDone(first_retrans)
<1>1. CASE RetransmitWhole(g)
  <2> DEFINE sn == first_retrans
             m  == More(slots[sn].retx)
  <2>1. sn \in SN /\ sn \in Held /\ slots[sn].retx >= 0
    BY <1>1, RetransmitsHeld DEF RetransmitWhole, FitsWhole, Retransmits
  <2>2. /\ slots' = [slots EXCEPT ![sn].retransmit = FALSE, ![sn].retx = More(@)]
        /\ UNCHANGED <<vt_a, num_pdus, to_retransmit, sdu_vars>>
    BY <1>1 DEF RetransmitWhole, retrans_vars
  <2>3. slots = [t \in SN |-> slots[t]] /\ PduShape(slots[sn])
    BY <2>1 DEF TxInvariant, TxFields, SlotsShape
  <2>4. PICK p : p = [slots[sn] EXCEPT !.retransmit = FALSE, !.retx = m]
    OBVIOUS
  <2>5. slots' = [slots EXCEPT ![sn] = p]
    BY <2>1, <2>2, <2>3, <2>4 DEF PduShape
  <2> HIDE DEF m
  <2>6. p.mem = slots[sn].mem /\ p.ack = slots[sn].ack /\ SamePayload(p, slots[sn]) /\ p.retx = m
    BY <2>3, <2>4 DEF PduShape, SamePayload
  <2> QED
    BY <2>1, <2>2, <2>5, <2>6 DEF RepeatDone, m
<1>2. CASE RetransmitSegment(g)
  <2> DEFINE sn == first_retrans
  <2>1. sn \in SN /\ sn \in Held /\ slots[sn].retx >= 0
    BY <1>2, RetransmitsHeld DEF RetransmitSegment, FitsSegment, Retransmits
  <2>2. PICK p : p = Subsegment(slots[sn], g)
    OBVIOUS
  <2>3. /\ slots' = [slots EXCEPT ![sn] = p]
        /\ UNCHANGED <<vt_a, num_pdus, to_retransmit, sdu_vars>>
    BY <1>2, <2>2 DEF RetransmitSegment
  <2>4. /\ p.mem = slots[sn].mem /\ p.ack = slots[sn].ack /\ SamePayload(p, slots[sn])
        /\ p.retx = slots[sn].retx
    BY <2>1, <2>2, FlagsOfSlot, SubsegmentShape
  <2> QED
    BY <2>1, <2>3, <2>4 DEF RepeatDone
<1> QED
  BY <1>1, <1>2

LEMMA AnyIs ==
  ASSUME TxInvariant, NEW g, RetransmitAny(g)
  PROVE  \E sn \in Held : NackDone(sn)
<1> DEFINE fit == {sn \in Held : PduBytes(slots[sn]) <= g}
           S   == IF fit # {} THEN fit ELSE Held
<1>1. PICK sn, p : /\ sn = LastOf(S) /\ p = Nacked(sn, TRUE, 0, SoEnd)
                   /\ \/ slots' = [slots EXCEPT ![sn] = [p EXCEPT !.retransmit = FALSE]]
                      \/ slots' = [slots EXCEPT ![sn] = Subsegment(p, g)]
                   /\ Held # {} /\ NackCounters(sn) /\ NackSdus(sn) /\ vt_a' = vt_a
  BY DEF RetransmitAny
<1>2. Held \subseteq SN
  BY DEF Held, Outstanding
<1>3. S \subseteq SN /\ S \subseteq Held /\ S # {}
  BY <1>1, <1>2
<1>4. sn \in SN /\ sn \in Held
  BY <1>1, <1>3, LastOfIn DEF TxInvariant, TxFields
<1> HIDE DEF S
<1>5. /\ PduShape(p) /\ p.mem = slots[sn].mem /\ p.ack = slots[sn].ack
      /\ SamePayload(p, slots[sn]) /\ p.retx = More(slots[sn].retx)
  <2>1. PduShape(slots[sn])
    BY <1>4, FlagsOfSlot
  <2>2. PICK r : /\ r = Nacked(sn, TRUE, 0, SoEnd)
                 /\ PduShape(r) /\ r.mem = slots[sn].mem /\ r.ack = slots[sn].ack
                 /\ SamePayload(r, slots[sn]) /\ r.retx = More(slots[sn].retx)
    BY <2>1, NackedShape
  <2>3. p = r
    BY <1>1, <2>2
  <2> QED
    BY <2>2, <2>3
<1>6. CASE slots' = [slots EXCEPT ![sn] = Subsegment(p, g)]
  <2>1. PICK q : /\ q = Subsegment(p, g) /\ q.mem = p.mem /\ q.ack = p.ack
                 /\ SamePayload(q, p) /\ q.retx = p.retx
    BY <1>5, SubsegmentShape
  <2>2. SamePayload(q, slots[sn])
    BY <1>5, <2>1 DEF SamePayload
  <2>3. slots' = [slots EXCEPT ![sn] = q]
    BY <1>6, <2>1
  <2>4. NackDone(sn)
    BY <1>1, <1>5, <2>1, <2>2, <2>3 DEF NackDone
  <2> QED
    BY <1>4, <2>4
<1>7. CASE slots' = [slots EXCEPT ![sn] = [p EXCEPT !.retransmit = FALSE]]
  <2>1. PICK q : q = [p EXCEPT !.retransmit = FALSE]
    OBVIOUS
  <2>2. q.mem = p.mem /\ q.ack = p.ack /\ SamePayload(q, p) /\ q.retx = p.retx
    BY <1>5, <2>1 DEF PduShape, SamePayload
  <2>3. SamePayload(q, slots[sn])
    BY <1>5, <2>2 DEF SamePayload
  <2>4. slots' = [slots EXCEPT ![sn] = q]
    BY <1>7, <2>1
  <2>5. NackDone(sn)
    BY <1>1, <1>5, <2>2, <2>3, <2>4 DEF NackDone
  <2> QED
    BY <1>4, <2>5
<1> QED
  BY <1>1, <1>6, <1>7

LEMMA NackPduIs ==
  ASSUME TxInvariant, NEW c \in SN, NEW first, NEW start, NEW stop,
         NackPdu(c, first, start, stop)
  PROVE  \/ c \in Held /\ NackDone(c)
         \/ UNCHANGED <<slots, vt_a, retrans_vars, sdu_vars>>
<1>1. CASE ~slots[c].mem
  BY <1>1 DEF NackPdu
<1>2. CASE slots[c].mem
  <2>1. PICK p : p = Nacked(c, first, start, stop)
    OBVIOUS
  <2>2. /\ slots' = [slots EXCEPT ![c] = p] /\ vt_a' = vt_a /\ NackCounters(c) /\ NackSdus(c)
    BY <1>2, <2>1 DEF NackPdu
  <2>3. /\ p.mem = slots[c].mem /\ p.ack = slots[c].ack /\ SamePayload(p, slots[c])
        /\ p.retx = More(slots[c].retx)
    BY <2>1, FlagsOfSlot, NackedShape
  <2> QED
    BY <1>2, <2>2, <2>3, FlagsOfSlot DEF NackDone
<1> QED
  BY <1>1, <1>2

LEMMA RepeatKeeps ==
  ASSUME TxInvariant, NEW g, RetransmitWhole(g) \/ RetransmitSegment(g) \/ RetransmitAny(g)
  PROVE  SlotsKept
<1>1. Held \subseteq SN
  BY DEF Held, Outstanding
<1> QED
  BY <1>1, RepeatIs, AnyIs, DoneKeeps

LEMMA SameSlotsKept == slots' = slots => SlotsKept
BY DEF SlotsKept, SamePayload

LEMMA NackKeeps ==
  ASSUME TxInvariant, NEW c \in SN, NEW first, NEW start, NEW stop,
         NackPdu(c, first, start, stop)
  PROVE  SlotsKept /\ vt_a' = vt_a
BY NackPduIs, DoneKeeps, SameSlotsKept

\* The sender's window stands still while the peer gets more.
LEMMA LinkQuiet ==
  ASSUME TxInvariant, LinkFields, ~ctrl.on, UNCHANGED <<ctrl, vt_a, vt_s, reports>>, SlotsKept,
         MissingFields', \A sn \in SN : missing'[sn] \subseteq missing[sn]
  PROVE  LinkFields'
<1>1. Outstanding' = Outstanding /\ AckedSns' = AckedSns /\ Acking' = {} /\ Acking = {}
  BY DEF Outstanding, SlotsKept, AckedSns, Acking
<1>2. AckedIsReceived'
  BY DEF LinkFields, AckedIsReceived, SlotsKept
<1>3. \A sn \in Outstanding' : slots'[sn].size \in Nat /\ slots'[sn].size > 0
  <2>1. Outstanding \subseteq SN
    BY DEF Outstanding
  <2> QED
    BY <1>1, <2>1 DEF LinkFields, SlotsKept, SamePayload
<1>4. ReportsSound(vt_a, vt_s, missing', AckedSns, {}, reports)
  <2>1. ReportsSound(vt_a, vt_s, missing, AckedSns, {}, reports)
    BY <1>1 DEF LinkFields
  <2>2. \A sn \in SN : missing'[sn] # {} => missing[sn] # {}
    OBVIOUS
  <2> QED
    BY <2>1, <2>2, ReportsKept
<1>5. ReportsSound(vt_a, vt_s, missing, AckedSns, Acking, reports)'
  BY <1>1, <1>4
<1> QED
  BY <1>2, <1>3, <1>5 DEF LinkFields

\* The peer is left alone.
LEMMA PeerQuiet ==
  ASSUME TxInvariant, LinkFields, ~ctrl.on, UNCHANGED <<ctrl, vt_a, vt_s, reports, missing>>,
         SlotsKept
  PROVE  LinkFields'
<1>1. MissingFields'
  BY DEF LinkFields, MissingFields
<1> QED
  BY <1>1, LinkQuiet

LEMMA LoseReportLink ==
  ASSUME TxInvariant, LinkFields, LoseReport
  PROVE  LinkFields'
<1>1. /\ ~ctrl.on /\ reports # <<>> /\ reports' = Tail(reports) /\ missing' = missing
      /\ UNCHANGED <<ctrl, vt_a, vt_s, slots>>
  BY DEF LoseReport, tx_vars
<1>2. Outstanding' = Outstanding /\ AckedSns' = AckedSns /\ Acking' = {}
  BY <1>1 DEF Outstanding, AckedSns, Acking
<1>3. ReportsSound(vt_a, vt_s, missing, AckedSns, {}, Tail(reports))
  BY <1>1, ReportsTail DEF LinkFields
<1>4. ReportsSound(vt_a, vt_s, missing, AckedSns, Acking, reports)'
  BY <1>1, <1>2, <1>3
<1> QED
  BY <1>1, <1>2, <1>4 DEF LinkFields, MissingFields, AckedIsReceived

\* A report that is not ignored ends before VT(S), and speaks of what it acknowledges.
LEMMA DeliverReportLink ==
  ASSUME TxInvariant, LinkFields, DeliverReport, ~Reordering, WindowSize >= 2
  PROVE  LinkFields'
<1>1. /\ ~ctrl.on /\ reports # <<>> /\ reports' = Tail(reports) /\ missing' = missing
      /\ UNCHANGED <<vt_a, vt_s, slots>> /\ ReceiveStatus(reports[1])
  <2>1. IsSeq(reports)
    BY DEF LinkFields, ReportsSound
  <2>2. PICK i \in DOMAIN reports : i = 1 /\ ReceiveStatus(reports[i])
                                    /\ reports' = RemoveAt(reports, i)
    BY DEF DeliverReport
  <2>3. reports # <<>>
    BY <2>2
  <2> QED
    BY <2>1, <2>2, <2>3, RemoveFirstIs DEF DeliverReport, ReceiveStatus
<1>2. PICK r : /\ r = reports[1] /\ ReportSound(vt_a, vt_s, missing, r)
  <2>1. 1 \in 1 .. Len(reports)
    BY <1>1, TailIs DEF LinkFields, ReportsSound, IsSeq
  <2> QED
    BY <2>1 DEF LinkFields, ReportsSound
<1>3. vt_a \in SN /\ vt_s \in SN /\ Dist(vt_a, vt_s) <= WindowSize /\ Dist(vt_a, vt_s) \in Nat
  BY DistNat DEF TxInvariant, TxFields, WindowHolds
<1>4. Outstanding' = Outstanding /\ AckedSns' = AckedSns
  BY <1>1 DEF Outstanding, AckedSns
<1>5. ReportFields(r) /\ r.ack \in SN
  BY <1>2 DEF ReportSound, ReportFields
<1>6. ASSUME ctrl'.on
      PROVE  CtrlSound(missing, ctrl') /\ Acking' \subseteq AckedBy(vt_a, r)
  <2>1. InTxWindow(r.ack) /\ r.ack # vt_a /\
        ctrl' = [on |-> TRUE, ack |-> r.ack, nacks |-> r.nacks, i |-> 1, cursor |-> vt_a]
    BY <1>1, <1>2, <1>6 DEF ReceiveStatus, Idle
  <2>2. /\ ctrl'.ack = r.ack /\ ctrl'.nacks = r.nacks /\ ctrl'.i = 1 /\ ctrl'.cursor = vt_a
    BY <2>1
  <2>3. PICK d \in Nat : /\ d = Dist(vt_a, r.ack) /\ d + 1 = Reach(vt_a, r)
    <3>1. PICK d \in Nat : d = Dist(vt_a, r.ack) /\ d < SnModulo
      BY <1>3, <1>5, DistNat
    <3>2. Dist(vt_a, VtMs) = WindowSize
      <4>1. WindowSize \in 0 .. SnModulo - 1
        BY TxSnFacts
      <4> QED
        BY <1>3, <4>1, PlusDist DEF VtMs
    <3>3. d < WindowSize
      BY <2>1, <3>1, <3>2 DEF InTxWindow
    <3>4. Reach(vt_a, r) = IF d + 1 = SnModulo THEN 0 ELSE d + 1
      BY <1>3, <1>5, <3>1, DistNext DEF Reach
    <3>5. Reach(vt_a, r) = d + 1
      BY <3>1, <3>3, <3>4, TxSnFacts
    <3> QED
      BY <3>1, <3>5
  <2>4. /\ \A sn \in SN : Dist(vt_a, sn) + 1 < d + 1 /\ missing[sn] # {} => sn \in NackedBy(r)
        /\ \A i \in 1 .. Len(r.nacks) : Dist(vt_a, r.nacks[i].sn) + 1 < d + 1
        /\ \A i, j \in 1 .. Len(r.nacks) :
             i <= j => Dist(vt_a, r.nacks[i].sn) <= Dist(vt_a, r.nacks[j].sn)
        /\ IsSeq(r.nacks) /\ \A i \in 1 .. Len(r.nacks) : r.nacks[i].sn \in SN
    BY <1>2, <2>3 DEF ReportSound, ReportFields
  <2>5. \A sn \in SN : Dist(vt_a, sn) \in Nat /\ (Dist(vt_a, sn) + 1 < d + 1 <=> Dist(vt_a, sn) < d)
    BY <1>3, DistNat
  <2>6. Remaining(ctrl') = NackedBy(r)
    BY <2>2 DEF Remaining, NackedBy
  <2>7. CtrlFields(ctrl')
    <3>1. Len(r.nacks) \in Nat
      BY <2>4 DEF IsSeq
    <3> QED
      BY <1>3, <1>5, <2>1, <2>2, <2>4, <3>1 DEF CtrlFields
  <2>8. CtrlSound(missing, ctrl')
    <3>1. \A sn \in SN : Dist(vt_a, sn) < d /\ missing[sn] # {} => sn \in Remaining(ctrl')
      BY <2>4, <2>5, <2>6
    <3>2. \A i \in 1 .. Len(r.nacks) : Dist(vt_a, r.nacks[i].sn) < d
      BY <2>4, <2>5
    <3> QED
      BY <2>2, <2>3, <2>4, <2>7, <3>1, <3>2 DEF CtrlSound
  <2>9. Acking' \subseteq AckedBy(vt_a, r)
    <3>1. Acking' \subseteq ToAck(ctrl')
      BY DEF Acking
    <3>2. ToAck(ctrl') = {sn \in SN : Dist(vt_a, sn) < d} \ NackedBy(r)
      BY <2>2, <2>3, <2>6 DEF ToAck
    <3> QED
      BY <2>3, <2>5, <3>1, <3>2 DEF AckedBy
  <2> QED
    BY <2>8, <2>9
<1>7. Acking' \subseteq AckedBy(vt_a, r)
  BY <1>6 DEF Acking
<1>8. ReportsSound(vt_a, vt_s, missing, AckedSns, Acking', Tail(reports))
  BY <1>1, <1>2, <1>7, ReportsTail DEF LinkFields
<1>9. ReportsSound(vt_a, vt_s, missing, AckedSns, Acking, reports)'
  BY <1>1, <1>4, <1>8
<1>10. (ctrl.on => CtrlSound(missing, ctrl))'
  BY <1>1, <1>6
<1> QED
  BY <1>1, <1>4, <1>9, <1>10 DEF LinkFields, MissingFields, AckedIsReceived

-----------------------------------------------------------------------------
(* A report is sent.                                                        *)

\* A report with ACK_SN at distance d from VT(A) reaches one further; d is -1 for the
\* SN before VT(A).
LEMMA ReachOf ==
  ASSUME vt_a \in SN, WindowSize >= 2, NEW d \in -1 .. WindowSize, NEW r, r.ack = Plus(vt_a, d)
  PROVE  r.ack \in SN /\ Reach(vt_a, r) = d + 1
<1>1. /\ SnModulo \in Nat /\ WindowSize \in Nat /\ WindowSize + 1 < SnModulo
      /\ vt_a \in 0 .. SnModulo - 1
  BY TxSnFacts DEF SN
<1>2. CASE d = -1
  <2>1. PICK x : x = Plus(vt_a, d) /\ x = IF vt_a = 0 THEN SnModulo - 1 ELSE vt_a - 1
    BY <1>1, <1>2 DEF Plus
  <2>2. x \in SN
    BY <1>1, <2>1 DEF SN
  <2>3. Plus(x, 1) = vt_a
    <3>1. 1 \in 0 .. SnModulo
      BY <1>1
    <3> QED
      BY <1>1, <2>1, <2>2, <3>1, PlusIs
  <2> QED
    BY <1>2, <2>1, <2>2, <2>3, DistNat DEF Reach
<1>3. CASE d # -1
  <2>1. d \in 0 .. SnModulo - 1 /\ d \in 0 .. SnModulo /\ d + 1 # SnModulo
    BY <1>1, <1>3
  <2>2. PICK x \in SN : x = Plus(vt_a, d)
    BY <2>1, PlusIs
  <2>3. Dist(vt_a, x) = d
    BY <2>1, <2>2, PlusDist
  <2>4. Dist(vt_a, Plus(x, 1)) = d + 1
    BY <2>1, <2>3, DistNext
  <2> QED
    BY <2>2, <2>4 DEF Reach
<1> QED
  BY <1>2, <1>3

\* A report reaches past all that the peer has got in full.
Covers(d) == \A sn \in Outstanding : missing[sn] = {} => Dist(vt_a, sn) < d + 1

LEMMA TopIs ==
  ASSUME TxInvariant, LinkFields
  PROVE  /\ Top \in -1 .. Dist(vt_a, vt_s) - 1
         /\ \A sn \in Outstanding : missing[sn] = {} => Dist(vt_a, sn) <= Top
         /\ Top >= 0 => Dist(vt_a, Plus(vt_a, Top)) = Top /\ Plus(vt_a, Top) \in SN
<1> DEFINE got == {t \in Outstanding : missing[t] # 0 .. slots[t].size - 1}
           S == {-1} \cup {Dist(vt_a, sn) : sn \in got}
<1>1. vt_a \in SN /\ vt_s \in SN
  BY DEF TxInvariant, TxFields
<1>2. PICK D \in Nat : D = Dist(vt_a, vt_s) /\ D < SnModulo
  BY <1>1, DistNat
<1>3. \A sn \in Outstanding : sn \in SN /\ Dist(vt_a, sn) \in Nat /\ Dist(vt_a, sn) < D
  BY <1>1, <1>2, DistNat DEF Outstanding
<1>4. \A sn \in got : Dist(vt_a, sn) \in Nat /\ Dist(vt_a, sn) < D
  BY <1>3
<1>5. S \subseteq Int /\ S # {} /\ (\A x \in S : x <= D) /\ D \in Int
  <2> HIDE DEF got
  <2> QED
    BY <1>2, <1>4
<1>6. Max(S) \in S /\ \A x \in S : x <= Max(S)
  <2> HIDE DEF S
  <2> QED
    BY <1>5, MaxIsGreatest
<1>7. PICK t : t = Top /\ t \in S /\ \A x \in S : x <= t
  BY <1>6 DEF Top
<1>8. t \in -1 .. D - 1
  <2> HIDE DEF got
  <2> QED
    BY <1>2, <1>4, <1>7
<1>9. ASSUME NEW sn \in Outstanding, missing[sn] = {} PROVE Dist(vt_a, sn) <= t
  <2>1. slots[sn].size \in Nat /\ slots[sn].size > 0
    BY DEF LinkFields
  <2>2. 0 \in 0 .. slots[sn].size - 1
    BY <2>1
  <2>3. Dist(vt_a, sn) \in S
    BY <1>9, <2>2
  <2> QED
    BY <1>7, <2>3
<1>10. t >= 0 => Dist(vt_a, Plus(vt_a, t)) = t /\ Plus(vt_a, t) \in SN
  <2> SUFFICES ASSUME t >= 0 PROVE Dist(vt_a, Plus(vt_a, t)) = t /\ Plus(vt_a, t) \in SN
    OBVIOUS
  <2>1. t \in 0 .. SnModulo - 1 /\ t \in 0 .. SnModulo
    BY <1>2, <1>8, TxSnFacts
  <2> QED
    BY <1>1, <2>1, PlusDist, PlusIs
<1> QED
  BY <1>2, <1>7, <1>8, <1>9, <1>10

LEMMA MaxOfZero ==
  ASSUME NEW x \in Int
  PROVE  Max({0, x}) = IF x < 0 THEN 0 ELSE x
<1> DEFINE S == {0, x}
           b == IF x < 0 THEN 0 ELSE x
<1>1. S \subseteq Int /\ S # {} /\ b \in Int /\ \A y \in S : y <= b
  OBVIOUS
<1>2. b \in S
  OBVIOUS
<1>3. Max(S) \in S /\ \A y \in S : y <= Max(S)
  <2> HIDE DEF S, b
  <2> QED
    BY <1>1, MaxIsGreatest
<1>4. PICK m : m = Max(S) /\ m \in S /\ b <= m
  BY <1>2, <1>3
<1> QED
  BY <1>4

LEMMA ReportIs ==
  ASSUME TxInvariant, LinkFields, WindowSize >= 2, NEW r \in Reports
  PROVE  \E d \in -1 .. Dist(vt_a, vt_s), n \in 0 .. Dist(vt_a, vt_s) :
           /\ n = IF d < 0 THEN 0 ELSE d
           /\ r.ack = Plus(vt_a, d) /\ NacksOf(r.nacks, n) /\ Covers(d)
<1>1. vt_a \in SN /\ vt_s \in SN /\ MissingFields
  BY DEF TxInvariant, TxFields, LinkFields
<1>2. PICK D \in Nat : D = Dist(vt_a, vt_s) /\ D < SnModulo
  BY <1>1, DistNat
<1>3. PICK t \in -1 .. D - 1 :
        /\ t = Top
        /\ \A sn \in Outstanding : missing[sn] = {} => Dist(vt_a, sn) <= t
        /\ t >= 0 => Dist(vt_a, Plus(vt_a, t)) = t /\ Plus(vt_a, t) \in SN
  BY <1>2, TopIs
<1>4. \A sn \in Outstanding : sn \in SN /\ Dist(vt_a, sn) \in Nat
  BY <1>1, DistNat DEF Outstanding
<1>5. \A n \in 0 .. D : NacksOf(Nacks(n), n)
  <2>1. \A n \in 0 .. D : n \in 0 .. SnModulo
    BY <1>2, TxSnFacts
  <2> QED
    BY <1>1, <2>1, NacksIs
<1>6. CASE t = -1
  <2>1. r = [ack |-> vt_a, nacks |-> <<>>]
    BY <1>3, <1>6 DEF Reports
  <2>2. r.ack = vt_a /\ r.nacks = <<>>
    BY <2>1
  <2>3. Plus(vt_a, 0) = vt_a
    BY <1>1, PlusIs, TxSnFacts DEF SN
  <2>4. NacksOf(<<>>, 0)
    <3>1. IsSeq(<<>>) /\ Len(<<>>) = 0
      BY DEF IsSeq
    <3> QED
      BY <1>1, <3>1, NoNacks
  <2>5. Covers(0)
    BY <1>3, <1>4, <1>6 DEF Covers
  <2>6. 0 \in -1 .. D /\ 0 \in 0 .. D /\ 0 = IF 0 < 0 THEN 0 ELSE 0
    BY <1>2
  <2>7. r.ack = Plus(vt_a, 0) /\ NacksOf(r.nacks, 0)
    BY <2>2, <2>3, <2>4
  <2> QED
    BY <1>2, <2>5, <2>6, <2>7
<1>7. CASE t # -1 /\ missing[Plus(vt_a, t)] = {}
  <2>1. r = [ack |-> Plus(vt_a, t + 1), nacks |-> Nacks(t + 1)]
    BY <1>3, <1>7 DEF Reports
  <2>2. PICK d : d = t + 1 /\ d \in 0 .. D
    BY <1>2, <1>3
  <2>3. r.ack = Plus(vt_a, d) /\ r.nacks = Nacks(d)
    BY <2>1, <2>2
  <2>4. Covers(d)
    BY <1>3, <1>4, <2>2 DEF Covers
  <2>5. d \in -1 .. D /\ d = IF d < 0 THEN 0 ELSE d
    BY <2>2
  <2> QED
    BY <1>2, <1>5, <2>2, <2>3, <2>4, <2>5
<1>8. CASE t # -1 /\ missing[Plus(vt_a, t)] # {}
  <2>1. PICK k \in {-1, 0} : r = [ack |-> Plus(vt_a, t + k), nacks |-> Nacks(Max({0, t + k}))]
    BY <1>3, <1>8 DEF Reports
  <2>2. PICK d : d = t + k /\ d \in -1 .. D /\ t <= d + 1
    BY <1>2, <1>3, <1>8
  <2>3. PICK n : n = Max({0, d}) /\ n = (IF d < 0 THEN 0 ELSE d) /\ n \in 0 .. D
    BY <1>2, <2>2, MaxOfZero
  <2>4. r.ack = Plus(vt_a, d) /\ r.nacks = Nacks(n)
    BY <2>1, <2>2, <2>3
  <2>5. ASSUME NEW sn \in Outstanding, missing[sn] = {} PROVE Dist(vt_a, sn) < d + 1
    <3>1. PICK x \in Nat : x = Dist(vt_a, sn) /\ x <= t
      BY <1>3, <1>4, <2>5
    <3>2. x # t
      <4> SUFFICES ASSUME x = t PROVE FALSE
        OBVIOUS
      <4>1. sn = Plus(vt_a, t)
        BY <1>1, <1>4, <3>1, PlusDist
      <4> QED
        BY <1>8, <2>5, <4>1
    <3> QED
      BY <1>3, <2>2, <3>1, <3>2
  <2>6. Covers(d)
    BY <2>5 DEF Covers
  <2> QED
    BY <1>2, <1>5, <2>2, <2>3, <2>4, <2>6
<1> QED
  BY <1>6, <1>7, <1>8

LEMMA ReportLink ==
  ASSUME TxInvariant, LinkFields, Report, WindowSize >= 2
  PROVE  LinkFields'
<1>1. PICK r \in Reports : reports' = Append(reports, r)
  BY DEF Report
<1>2. /\ ~ctrl.on /\ missing' = missing
      /\ UNCHANGED <<ctrl, vt_a, vt_s, slots>>
  BY DEF Report, tx_vars
<1>3. Outstanding' = Outstanding /\ AckedSns' = AckedSns /\ Acking' = {} /\ Acking = {}
  BY <1>2 DEF Outstanding, AckedSns, Acking
<1>4. vt_a \in SN /\ vt_s \in SN /\ Dist(vt_a, vt_s) <= WindowSize
  BY DEF TxInvariant, TxFields, WindowHolds
<1>5. PICK D \in Nat : D = Dist(vt_a, vt_s) /\ D <= WindowSize
  BY <1>4, DistNat
<1>6. PICK d \in -1 .. D, n \in 0 .. D :
        /\ n = IF d < 0 THEN 0 ELSE d
        /\ r.ack = Plus(vt_a, d) /\ NacksOf(r.nacks, n) /\ Covers(d)
  BY <1>5, ReportIs
<1>7. r.ack \in SN /\ Reach(vt_a, r) = d + 1
  <2>1. d \in -1 .. WindowSize
    BY <1>5, TxSnFacts
  <2> QED
    BY <1>4, <1>6, <2>1, ReachOf
<1>8. /\ IsSeq(r.nacks) /\ Len(r.nacks) \in Nat
      /\ \A i \in 1 .. Len(r.nacks) : /\ r.nacks[i].sn \in SN /\ Dist(vt_a, r.nacks[i].sn) < n
                                      /\ missing[r.nacks[i].sn] # {}
      /\ \A i, j \in 1 .. Len(r.nacks) :
           i <= j => Dist(vt_a, r.nacks[i].sn) <= Dist(vt_a, r.nacks[j].sn)
      /\ \A sn \in SN : Dist(vt_a, sn) < n /\ missing[sn] # {} => sn \in NackedBy(r)
  BY <1>6 DEF NacksOf, NackedBy, IsSeq
<1>9. \A sn \in SN : Dist(vt_a, sn) \in Nat /\ (Dist(vt_a, sn) + 1 < d + 1 <=> Dist(vt_a, sn) < n)
  <2> TAKE sn \in SN
  <2>1. PICK x \in Nat : x = Dist(vt_a, sn)
    BY <1>4, DistNat
  <2>2. x + 1 < d + 1 <=> x < n
    BY <1>5, <1>6
  <2> QED
    BY <2>1, <2>2
<1>10. ReportSound(vt_a, vt_s, missing, r)
  <2>1. d + 1 <= D + 1
    BY <1>5
  <2>2. \A i \in 1 .. Len(r.nacks) : Dist(vt_a, r.nacks[i].sn) + 1 < d + 1
    BY <1>8, <1>9
  <2>3. \A sn \in SN : Dist(vt_a, sn) + 1 < d + 1 /\ missing[sn] # {} => sn \in NackedBy(r)
    BY <1>8, <1>9
  <2> QED
    BY <1>5, <1>7, <1>8, <2>1, <2>2, <2>3 DEF ReportSound, ReportFields
<1>11. ASSUME NEW A, A \subseteq Outstanding, \A sn \in A : missing[sn] = {}
       PROVE  Spared(vt_a, A, r)
  <2>1. \A sn \in A : Dist(vt_a, sn) < d + 1
    BY <1>6, <1>11 DEF Covers
  <2>2. A \cap NackedBy(r) = {}
    BY <1>8, <1>11 DEF NackedBy
  <2> QED
    BY <1>7, <2>1, <2>2 DEF Spared
<1>12. Spared(vt_a, AckedSns, r)
  <2>1. \A sn \in AckedSns : sn \in Outstanding /\ missing[sn] = {}
    BY FlagsOfSlot DEF AckedSns, LinkFields, AckedIsReceived
  <2> QED
    BY <1>11, <2>1
<1>13. ASSUME NEW p \in 1 .. Len(reports)
       PROVE  Spared(vt_a, AckedBy(vt_a, reports[p]), r)
  <2>1. PICK t : t = reports[p] /\ ReportSound(vt_a, vt_s, missing, t)
    BY DEF LinkFields, ReportsSound
  <2>2. Reach(vt_a, t) \in Nat /\ Reach(vt_a, t) <= D + 1
    <3>1. Plus(t.ack, 1) \in SN
      BY <2>1, DistNext DEF ReportSound, ReportFields
    <3> QED
      BY <1>4, <1>5, <2>1, <3>1, DistNat DEF Reach, ReportSound
  <2>3. ASSUME NEW sn \in AckedBy(vt_a, t) PROVE sn \in Outstanding /\ missing[sn] = {}
    <3>1. sn \in SN /\ Dist(vt_a, sn) + 1 < Reach(vt_a, t) /\ sn \notin NackedBy(t)
      BY DEF AckedBy
    <3>2. missing[sn] = {}
      BY <2>1, <3>1 DEF ReportSound
    <3>3. Dist(vt_a, sn) < D
      BY <1>5, <1>9, <2>2, <3>1
    <3> QED
      BY <1>5, <3>1, <3>2, <3>3 DEF Outstanding
  <2>4. Spared(vt_a, AckedBy(vt_a, t), r)
    BY <1>11, <2>3
  <2> QED
    BY <2>1, <2>4
<1>14. ReportsSound(vt_a, vt_s, missing, AckedSns, {}, Append(reports, r))
  <2>1. ReportsSound(vt_a, vt_s, missing, AckedSns, {}, reports)
    BY <1>3 DEF LinkFields
  <2> QED
    BY <1>10, <1>12, <1>13, <2>1, ReportsMore
<1>15. ReportsSound(vt_a, vt_s, missing, AckedSns, Acking, reports)'
  BY <1>1, <1>2, <1>3, <1>14
<1> QED
  BY <1>2, <1>3, <1>15 DEF LinkFields, MissingFields, AckedIsReceived

-----------------------------------------------------------------------------
(* A report is processed.                                                   *)

\* The report in process goes on; nothing is acknowledged.
LEMMA ProcessQuiet ==
  ASSUME TxInvariant, LinkFields, StatusStep, SlotsKept,
         UNCHANGED <<vt_a, missing, reports>>
  PROVE  LinkFields'
<1>1. ctrl.on /\ vt_s' = vt_s /\ ctrl' = NextCtrl
  BY DEF StatusStep
<1>2. Outstanding' = Outstanding /\ AckedSns' = AckedSns
  BY <1>1 DEF Outstanding, SlotsKept, AckedSns
<1>3. ctrl'.on => CtrlSound(missing, ctrl') /\ ToAck(ctrl') \subseteq ToAck(ctrl)
  BY <1>1, CtrlGoesOn DEF LinkFields, TxInvariant
<1>4. Acking' \subseteq Acking
  BY <1>1, <1>2, <1>3 DEF Acking
<1>5. ReportsSound(vt_a, vt_s, missing, AckedSns, Acking', reports)
  <2>1. ReportsSound(vt_a, vt_s, missing, AckedSns, Acking, reports)
    BY DEF LinkFields
  <2> QED
    BY <1>4, <2>1, ReportsKept
<1>6. ReportsSound(vt_a, vt_s, missing, AckedSns, Acking, reports)'
  BY <1>1, <1>2, <1>5
<1>7. AckedIsReceived' /\ MissingFields'
  BY DEF LinkFields, AckedIsReceived, SlotsKept, MissingFields
<1>8. \A sn \in Outstanding' : slots'[sn].size \in Nat /\ slots'[sn].size > 0
  <2>1. Outstanding \subseteq SN
    BY DEF Outstanding
  <2> QED
    BY <1>2, <2>1 DEF LinkFields, SlotsKept, SamePayload
<1> QED
  BY <1>3, <1>6, <1>7, <1>8 DEF LinkFields

\* What the ACK of the SN c makes of the window, and by how much it moves.
AckMoves(c, k) ==
  /\ k \in 0 .. Dist(vt_a, vt_s) /\ vt_a' = Plus(vt_a, k)
  /\ slots' = [s \in SN |-> IF Dist(vt_a, s) < k THEN NoPdu ELSE AckSlots(c)[s]]
  /\ \A s \in SN : Dist(vt_a, s) < k => s = c \/ slots[s].ack

LEMMA AckMovesBy ==
  ASSUME TxInvariant, NEW c \in SN, c \in Outstanding, AckPdu(c)
  PROVE  \E k : AckMoves(c, k)
<1>1. vt_a \in SN /\ vt_s \in SN
  BY DEF TxInvariant, TxFields
<1>2. PICK k : /\ k = IF c = vt_a THEN Advance(AckSlots(c)) ELSE 0
               /\ slots' = [s \in SN |-> IF Dist(vt_a, s) < k THEN NoPdu ELSE AckSlots(c)[s]]
               /\ vt_a' = Plus(vt_a, k)
  BY AckPduIs
<1>3. CASE c # vt_a
  <2>1. k = 0
    BY <1>2, <1>3
  <2>2. \A s \in SN : ~(Dist(vt_a, s) < 0)
    BY <1>1, DistNat
  <2>3. 0 \in 0 .. Dist(vt_a, vt_s)
    BY <1>1, DistNat
  <2> QED
    BY <1>2, <2>1, <2>2, <2>3 DEF AckMoves
<1>4. CASE c = vt_a
  <2>1. vt_a # vt_s
    BY <1>4, OutstandingIs
  <2>2. /\ k \in 1 .. Dist(vt_a, vt_s)
        /\ \A j \in 1 .. k - 1 : AckSlots(c)[Plus(vt_a, j)].ack
    BY <1>2, <1>4, <2>1, AdvanceIs
  <2>3. Dist(vt_a, vt_s) \in Nat /\ Dist(vt_a, vt_s) < SnModulo
    BY <1>1, DistNat
  <2>4. k \in 0 .. Dist(vt_a, vt_s)
    BY <2>2, <2>3
  <2>5. ASSUME NEW s \in SN, Dist(vt_a, s) < k, s # c PROVE slots[s].ack
    <3>1. PICK j \in Nat : j = Dist(vt_a, s) /\ j # 0
      BY <1>1, <1>4, <2>5, DistNat
    <3>2. j \in 1 .. k - 1
      BY <2>2, <2>3, <2>5, <3>1
    <3>3. Plus(vt_a, j) = s
      BY <1>1, <3>1, PlusDist
    <3>4. AckSlots(c)[s] = slots[s]
      BY <2>5, AckSlotsShape
    <3> QED
      BY <2>2, <3>2, <3>3, <3>4
  <2> QED
    BY <1>2, <2>4, <2>5 DEF AckMoves
<1> QED
  BY <1>3, <1>4

LEMMA AckLink ==
  ASSUME TxInvariant, LinkFields, WindowSize >= 2, StatusStep, NEW c, c = ctrl.cursor, ~AtNack,
         c \in Outstanding, UNCHANGED <<missing, reports>>
  PROVE  LinkFields'
<1>1. /\ ctrl.on /\ c \in SN /\ vt_s' = vt_s /\ ctrl' = NextCtrl /\ AckPdu(c)
      /\ vt_a \in SN /\ vt_s \in SN /\ Dist(vt_a, vt_s) <= WindowSize
  BY DEF TxInvariant, TxFields, StatusStep, WindowHolds
<1>2. CtrlSound(missing, ctrl)
  BY <1>1 DEF LinkFields
<1>3. c \in ToAck(ctrl) /\ missing[c] = {}
  BY <1>2, CursorAcked
<1>4. c \in Acking
  BY <1>1, <1>3 DEF Acking
<1>5. PICK k : AckMoves(c, k)
  BY <1>1, AckMovesBy
<1>6. /\ k \in 0 .. Dist(vt_a, vt_s)
      /\ \A s \in SN : slots'[s] = IF Dist(vt_a, s) < k THEN NoPdu ELSE AckSlots(c)[s]
      /\ \A s \in SN : Dist(vt_a, s) < k => s = c \/ slots[s].ack
  BY <1>5 DEF AckMoves
<1>7. PICK b : b = vt_a' /\ Moves(vt_a, b, k, vt_s)
  BY <1>1, <1>5 DEF AckMoves, Moves
<1>8. Passed(vt_a, k) \subseteq AckedSns \cup Acking
  BY <1>4, <1>6 DEF Passed, AckedSns
<1>9. /\ AckSlots(c)[c].ack /\ ~AckSlots(c)[c].mem
      /\ AckSlots(c)[c].size = slots[c].size
      /\ \A s \in SN : s # c => AckSlots(c)[s] = slots[s]
  BY <1>1, AckSlotsShape DEF SamePayload
<1>10. ~NoPdu.ack
  BY DEF NoPdu
<1>11. PICK D \in Nat : D = Dist(vt_a, vt_s) /\ D < SnModulo /\ k \in Nat /\ Dist(b, vt_s) = D - k
  <2>1. PICK D \in Nat : D = Dist(vt_a, vt_s) /\ D < SnModulo
    BY <1>1, DistNat
  <2>2. k \in Nat /\ k <= D
    BY <1>6, <2>1
  <2>3. Dist(b, vt_s) = D - k
    BY <1>1, <1>7, <2>1, <2>2, MovesDist
  <2> QED
    BY <2>1, <2>2, <2>3
<1>12. \A s \in SN : s \in Outstanding' => s \in Outstanding /\ k <= Dist(vt_a, s)
  <2> TAKE s \in SN
  <2>1. s \in Outstanding' <=> Dist(b, s) < D - k
    BY <1>1, <1>7, <1>11 DEF Outstanding
  <2>2. /\ Dist(vt_a, s) \in 0 .. SnModulo - 1
        /\ Dist(b, s) = IF k <= Dist(vt_a, s) THEN Dist(vt_a, s) - k
                        ELSE Dist(vt_a, s) - k + SnModulo
    BY <1>7, MovesDist
  <2>3. Dist(b, s) < D - k => Dist(vt_a, s) < D /\ k <= Dist(vt_a, s)
    BY <1>11, <2>2, TxSnFacts
  <2> QED
    BY <1>11, <2>1, <2>3 DEF Outstanding
<1>13. Outstanding' \subseteq SN
  BY DEF Outstanding
<1>14. \A s \in SN : Dist(vt_a, s) \in Nat
  BY <1>1, DistNat
<1>15. \A s \in AckedSns' : s \in SN /\ k <= Dist(vt_a, s) /\ s \in AckedSns \cup Acking
  <2> SUFFICES ASSUME NEW s \in SN, slots'[s].ack
               PROVE  k <= Dist(vt_a, s) /\ s \in AckedSns \cup Acking
    BY DEF AckedSns
  <2>1. ~(Dist(vt_a, s) < k)
    BY <1>6, <1>10
  <2>2. AckSlots(c)[s].ack
    BY <1>6, <2>1
  <2>3. s \in AckedSns \cup Acking
    BY <1>4, <1>9, <2>2 DEF AckedSns
  <2> QED
    BY <1>11, <1>14, <2>1, <2>3
<1>16. ctrl'.on => CtrlSound(missing, ctrl') /\ ToAck(ctrl') \subseteq ToAck(ctrl)
  BY <1>1, <1>2, CtrlGoesOn DEF TxInvariant
<1>17. \A s \in Acking' : s \in SN /\ k <= Dist(vt_a, s) /\ s \in Acking
  BY <1>1, <1>12, <1>13, <1>16 DEF Acking
<1>18. ReportsSound(b, vt_s, missing, AckedSns', Acking', reports)
  <2>1. ReportsSound(vt_a, vt_s, missing, AckedSns, Acking, reports)
    BY DEF LinkFields
  <2>2. /\ AckedSns' \subseteq AckedSns \cup Acking /\ AckedSns' \subseteq SN
        /\ \A s \in AckedSns' : k <= Dist(vt_a, s)
    BY <1>15
  <2>3. /\ Acking' \subseteq AckedSns \cup Acking /\ Acking' \subseteq SN
        /\ \A s \in Acking' : k <= Dist(vt_a, s)
    BY <1>17
  <2>4. PICK C, E : C = AckedSns' /\ E = Acking'
    OBVIOUS
  <2>5. ReportsSound(b, vt_s, missing, C, E, reports)
    BY <1>7, <1>8, <2>1, <2>2, <2>3, <2>4, ReportsMoved
  <2> QED
    BY <2>4, <2>5
<1>19. ReportsSound(vt_a, vt_s, missing, AckedSns, Acking, reports)'
  BY <1>1, <1>7, <1>18
<1>20. AckedIsReceived'
  <2> SUFFICES ASSUME NEW s \in SN, ~slots'[s].mem PROVE missing[s] = {}
    BY DEF AckedIsReceived
  <2>1. CASE s = c
    BY <1>3, <2>1
  <2>2. CASE s # c /\ Dist(vt_a, s) < k
    <3>1. slots[s].ack
      BY <1>6, <2>2
    <3>2. ~slots[s].mem
      BY <3>1, FlagsOfSlot
    <3> QED
      BY <3>2 DEF LinkFields, AckedIsReceived
  <2>3. CASE s # c /\ ~(Dist(vt_a, s) < k)
    BY <1>6, <1>9, <2>3 DEF LinkFields, AckedIsReceived
  <2> QED
    BY <2>1, <2>2, <2>3
<1>21. \A s \in Outstanding' : slots'[s].size \in Nat /\ slots'[s].size > 0
  <2> TAKE s \in Outstanding'
  <2>1. s \in SN /\ s \in Outstanding /\ ~(Dist(vt_a, s) < k)
    BY <1>11, <1>12, <1>13, <1>14
  <2>2. slots'[s].size = slots[s].size
    BY <1>6, <1>9, <2>1
  <2> QED
    BY <2>1, <2>2 DEF LinkFields
<1> QED
  BY <1>16, <1>19, <1>20, <1>21 DEF LinkFields, MissingFields

LEMMA ProcessLink ==
  ASSUME TxInvariant, LinkFields, Process, WindowSize >= 2
  PROVE  LinkFields'
<1>1. StatusStep /\ UNCHANGED <<missing, reports>>
  BY DEF Process, peer_vars
<1>2. PICK c \in SN : c = ctrl.cursor
  BY <1>1 DEF StatusStep, TxInvariant, TxFields
<1>3. CASE AtNack
  <2>1. PICK first, start, stop : NackPdu(c, first, start, stop)
    BY <1>1, <1>2, <1>3 DEF StatusStep, AtNack
  <2> QED
    BY <1>1, <2>1, NackKeeps, ProcessQuiet
<1>4. CASE ~AtNack /\ c \notin Outstanding
  <2>1. AckPdu(c)
    BY <1>1, <1>2, <1>4 DEF StatusStep
  <2> QED
    BY <1>1, <1>4, <2>1, AckNothing, SameSlotsKept, ProcessQuiet
<1>5. CASE ~AtNack /\ c \in Outstanding
  BY <1>1, <1>2, <1>5, AckLink
<1> QED
  BY <1>3, <1>4, <1>5

LEMMA TransmitNewLink ==
  ASSUME TxInvariant, SduFields, LinkFields, Request, NEW g \in Grants, TransmitNew(g)
  PROVE  LinkFields'
<1>1. /\ ~ctrl.on /\ UNCHANGED <<vt_a, ctrl, reports>>
      /\ vt_a \in SN /\ vt_s \in SN /\ vt_s' \in SN
      /\ Dist(vt_a, vt_s') = Dist(vt_a, vt_s) + 1
      /\ \A t \in SN : t \in Outstanding' <=> t \in Outstanding \/ t = vt_s
  BY WindowGrows DEF TransmitNew, Request
<1>2. PICK z, p : /\ z \in Nat /\ z > 0 /\ slots' = [slots EXCEPT ![vt_s] = p]
                  /\ p.mem /\ ~p.ack /\ p.size = z
  <2>1. PICK p : /\ p = NewPdu(NewSize(g), {NextSdu(current_sdu, j) : j \in NewPart(g)})
                 /\ slots' = [slots EXCEPT ![vt_s] = p]
    BY TransmitNewSdus
  <2>2. p.mem /\ ~p.ack /\ p.size = NewSize(g)
    BY <2>1, NewPduShape
  <2>3. NewSize(g) \in Nat /\ NewSize(g) > 0
    BY TransmitNewSdus, NewSizeIs
  <2> QED
    BY <2>1, <2>2, <2>3
<1>3. \A t \in SN : slots'[t] = IF t = vt_s THEN p ELSE slots[t]
  BY <1>1, <1>2 DEF TxInvariant, TxFields, SlotsShape
<1>4. missing' = [missing EXCEPT ![vt_s] = 0 .. z - 1]
  <2>1. vt_s' # vt_s
    <3>1. PICK d \in Nat : d = Dist(vt_a, vt_s) /\ Dist(vt_a, vt_s') = d + 1
      BY <1>1, DistNat
    <3> QED
      BY <3>1
  <2>2. slots'[vt_s].size = z
    BY <1>1, <1>2, <1>3
  <2> QED
    BY <2>1, <2>2 DEF Request
<1>5. PICK M : M = 0 .. z - 1 /\ M \subseteq Nat /\ IsFiniteSet(M)
  <2>1. 0 .. z - 1 \subseteq Nat
    BY <1>2
  <2>2. IsFiniteSet(0 .. z - 1)
    <3>1. z - 1 \in Int
      BY <1>2
    <3> QED
      BY <3>1, FS_Interval
  <2> QED
    BY <2>1, <2>2
<1>6. missing' = [t \in SN |-> IF t = vt_s THEN M ELSE missing[t]]
  BY <1>1, <1>4, <1>5 DEF LinkFields, MissingFields
<1>7. MissingFields'
  <2>1. \A t \in SN : missing[t] \subseteq Nat /\ IsFiniteSet(missing[t])
    BY DEF LinkFields, MissingFields
  <2>2. \A t \in SN : missing'[t] \subseteq Nat /\ IsFiniteSet(missing'[t])
    BY <1>5, <1>6, <2>1
  <2>3. missing' = [t \in SN |-> missing'[t]]
    BY <1>6
  <2> QED
    BY <2>2, <2>3 DEF MissingFields
<1>8. AckedIsReceived'
  BY <1>2, <1>3, <1>6 DEF LinkFields, AckedIsReceived
<1>9. AckedSns' = AckedSns
  <2>1. vt_s \notin Outstanding
    BY OutstandingIs
  <2>2. ~slots[vt_s].ack
    BY <1>1, <2>1, FlagsOfSlot
  <2> QED
    BY <1>2, <1>3, <2>2 DEF AckedSns
<1>10. Acking = {} /\ Acking' = {}
  BY <1>1 DEF Acking
<1>11. \A t \in Outstanding' : slots'[t].size \in Nat /\ slots'[t].size > 0
  <2>1. \A t \in Outstanding' : t \in SN
    BY DEF Outstanding
  <2> QED
    BY <1>1, <1>2, <1>3, <2>1 DEF LinkFields
<1>12. ReportsSound(vt_a, vt_s', missing', AckedSns, {}, reports)
  <2>1. ReportsSound(vt_a, vt_s, missing, AckedSns, {}, reports)
    BY <1>10 DEF LinkFields
  <2>2. \A t \in SN : t # vt_s => missing'[t] = missing[t]
    BY <1>6
  <2> QED
    BY <1>1, <2>1, <2>2, ReportsGrown
<1>13. ReportsSound(vt_a, vt_s, missing, AckedSns, Acking, reports)'
  BY <1>1, <1>9, <1>10, <1>12
<1> QED
  BY <1>1, <1>7, <1>8, <1>11, <1>13 DEF LinkFields

LEMMA RequestLink ==
  ASSUME TxInvariant, SduFields, LinkFields, Request
  PROVE  LinkFields'
<1>1. PICK g \in Grants : GetPdus(g)
  BY DEF Request
<1>2. CASE TransmitNew(g)
  BY <1>2, TransmitNewLink
<1>3. CASE RetransmitWhole(g) \/ RetransmitSegment(g) \/ RetransmitAny(g)
  <2>1. ~ctrl.on /\ UNCHANGED <<ctrl, vt_a, vt_s>>
    BY <1>3 DEF RetransmitWhole, RetransmitSegment, RetransmitAny
  <2>2. UNCHANGED <<missing, reports>>
    BY <2>1 DEF Request
  <2> QED
    BY <1>3, <2>1, <2>2, RepeatKeeps, PeerQuiet
<1> QED
  BY <1>1, <1>2, <1>3 DEF GetPdus

LEMMA ArriveLink ==
  ASSUME TxInvariant, LinkFields, Arrive
  PROVE  LinkFields'
<1>1. ~ctrl.on /\ UNCHANGED <<ctrl, vt_a, vt_s, slots, reports>>
  BY DEF Arrive, TakePdu
<1>2. PICK sn, B : missing' = [missing EXCEPT ![sn] = @ \ B] \/ missing' = missing
  BY DEF Arrive
<1>3. \A t \in SN : missing'[t] \subseteq missing[t]
  BY <1>2 DEF LinkFields, MissingFields
<1>4. MissingFields'
  <2>1. missing' = [t \in SN |-> missing'[t]]
    BY <1>2 DEF LinkFields, MissingFields
  <2>2. \A t \in SN : missing[t] \subseteq Nat /\ IsFiniteSet(missing[t])
    BY DEF LinkFields, MissingFields
  <2>3. \A t \in SN : missing'[t] \subseteq Nat /\ IsFiniteSet(missing'[t])
    BY <1>3, <2>2, FS_Subset
  <2> QED
    BY <2>1, <2>3 DEF MissingFields
<1> QED
  BY <1>1, <1>3, <1>4, SameSlotsKept, LinkQuiet

LinkInvariant == TxInvariant /\ SduFields /\ LinkFields

LEMMA LinkFieldsStep ==
  ASSUME ~Reordering, WindowSize >= 2, LinkInvariant, [LinkNext]_link_vars
  PROVE  LinkFields'
<1>1. TxInvariant /\ SduFields /\ LinkFields
  BY DEF LinkInvariant
<1>2. CASE Submit \/ TimeOut \/ Lose
  <2>1. ~ctrl.on /\ UNCHANGED <<ctrl, vt_a, vt_s, slots, reports, missing>>
    BY <1>2 DEF Submit, DataReq, DataReqDropped, TimeOut, PollTimeOut, Lose, TakePdu, peer_vars
  <2> QED
    BY <1>1, <2>1, SameSlotsKept, PeerQuiet
<1>3. CASE Request
  BY <1>1, <1>3, RequestLink
<1>4. CASE Arrive
  BY <1>1, <1>4, ArriveLink
<1>5. CASE Report
  BY <1>1, <1>5, ReportLink
<1>6. CASE LoseReport
  BY <1>1, <1>6, LoseReportLink
<1>7. CASE DeliverReport
  BY <1>1, <1>7, DeliverReportLink
<1>8. CASE Process
  BY <1>1, <1>8, ProcessLink
<1>9. CASE UNCHANGED link_vars
  <2>1. UNCHANGED <<vt_a, vt_s, slots, ctrl, missing, reports>>
    BY <1>9 DEF link_vars, tx_vars, peer_vars
  <2>2. Outstanding' = Outstanding /\ AckedSns' = AckedSns /\ Acking' = Acking
    BY <2>1 DEF Outstanding, AckedSns, Acking
  <2>3. ReportsSound(vt_a, vt_s, missing, AckedSns, Acking, reports)'
    BY <1>1, <2>1, <2>2 DEF LinkFields
  <2> QED
    BY <1>1, <2>1, <2>2, <2>3 DEF LinkFields, MissingFields, AckedIsReceived
<1> QED
  BY <1>2, <1>3, <1>4, <1>5, <1>6, <1>7, <1>8, <1>9 DEF LinkNext

LEMMA LinkInvariantInit == LinkInit => LinkInvariant
<1> SUFFICES ASSUME LinkInit PROVE LinkInvariant
  OBVIOUS
<1>1. TxInvariant /\ SduFields
  BY TxInvariantInit, SduFieldsInit DEF LinkInit
<1>2. /\ missing = [sn \in SN |-> {}] /\ reports = <<>> /\ vt_a = vt_s /\ ~ctrl.on
      /\ vt_a \in SN
  BY TxSnFacts DEF LinkInit, TxInit, Idle
<1>3. MissingFields /\ AckedIsReceived
  <2>1. IsFiniteSet({})
    BY FS_EmptySet
  <2> QED
    BY <1>2, <2>1 DEF MissingFields, AckedIsReceived
<1>4. Outstanding = {}
  BY <1>2, DistNat DEF Outstanding
<1>5. ReportsSound(vt_a, vt_s, missing, AckedSns, Acking, reports)
  <2>1. IsSeq(reports) /\ Len(reports) = 0
    BY <1>2 DEF IsSeq
  <2> QED
    BY <2>1 DEF ReportsSound
<1> QED
  BY <1>1, <1>2, <1>3, <1>4, <1>5 DEF LinkInvariant, LinkFields

LEMMA LinkInvariantAlways ==
  ~Reordering /\ WindowSize >= 2 => (LinkSpec => []LinkInvariant)
<1> SUFFICES ASSUME ~Reordering, WindowSize >= 2 PROVE LinkSpec => []LinkInvariant
  OBVIOUS
<1>1. LinkInvariant /\ [LinkNext]_link_vars => LinkInvariant'
  <2> SUFFICES ASSUME LinkInvariant, [LinkNext]_link_vars PROVE LinkInvariant'
    OBVIOUS
  <2>1. TxInvariant' /\ SduFields'
    BY LinkInvariantStep, LinkIsSenderStep, SduFieldsStep DEF LinkInvariant
  <2> QED
    BY <2>1, LinkFieldsStep DEF LinkInvariant
<1> QED
  BY <1>1, LinkInvariantInit, PTL DEF LinkSpec

\* When reports do not overtake each other, rlc_am_receive_process_control_pdu
\* acknowledges and frees only what the peer has received, however many reports are on
\* their way and however old they are when they arrive.
THEOREM LinkAckedSafe ==
  ~Reordering /\ WindowSize >= 2 => (LinkSpec => []AckedIsReceived)
<1> SUFFICES ASSUME ~Reordering, WindowSize >= 2 PROVE LinkSpec => []AckedIsReceived
  OBVIOUS
<1>1. LinkInvariant => AckedIsReceived
  BY DEF LinkInvariant, LinkFields
<1> QED
  BY <1>1, LinkInvariantAlways, PTL

-----------------------------------------------------------------------------
(* The counters.                                                            *)

\* No PDU was sent so often that rlc_am_nack_pdu gives its SDUs up, or that retx_count
\* is at the end of its range.
NoneGivenUp == \A sn \in SN : slots[sn].retx < RetxMax /\ slots[sn].retx < MaxRetx

\* What a slot counts for in retrans_num_bytes_to_retransmit.
Weight(p) == IF p.mem /\ p.retx >= 0 THEN PduBytes(p) ELSE 0
Weights(s) == [sn \in SN |-> Weight(s[sn])]
Unsent(d) == [i \in Ring |-> d[i].remaining]

SlotCounters ==
  /\ \A sn \in SN : /\ slots[sn].retx \in Int /\ slots[sn].retx >= -1
                    /\ slots[sn].size \in Nat
  /\ num_pdus = Cardinality(Held)
  /\ to_retransmit = Total(Weights(slots), SN)

SduCounter == occupancy = Total(Unsent(sdus), Ring)

LEMMA SnFinite == IsFiniteSet(SN) /\ IsFiniteSet(Held) /\ Cardinality(Held) \in Nat
<1>1. IsFiniteSet(SN)
  <2>1. SnModulo - 1 \in Int
    BY TxSnFacts
  <2> QED
    BY <2>1, FS_Interval DEF SN
<1>2. Held \subseteq SN
  BY DEF Held, Outstanding
<1> QED
  BY <1>1, <1>2, FS_Subset, FS_CardinalityType

LEMMA WeightIs ==
  ASSUME NEW p, p.size \in Nat
  PROVE  /\ Weight(p) \in Int /\ PduBytes(p) \in Nat
         /\ ~p.mem => Weight(p) = 0
         /\ p.retx = -1 => Weight(p) = 0
         /\ p.mem /\ p.retx >= 0 => Weight(p) = PduBytes(p)
<1>1. PduBytes(p) \in Nat
  BY TxSizeAssumption DEF PduBytes
<1> QED
  BY <1>1 DEF Weight

LEMMA WeightsAre ==
  ASSUME SlotCounters
  PROVE  \A sn \in SN : Weights(slots)[sn] = Weight(slots[sn]) /\ Weight(slots[sn]) \in Int
BY WeightIs DEF SlotCounters, Weights

LEMMA CountersAreExact ==
  ASSUME TxInvariant, SduFields, SlotCounters, SduCounter
  PROVE  CountersExact
<1> DEFINE S == {sn \in Held : slots[sn].retx >= 0}
<1>1. IsFiniteSet(SN) /\ Held \subseteq SN
  BY SnFinite DEF Held, Outstanding
<1>2. S \subseteq SN /\ S \in SUBSET SN
  BY <1>1
<1>3. IsFiniteSet(S)
  BY <1>1, <1>2, FS_Subset
<1>4. \A sn \in S : PduBytes(slots[sn]) = Weights(slots)[sn]
  BY <1>2, FlagsOfSlot, WeightIs, WeightsAre DEF SlotCounters
<1>5. SumsAs(LAMBDA sn : PduBytes(slots[sn]), Weights(slots), S)
  BY <1>3, SumIsTotal
<1>6. MapThenSumSet(LAMBDA sn : PduBytes(slots[sn]), S) = Total(Weights(slots), S)
  BY <1>4, <1>5 DEF SumsAs
<1>7. \A sn \in SN \ S : Weights(slots)[sn] = 0
  <2> SUFFICES ASSUME NEW sn \in SN, sn \notin S PROVE Weight(slots[sn]) = 0
    BY WeightsAre
  <2>1. ~(slots[sn].mem /\ slots[sn].retx >= 0)
    BY FlagsOfSlot
  <2> QED
    BY <2>1 DEF Weight
<1>8. \A sn \in SN : Weights(slots)[sn] \in Int
  BY WeightsAre
<1>9. Total(Weights(slots), SN) = Total(Weights(slots), S)
  <2> HIDE DEF S
  <2> QED
    BY <1>1, <1>2, <1>7, <1>8, TotalZeros
<1>10. to_retransmit = MapThenSumSet(LAMBDA sn : PduBytes(slots[sn]), S)
  BY <1>6, <1>9 DEF SlotCounters
<1>11. occupancy = MapThenSumSet(LAMBDA i : sdus[i].remaining, DOMAIN sdus)
  <2>1. DOMAIN sdus = Ring
    BY DEF SduFields
  <2>2. SumsAs(LAMBDA i : sdus[i].remaining, Unsent(sdus), Ring)
    BY RingFacts, SumIsTotal
  <2>3. \A i \in Ring : sdus[i].remaining = Unsent(sdus)[i]
    BY DEF Unsent
  <2> QED
    BY <2>1, <2>2, <2>3 DEF SumsAs, SduCounter
<1> QED
  BY <1>10, <1>11 DEF CountersExact, SlotCounters

-----------------------------------------------------------------------------
\* A slot changes and the PDU stays held.
LEMMA SlotCounted ==
  ASSUME TxInvariant, SlotCounters, NEW sn \in SN, NEW p,
         slots' = [slots EXCEPT ![sn] = p], p.mem = slots[sn].mem, SamePayload(p, slots[sn]),
         p.retx \in Int, p.retx >= -1, UNCHANGED <<vt_a, vt_s, num_pdus>>,
         to_retransmit' = to_retransmit + (Weight(p) - Weight(slots[sn]))
  PROVE  SlotCounters'
<1>1. \A t \in SN : slots'[t] = IF t = sn THEN p ELSE slots[t]
  BY DEF TxInvariant, TxFields, SlotsShape
<1>2. p.size = slots[sn].size
  BY DEF SamePayload
<1>3. \A t \in SN : /\ slots'[t].retx \in Int /\ slots'[t].retx >= -1
                    /\ slots'[t].size \in Nat
  BY <1>1, <1>2 DEF SlotCounters
<1>4. Held' = Held
  <2>1. Outstanding' = Outstanding
    BY DEF Outstanding
  <2>2. Outstanding \subseteq SN
    BY DEF Outstanding
  <2> QED
    BY <1>1, <2>1, <2>2 DEF Held
<1>5. PICK F, G : F = Weights(slots) /\ G = Weights(slots')
  OBVIOUS
<1>6. \A t \in SN : F[t] = Weight(slots[t]) /\ F[t] \in Int
  BY <1>5, WeightsAre
<1>7. \A t \in SN : G[t] = Weight(slots'[t]) /\ G[t] \in Int
  BY <1>3, <1>5, WeightIs DEF Weights
<1>8. \A t \in SN \ {sn} : G[t] = F[t]
  <2> TAKE t \in SN \ {sn}
  <2>1. slots'[t] = slots[t]
    BY <1>1
  <2>2. Weight(slots'[t]) = Weight(slots[t])
    BY <2>1
  <2> QED
    BY <1>6, <1>7, <2>2
<1>9. Total(G, SN) = Total(F, SN) + (G[sn] - F[sn])
  <2>1. IsFiniteSet(SN) /\ \A t \in SN : F[t] \in Int /\ G[t] \in Int
    BY <1>6, <1>7, SnFinite
  <2> QED
    BY <1>8, <2>1, TotalChanged
<1>10. G[sn] = Weight(p) /\ F[sn] = Weight(slots[sn])
  <2>1. Weight(slots'[sn]) = Weight(p)
    <3>1. slots'[sn] = p
      BY <1>1
    <3> QED
      BY <3>1
  <2> QED
    BY <1>6, <1>7, <2>1
<1>11. to_retransmit' = Total(G, SN)
  BY <1>5, <1>9, <1>10 DEF SlotCounters
<1> QED
  BY <1>3, <1>4, <1>5, <1>11 DEF SlotCounters

LEMMA MoreIs ==
  ASSUME NEW r \in Int, r < RetxMax
  PROVE  More(r) = r + 1
BY TxSizeAssumption DEF More

LEMMA RepeatCounted ==
  ASSUME TxInvariant, SlotCounters, NoneGivenUp, NEW sn \in SN, sn \in Held, RepeatDone(sn),
         vt_s' = vt_s
  PROVE  SlotCounters'
<1>1. PICK p : /\ slots' = [slots EXCEPT ![sn] = p] /\ p.mem = slots[sn].mem
               /\ SamePayload(p, slots[sn])
               /\ p.retx \in {slots[sn].retx, More(slots[sn].retx)}
  BY DEF RepeatDone
<1>2. /\ slots[sn].retx \in Int /\ slots[sn].retx < RetxMax /\ slots[sn].retx >= 0
      /\ slots[sn].size \in Nat
  BY DEF SlotCounters, NoneGivenUp, RepeatDone
<1>3. p.retx \in Int /\ p.retx >= 0
  BY <1>1, <1>2, MoreIs
<1>4. p.size = slots[sn].size
  BY <1>1 DEF SamePayload
<1>5. slots[sn].mem /\ p.mem
  BY <1>1 DEF Held
<1>6. PICK w \in Nat : w = Weight(p) /\ w = Weight(slots[sn])
  BY <1>2, <1>3, <1>4, <1>5, WeightIs DEF PduBytes
<1>7. UNCHANGED <<vt_a, num_pdus, to_retransmit>>
  BY DEF RepeatDone
<1>8. to_retransmit' = to_retransmit + (Weight(p) - Weight(slots[sn]))
  <2>1. to_retransmit \in Int
    <3>1. \A t \in SN : Weights(slots)[t] \in Int
      BY WeightsAre
    <3> QED
      BY <3>1, SnFinite, TotalInt DEF SlotCounters
  <2>2. to_retransmit' = to_retransmit + (w - w)
    BY <1>7, <2>1
  <2> QED
    BY <1>6, <2>2
<1>9. p.retx >= -1
  BY <1>3
<1> QED
  BY <1>1, <1>3, <1>7, <1>8, <1>9, SlotCounted

LEMMA NackCounted ==
  ASSUME TxInvariant, SlotCounters, NoneGivenUp, NEW sn \in SN, sn \in Held, NackDone(sn),
         vt_s' = vt_s
  PROVE  SlotCounters'
<1>1. PICK p : /\ slots' = [slots EXCEPT ![sn] = p] /\ p.mem = slots[sn].mem
               /\ SamePayload(p, slots[sn])
               /\ p.retx = More(slots[sn].retx)
  BY DEF NackDone
<1>2. PICK x \in Int : x = slots[sn].retx /\ x < RetxMax /\ x >= -1 /\ slots[sn].size \in Nat
  BY DEF SlotCounters, NoneGivenUp
<1>3. p.retx = x + 1
  BY <1>1, <1>2, MoreIs
<1>4. p.retx \in Int /\ p.retx >= 0 /\ p.retx >= -1
  BY <1>2, <1>3
<1>5. p.size = slots[sn].size
  BY <1>1 DEF SamePayload
<1>6. slots[sn].mem /\ p.mem
  BY <1>1 DEF Held
<1>7. PICK w \in Nat : w = Weight(p) /\ w = PduBytes(slots[sn])
  BY <1>2, <1>4, <1>5, <1>6, WeightIs DEF PduBytes
<1>8. UNCHANGED <<vt_a, num_pdus>> /\ to_retransmit' = to_retransmit + IF x = -1 THEN w ELSE 0
  BY <1>2, <1>7 DEF NackDone, NackCounters
<1>9. Weight(slots[sn]) = IF x = -1 THEN 0 ELSE w
  <2>1. CASE x = -1
    BY <1>2, <2>1, WeightIs
  <2>2. CASE x # -1
    <3>1. x >= 0
      BY <1>2, <2>2
    <3> QED
      BY <1>2, <1>6, <1>7, <2>2, <3>1, WeightIs
  <2> QED
    BY <2>1, <2>2
<1>10. to_retransmit' = to_retransmit + (Weight(p) - Weight(slots[sn]))
  <2>1. PICK u \in Nat : u = Weight(slots[sn]) /\ u = IF x = -1 THEN 0 ELSE w
    BY <1>9
  <2>2. w - u = IF x = -1 THEN w ELSE 0
    BY <2>1
  <2>3. to_retransmit' = to_retransmit + (w - u)
    BY <1>8, <2>2
  <2> QED
    BY <1>7, <2>1, <2>3
<1> QED
  BY <1>1, <1>4, <1>8, <1>10, SlotCounted

-----------------------------------------------------------------------------
\* What the ACK of c leaves: the PDU with that SN is held no more.
AckEffect(c) ==
  /\ Held' = Held \ {c}
  /\ \A s \in SN : /\ slots'[s].retx \in Int /\ slots'[s].retx >= -1 /\ slots'[s].size \in Nat
                   /\ slots'[s].mem => slots'[s].sdus = slots[s].sdus
                   /\ Weight(slots'[s]) = IF s = c THEN 0 ELSE Weight(slots[s])

LEMMA AckEffectIs ==
  ASSUME TxInvariant, WindowHolds', SlotCounters, NEW c \in SN, AckPdu(c), vt_s' = vt_s
  PROVE  AckEffect(c)
<1>1. \A s \in SN : /\ slots[s].retx \in Int /\ slots[s].retx >= -1 /\ slots[s].size \in Nat
                    /\ (~slots[s].mem => Weight(slots[s]) = 0)
  BY WeightIs DEF SlotCounters
<1>2. CASE c \notin Outstanding
  <2>1. UNCHANGED <<vt_a, vt_s, slots>> /\ ~slots[c].mem
    BY <1>2, AckNothing
  <2>2. Held' = Held /\ c \notin Held
    BY <2>1 DEF Held, Outstanding
  <2> QED
    BY <1>1, <2>1, <2>2 DEF AckEffect
<1>3. CASE c \in Outstanding
  <2>1. PICK k : AckMoves(c, k)
    BY <1>3, AckMovesBy
  <2>2. /\ \A s \in SN : slots'[s] = IF Dist(vt_a, s) < k THEN NoPdu ELSE AckSlots(c)[s]
        /\ \A s \in SN : Dist(vt_a, s) < k => s = c \/ slots[s].ack
    BY <2>1 DEF AckMoves
  <2>3. /\ ~AckSlots(c)[c].mem /\ AckSlots(c)[c].retx = slots[c].retx
        /\ AckSlots(c)[c].size = slots[c].size
        /\ \A s \in SN : s # c => AckSlots(c)[s] = slots[s]
    BY AckSlotsShape DEF SamePayload
  <2>4. NoPdu.retx = 0 /\ NoPdu.size = 0 /\ ~NoPdu.mem
    BY DEF NoPdu
  <2>5. ASSUME NEW s \in SN
        PROVE  /\ slots'[s].retx \in Int /\ slots'[s].retx >= -1 /\ slots'[s].size \in Nat
               /\ slots'[s].mem <=> slots[s].mem /\ s # c
               /\ slots'[s].mem => slots'[s] = slots[s]
               /\ Weight(slots'[s]) = IF s = c THEN 0 ELSE Weight(slots[s])
    <3>1. PICK p : p = slots'[s]
      OBVIOUS
    <3>2. CASE Dist(vt_a, s) < k
      <4>1. p = NoPdu
        BY <2>2, <3>1, <3>2
      <4>2. s = c \/ ~slots[s].mem
        BY <2>2, <3>2, FlagsOfSlot
      <4>3. p.retx = 0 /\ p.size = 0 /\ ~p.mem
        BY <2>4, <4>1
      <4>4. p.retx \in Int /\ p.retx >= -1 /\ p.size \in Nat /\ Weight(p) = 0
        BY <4>3, WeightIs
      <4> QED
        BY <1>1, <3>1, <4>2, <4>3, <4>4
    <3>3. CASE ~(Dist(vt_a, s) < k) /\ s = c
      <4>1. p = AckSlots(c)[c]
        BY <2>2, <3>1, <3>3
      <4>2. ~p.mem /\ p.retx = slots[c].retx /\ p.size = slots[c].size
        BY <2>3, <4>1
      <4>3. Weight(p) = 0
        BY <1>1, <4>2, WeightIs
      <4> QED
        BY <1>1, <3>1, <3>3, <4>2, <4>3
    <3>4. CASE ~(Dist(vt_a, s) < k) /\ s # c
      <4>1. slots'[s] = slots[s]
        BY <2>2, <2>3, <3>4
      <4> QED
        BY <1>1, <3>4, <4>1
    <3> QED
      BY <3>2, <3>3, <3>4
  <2>6. Held' = Held \ {c}
    <3>1. \A s \in SN : s \in Held' <=> slots'[s].mem
      BY DEF WindowHolds, Held, Outstanding
    <3>2. \A s \in SN : s \in Held <=> slots[s].mem
      BY FlagsOfSlot
    <3>3. Held \subseteq SN /\ Held' \subseteq SN
      BY DEF Held, Outstanding
    <3> QED
      BY <2>5, <3>1, <3>2, <3>3
  <2> QED
    BY <2>5, <2>6 DEF AckEffect
<1> QED
  BY <1>2, <1>3

\* rlc_am_ack_pdu counts and confirms when the PDU is held.
LEMMA AckFrees ==
  ASSUME TxInvariant, NEW c \in SN, AckPdu(c)
  PROVE  /\ c \in Held => /\ num_pdus' = num_pdus - 1
                          /\ to_retransmit' = to_retransmit - IF slots[c].retx >= 0
                                                              THEN PduBytes(slots[c]) ELSE 0
                          /\ SdusDone(slots[c].sdus, "yes")
         /\ c \notin Held => /\ num_pdus' = num_pdus - 0 /\ to_retransmit' = to_retransmit - 0
                             /\ UNCHANGED sdu_vars
<1>1. /\ slots[c].mem \in BOOLEAN /\ slots[c].ack \in BOOLEAN
      /\ c \in Held <=> slots[c].mem
      /\ slots[c].mem => ~slots[c].ack
  BY FlagsOfSlot
<1>2. PICK freed : freed = (~slots[c].ack /\ slots[c].mem)
  OBVIOUS
<1>3. /\ num_pdus' = num_pdus - IF freed THEN 1 ELSE 0
      /\ to_retransmit' = to_retransmit - IF freed /\ slots[c].retx >= 0
                                          THEN PduBytes(slots[c]) ELSE 0
      /\ IF freed THEN SdusDone(slots[c].sdus, "yes") ELSE UNCHANGED sdu_vars
  BY <1>2 DEF AckPdu
<1>4. CASE c \in Held
  <2>1. freed = TRUE
    BY <1>1, <1>2, <1>4
  <2> QED
    BY <1>3, <1>4, <2>1
<1>5. CASE c \notin Held
  <2>1. freed = FALSE
    BY <1>1, <1>2, <1>5
  <2> QED
    BY <1>3, <1>5, <2>1
<1> QED
  BY <1>4, <1>5

LEMMA AckCounted ==
  ASSUME TxInvariant, WindowHolds', SlotCounters, NEW c \in SN, AckPdu(c), vt_s' = vt_s
  PROVE  SlotCounters'
<1>1. AckEffect(c)
  BY AckEffectIs
<1>2. PICK F, G : F = Weights(slots) /\ G = Weights(slots')
  OBVIOUS
<1>3. \A t \in SN : F[t] = Weight(slots[t]) /\ F[t] \in Int
  BY <1>2, WeightsAre
<1>4. \A t \in SN : G[t] = IF t = c THEN 0 ELSE F[t]
  BY <1>1, <1>2, <1>3 DEF AckEffect, Weights
<1>5. Total(G, SN) = Total(F, SN) + (G[c] - F[c])
  <2>1. IsFiniteSet(SN) /\ \A t \in SN : F[t] \in Int /\ G[t] \in Int
    BY <1>3, <1>4, SnFinite
  <2>2. \A t \in SN \ {c} : G[t] = F[t]
    BY <1>4
  <2> QED
    BY <2>1, <2>2, TotalChanged
<1>6. PICK n \in Int, x \in Int, w \in Int :
        n = num_pdus /\ x = to_retransmit /\ w = F[c] /\ w = Weight(slots[c])
  <2>1. num_pdus \in Int
    BY SnFinite DEF SlotCounters
  <2>2. to_retransmit \in Int
    BY <1>2, <1>3, SnFinite, TotalInt DEF SlotCounters
  <2> QED
    BY <1>3, <2>1, <2>2
<1>7. Total(G, SN) = x - w
  <2>1. G[c] = 0 /\ Total(F, SN) = x
    BY <1>2, <1>4, <1>6 DEF SlotCounters
  <2> QED
    BY <1>5, <1>6, <2>1
<1>8. to_retransmit' = x - w
  <2>1. CASE c \in Held
    <3>1. slots[c].mem /\ w = IF slots[c].retx >= 0 THEN PduBytes(slots[c]) ELSE 0
      BY <1>6, <2>1 DEF Held, Weight
    <3> QED
      BY <1>6, <2>1, <3>1, AckFrees
  <2>2. CASE c \notin Held
    <3>1. w = 0
      BY <1>6, <2>2, FlagsOfSlot DEF Weight
    <3> QED
      BY <1>6, <2>2, <3>1, AckFrees
  <2> QED
    BY <2>1, <2>2
<1>9. num_pdus' = Cardinality(Held')
  <2>1. IsFiniteSet(Held) /\ Held' = Held \ {c}
    BY <1>1, SnFinite DEF AckEffect
  <2>2. CASE c \in Held
    <3>1. Cardinality(Held \ {c}) = Cardinality(Held) - 1
      BY <2>1, <2>2, FS_RemoveElement
    <3> QED
      BY <2>1, <2>2, <3>1, AckFrees DEF SlotCounters
  <2>3. CASE c \notin Held
    <3>1. Held \ {c} = Held
      BY <2>3
    <3>2. num_pdus' = n
      BY <1>6, <2>3, AckFrees
    <3> QED
      BY <1>6, <2>1, <3>1, <3>2 DEF SlotCounters
  <2> QED
    BY <2>2, <2>3
<1> QED
  BY <1>1, <1>2, <1>7, <1>8, <1>9 DEF SlotCounters, AckEffect

LEMMA NewCounted ==
  ASSUME TxInvariant, WindowHolds', SduFields, SlotCounters, NEW g \in Grants, TransmitNew(g)
  PROVE  SlotCounters' /\ Held' = Held \cup {vt_s} /\ vt_s \notin Held
<1>1. PICK p : /\ p = NewPdu(NewSize(g), {NextSdu(current_sdu, j) : j \in NewPart(g)})
               /\ slots' = [slots EXCEPT ![vt_s] = p]
  BY TransmitNewSdus
<1>2. p.mem /\ p.size = NewSize(g) /\ p.retx = -1
  BY <1>1, NewPduShape
<1>3. p.size \in Nat
  BY <1>2, NewSizeIs
<1>4. /\ vt_s \in SN /\ (\A t \in SN : t \in Outstanding' <=> t \in Outstanding \/ t = vt_s)
      /\ vt_s \notin Outstanding
  BY WindowGrows, OutstandingIs
<1>5. \A t \in SN : slots'[t] = IF t = vt_s THEN p ELSE slots[t]
  BY <1>1, <1>4 DEF TxInvariant, TxFields, SlotsShape
<1>6. \A t \in SN : /\ slots'[t].retx \in Int /\ slots'[t].retx >= -1
                    /\ slots'[t].size \in Nat
  BY <1>2, <1>3, <1>5 DEF SlotCounters
<1>7. PICK F, G : F = Weights(slots) /\ G = Weights(slots')
  OBVIOUS
<1>8. \A t \in SN : F[t] = Weight(slots[t]) /\ F[t] \in Int
  BY <1>7, WeightsAre
<1>9. ASSUME NEW t \in SN PROVE G[t] = F[t]
  <2>1. G[t] = Weight(slots'[t])
    BY <1>7 DEF Weights
  <2>2. CASE t = vt_s
    <3>1. Weight(slots[t]) = 0
      <4>1. ~slots[t].mem
        BY <1>4, <2>2, FlagsOfSlot
      <4> QED
        BY <4>1 DEF Weight
    <3>2. Weight(p) = 0
      BY <1>2, <1>3, WeightIs
    <3>3. slots'[t] = p
      BY <1>5, <2>2
    <3> QED
      BY <1>8, <2>1, <3>1, <3>2, <3>3
  <2>3. CASE t # vt_s
    <3>1. slots'[t] = slots[t]
      BY <1>5, <2>3
    <3> QED
      BY <1>8, <2>1, <3>1
  <2> QED
    BY <2>2, <2>3
<1>10. Total(F, SN) = Total(G, SN)
  BY <1>9, SnFinite, TotalSame
<1>11. Held' = Held \cup {vt_s} /\ vt_s \notin Held
  <2>1. vt_s \notin Held
    BY <1>4 DEF Held
  <2>2. \A t \in SN : t \in Held' <=> t \in Held \/ t = vt_s
    BY <1>2, <1>4, <1>5 DEF Held
  <2>3. Held \subseteq SN /\ Held' \subseteq SN
    BY DEF Held, Outstanding
  <2> QED
    BY <1>4, <2>1, <2>2, <2>3
<1>12. num_pdus' = Cardinality(Held')
  <2>1. Cardinality(Held \cup {vt_s}) = Cardinality(Held) + 1
    BY <1>11, SnFinite, FS_AddElement
  <2>2. num_pdus' = num_pdus + 1
    BY DEF TransmitNew
  <2> QED
    BY <1>11, <2>1, <2>2 DEF SlotCounters
<1>13. to_retransmit' = Total(G, SN)
  BY <1>7, <1>10 DEF TransmitNew, SlotCounters
<1> QED
  BY <1>6, <1>7, <1>11, <1>12, <1>13 DEF SlotCounters

-----------------------------------------------------------------------------
\* While no PDU is given up, a NACK leaves the SDUs alone.
LEMMA NackLeavesSdus ==
  ASSUME TxInvariant, SlotCounters, NoneGivenUp, NoneGivenUp', NEW sn \in SN, NackDone(sn)
  PROVE  UNCHANGED sdu_vars
<1>1. slots'[sn].retx = More(slots[sn].retx)
  BY DEF NackDone, TxInvariant, TxFields, SlotsShape
<1>2. PICK x \in Int : x = slots[sn].retx /\ More(slots[sn].retx) = x + 1
  BY MoreIs DEF SlotCounters, NoneGivenUp
<1>3. x + 1 < MaxRetx
  BY <1>1, <1>2 DEF NoneGivenUp
<1>4. ~(More(slots[sn].retx) >= MaxRetx)
  BY <1>2, <1>3, TxSizeAssumption
<1> QED
  BY <1>4 DEF NackDone, NackSdus

\* A held PDU is repeated or NACKed.
HeldAgain(sn) ==
  RepeatDone(sn) \/ NackDone(sn)

LEMMA SenderCases ==
  ASSUME TxInvariant, SlotCounters, NoneGivenUp, NoneGivenUp', SenderStep
  PROVE  \/ \E size \in SduSizes : DataReq(size)
         \/ DataReqDropped
         \/ \E g \in Grants : TransmitNew(g)
         \/ \E sn \in Held : HeldAgain(sn) /\ vt_s' = vt_s /\ UNCHANGED sdu_vars
         \/ \E c \in SN : AckPdu(c) /\ vt_s' = vt_s
         \/ UNCHANGED <<vt_a, vt_s, slots, retrans_vars, sdu_vars>>
<1>0. Held \subseteq SN
  BY DEF Held, Outstanding
<1>1. ASSUME NEW g \in Grants, RetransmitWhole(g) \/ RetransmitSegment(g)
      PROVE  \E sn \in Held : HeldAgain(sn) /\ vt_s' = vt_s /\ UNCHANGED sdu_vars
  <2>1. first_retrans \in Held /\ RepeatDone(first_retrans)
    BY <1>1, RepeatIs
  <2>2. vt_s' = vt_s
    BY <1>1 DEF RetransmitWhole, RetransmitSegment
  <2>3. UNCHANGED sdu_vars
    BY <2>1 DEF RepeatDone
  <2> QED
    BY <2>1, <2>2, <2>3 DEF HeldAgain
<1>2. ASSUME NEW g \in Grants, RetransmitAny(g)
      PROVE  \E sn \in Held : HeldAgain(sn) /\ vt_s' = vt_s /\ UNCHANGED sdu_vars
  <2>1. PICK sn \in Held : NackDone(sn)
    BY <1>2, AnyIs
  <2>2. vt_s' = vt_s
    BY <1>2 DEF RetransmitAny
  <2> QED
    BY <1>0, <2>1, <2>2, NackLeavesSdus DEF HeldAgain
<1>3. ASSUME StatusStep
      PROVE  \/ \E sn \in Held : HeldAgain(sn) /\ vt_s' = vt_s /\ UNCHANGED sdu_vars
             \/ \E c \in SN : AckPdu(c) /\ vt_s' = vt_s
             \/ UNCHANGED <<vt_a, vt_s, slots, retrans_vars, sdu_vars>>
  <2>1. ctrl.cursor \in SN /\ vt_s' = vt_s
    BY <1>3 DEF TxInvariant, TxFields, StatusStep
  <2>2. CASE AtNack
    <3>1. PICK first, start, stop : NackPdu(ctrl.cursor, first, start, stop)
      BY <1>3, <2>2 DEF StatusStep, AtNack
    <3>2. \/ ctrl.cursor \in Held /\ NackDone(ctrl.cursor)
          \/ UNCHANGED <<slots, vt_a, retrans_vars, sdu_vars>>
      BY <2>1, <3>1, NackPduIs
    <3> QED
      BY <2>1, <3>2, NackLeavesSdus DEF HeldAgain
  <2>3. CASE ~AtNack
    BY <1>3, <2>1, <2>3 DEF StatusStep
  <2> QED
    BY <2>2, <2>3
<1> QED
  BY <1>1, <1>2, <1>3 DEF SenderStep, GetPdus

LEMMA SlotCountersStep ==
  ASSUME TxInvariant, TxInvariant', SduFields, SlotCounters, NoneGivenUp, NoneGivenUp',
         SenderStep
  PROVE  SlotCounters'
<1>1. WindowHolds' /\ Held \subseteq SN
  BY DEF TxInvariant, Held, Outstanding
<1>2. ASSUME UNCHANGED <<vt_a, vt_s, slots, retrans_vars>>
      PROVE  SlotCounters'
  <2>1. Held' = Held
    BY <1>2 DEF Held, Outstanding
  <2> QED
    BY <1>2, <2>1 DEF SlotCounters, retrans_vars
<1>3. ASSUME NEW size \in SduSizes, DataReq(size) PROVE SlotCounters'
  BY <1>2, <1>3 DEF DataReq
<1>4. CASE DataReqDropped
  BY <1>2, <1>4 DEF DataReqDropped
<1>5. ASSUME NEW g \in Grants, TransmitNew(g) PROVE SlotCounters'
  BY <1>1, <1>5, NewCounted
<1>6. ASSUME NEW sn \in Held, HeldAgain(sn), vt_s' = vt_s PROVE SlotCounters'
  BY <1>1, <1>6, RepeatCounted, NackCounted DEF HeldAgain
<1>7. ASSUME NEW c \in SN, AckPdu(c), vt_s' = vt_s PROVE SlotCounters'
  BY <1>1, <1>7, AckCounted
<1> QED
  BY <1>2, <1>3, <1>4, <1>5, <1>6, <1>7, SenderCases
-----------------------------------------------------------------------------
LEMMA UnsentIs ==
  ASSUME SduFields
  PROVE  \A i \in Ring : Unsent(sdus)[i] = sdus[i].remaining /\ Unsent(sdus)[i] \in Nat
BY DEF SduFields, SduShape, Unsent

\* rlc_am_data_req writes to a descriptor with nothing left to send.
LEMMA DataReqCounted ==
  ASSUME SduFields, SduCounter, NEW size \in SduSizes, DataReq(size)
  PROVE  SduCounter'
<1>1. PICK F, G, n : F = Unsent(sdus) /\ G = Unsent(sdus') /\ n = next_sdu
  OBVIOUS
<1>2. n \in Ring /\ ~sdus[n].mem /\ SduShape(sdus[n])
  BY <1>1 DEF DataReq, SduFields
<1>3. /\ SduFields' /\ occupancy' = occupancy + size /\ size \in Nat
      /\ sdus' = [i \in Ring |-> IF i = n THEN NewSdu(size) ELSE sdus[i]]
      /\ NewSdu(size).remaining = size
  BY <1>1, DataReqFields
<1>4. \A i \in Ring : F[i] = sdus[i].remaining /\ F[i] \in Nat
  BY <1>1, UnsentIs
<1>5. F[n] = 0
  BY <1>2, <1>4 DEF SduShape
<1>6. G[n] = size /\ \A i \in Ring \ {n} : G[i] = F[i]
  BY <1>1, <1>2, <1>3 DEF Unsent
<1>7. IsFiniteSet(Ring) /\ \A i \in Ring : F[i] \in Int /\ G[i] \in Int
  BY <1>3, <1>4, <1>6, RingFacts
<1>8. Total(G, Ring) = Total(F, Ring) + (G[n] - F[n])
  <2>1. \A i \in Ring \ {n} : G[i] = F[i]
    BY <1>6
  <2> QED
    BY <1>2, <1>7, <2>1, TotalChanged
<1>9. Total(F, Ring) = occupancy /\ occupancy \in Int
  BY <1>1 DEF SduCounter, SduFields
<1>10. Total(G, Ring) = occupancy'
  BY <1>3, <1>5, <1>6, <1>8, <1>9
<1> QED
  BY <1>1, <1>10 DEF SduCounter

\* What rlc_am_segment_10 takes of the SDUs is the size of the PDU.
LEMMA TransmitNewCounted ==
  ASSUME SduFields, SduCounter, NEW g \in Grants, TransmitNew(g)
  PROVE  SduCounter'
<1>0. PICK F, H, T, b :
        /\ F = Unsent(sdus) /\ H = Unsent(sdus') /\ T = TakenOf(g)
        /\ b = [i \in Ring |-> PlaceOf(current_sdu, i)]
  OBVIOUS
<1>1. PICK G : G = [i \in Ring |-> T[b[i]]]
  OBVIOUS
<1>2. current_sdu \in Ring
  BY DEF SduFields
<1>3. \A i \in Ring : b[i] \in Ring /\ NextSdu(current_sdu, b[i]) = i
  BY <1>0, <1>2, PlaceIs, PlaceNext
<1>4. \A i \in Ring : T[i] \in Nat
  BY <1>0, NewSizeIs
<1>5. \A i \in Ring : F[i] \in Int /\ G[i] \in Int /\ H[i] = F[i] - G[i]
  <2>1. \A i \in Ring : sdus'[i].remaining = sdus[i].remaining - TakenOf(g)[PlaceOf(current_sdu, i)]
    BY TransmitNewSdus
  <2>2. \A i \in Ring : G[i] = T[b[i]] /\ b[i] = PlaceOf(current_sdu, i) /\ H[i] = sdus'[i].remaining
    BY <1>0, <1>1 DEF Unsent
  <2>3. \A i \in Ring : F[i] = sdus[i].remaining /\ F[i] \in Nat
    BY <1>0, UnsentIs
  <2> QED
    BY <1>0, <1>3, <1>4, <2>1, <2>2, <2>3
<1>6. Total(H, Ring) = Total(F, Ring) - Total(G, Ring)
  BY <1>5, RingFacts, TotalMinus
<1>7. Total(G, Ring) = Total(T, Ring)
  <2>1. \A i \in Ring : G[i] \in Int /\ b[i] \in Ring /\ T[b[i]] = G[i]
    BY <1>1, <1>3, <1>5
  <2>2. \A i, j \in Ring : b[i] = b[j] => i = j
    BY <1>3
  <2>3. \A z \in Ring : T[z] \in Int /\ \E i \in Ring : b[i] = z
    <3> TAKE z \in Ring
    <3>1. NextSdu(current_sdu, z) \in Ring /\ b[NextSdu(current_sdu, z)] = z
      BY <1>0, <1>2, NextSduIs, PlaceNext
    <3> QED
      BY <1>4, <3>1
  <2>4. IsFiniteSet(Ring)
    BY RingFacts
  <2> QED
    BY <2>1, <2>2, <2>3, <2>4, TotalMoved
<1>8. NewSize(g) = Total(T, Ring) /\ occupancy' = occupancy - NewSize(g)
  BY <1>0, NewSizeIs, TransmitNewSdus
<1>9. Total(F, Ring) = occupancy
  BY <1>0 DEF SduCounter
<1> QED
  BY <1>0, <1>6, <1>7, <1>8, <1>9 DEF SduCounter

\* An SDU that is confirmed has nothing left to send.
LEMMA AckLeavesUnsent ==
  ASSUME TxInvariant, SduFields, SduCounter, NEW c \in SN, AckPdu(c)
  PROVE  SduCounter'
<1>1. CASE c \notin Held
  <2>1. UNCHANGED sdu_vars
    BY <1>1, AckFrees
  <2> QED
    BY <2>1 DEF SduCounter, sdu_vars
<1>2. CASE c \in Held
  <2>1. PICK s : SdusDone(s, "yes")
    BY <1>2, AckFrees
  <2>2. occupancy' = occupancy /\ sdus' = SdusLeft(s, "yes")
    BY <2>1, SdusDoneFields
  <2>3. ASSUME NEW i \in Ring PROVE sdus'[i].remaining = sdus[i].remaining
    <3>1. CASE i \in Finished(s, "yes")
      <4>1. sdus[i].remaining = 0
        BY <3>1 DEF Finished
      <4>2. sdus'[i] = [NoSdu EXCEPT !.done = TRUE]
        BY <2>2, <3>1 DEF SdusLeft
      <4> QED
        BY <4>1, <4>2, NoSduShape
    <3>2. CASE i \notin Finished(s, "yes")
      <4>1. sdus'[i] = CountedSdus(s)[i]
        BY <2>2, <3>2 DEF SdusLeft
      <4> QED
        BY <4>1, CountedIs
    <3> QED
      BY <3>1, <3>2
  <2>4. \A i \in Ring : Unsent(sdus')[i] = Unsent(sdus)[i]
    BY <2>3 DEF Unsent
  <2>5. Total(Unsent(sdus'), Ring) = Total(Unsent(sdus), Ring)
    BY <2>4, RingFacts, TotalSame
  <2> QED
    BY <2>2, <2>5 DEF SduCounter
<1> QED
  BY <1>1, <1>2

LEMMA SduCounterStep ==
  ASSUME TxInvariant, SduFields, SlotCounters, SduCounter, NoneGivenUp, NoneGivenUp',
         SenderStep
  PROVE  SduCounter'
<1>1. ASSUME UNCHANGED sdu_vars PROVE SduCounter'
  BY <1>1 DEF SduCounter, sdu_vars
<1>2. CASE DataReqDropped
  BY <1>2, DroppedFields DEF SduCounter
<1> QED
  BY <1>1, <1>2, SenderCases, DataReqCounted, TransmitNewCounted, AckLeavesUnsent

CountInvariant == TxInvariant /\ SduFields /\ SlotCounters /\ SduCounter

LEMMA CountInvariantStep ==
  CountInvariant /\ TxInvariant' /\ NoneGivenUp /\ NoneGivenUp' /\ SenderStep => CountInvariant'
BY SduFieldsStep, SlotCountersStep, SduCounterStep DEF CountInvariant

LEMMA CountInvariantInit == TxInit => CountInvariant
<1> SUFFICES ASSUME TxInit PROVE CountInvariant
  OBVIOUS
<1>1. TxInvariant /\ SduFields
  BY TxInvariantInit, SduFieldsInit
<1>2. /\ slots = [sn \in SN |-> NoPdu] /\ num_pdus = 0 /\ to_retransmit = 0 /\ occupancy = 0
      /\ sdus = [i \in Ring |-> NoSdu] /\ vt_a = 0 /\ vt_s = 0
  BY DEF TxInit, Ring
<1>3. \A sn \in SN : slots[sn] = NoPdu
  BY <1>2
<1>4. NoPdu.retx = 0 /\ NoPdu.size = 0 /\ ~NoPdu.mem
  BY DEF NoPdu
<1>5. Held = {}
  BY <1>3, <1>4 DEF Held, Outstanding
<1>6. \A sn \in SN : Weights(slots)[sn] = 0
  BY <1>3, <1>4 DEF Weights, Weight
<1>7. Total(Weights(slots), SN) = 0
  <2>1. PICK F : F = Weights(slots)
    OBVIOUS
  <2>2. IsFiniteSet(SN) /\ {} \in SUBSET SN /\ (\A sn \in SN : F[sn] \in Int) /\ \A sn \in SN \ {} : F[sn] = 0
    BY <1>6, <2>1, SnFinite
  <2>3. Total(F, SN) = Total(F, {})
    BY <2>2, TotalZeros
  <2> QED
    BY <2>1, <2>3, TotalEmpty
<1>8. Total(Unsent(sdus), Ring) = 0
  <2>1. PICK F : F = Unsent(sdus)
    OBVIOUS
  <2>2. \A i \in Ring : F[i] = 0
    BY <1>2, <2>1, NoSduShape DEF Unsent
  <2>3. IsFiniteSet(Ring) /\ {} \in SUBSET Ring /\ (\A i \in Ring : F[i] \in Int) /\ \A i \in Ring \ {} : F[i] = 0
    BY <2>2, RingFacts
  <2>4. Total(F, Ring) = Total(F, {})
    BY <2>3, TotalZeros
  <2> QED
    BY <2>1, <2>4, TotalEmpty
<1>9. Cardinality(Held) = 0
  BY <1>5, FS_EmptySet
<1>10. SlotCounters
  BY <1>2, <1>3, <1>4, <1>7, <1>9 DEF SlotCounters
<1>11. SduCounter
  BY <1>2, <1>8 DEF SduCounter
<1> QED
  BY <1>1, <1>10, <1>11 DEF CountInvariant

\* Whatever status reports arrive, retrans_num_pdus, retrans_num_bytes_to_retransmit and
\* the buffer occupancy are those of the buffers, as long as rlc_am_nack_pdu gives no
\* PDU up: then it frees SDUs of which bytes wait, and leaves the occupancy as it is.
THEOREM TxCountersSafe == TxSpec /\ []NoneGivenUp => []CountersExact
<1>1. CountInvariant /\ NoneGivenUp /\ NoneGivenUp' /\ [TxNext]_tx_vars => CountInvariant'
  <2>1. CountInvariant /\ [TxNext]_tx_vars => TxInvariant' /\ SenderStep
    BY TxInvariantStep, TxIsSenderStep DEF CountInvariant
  <2> QED
    BY <2>1, CountInvariantStep
<1>2. CountInvariant => CountersExact
  BY CountersAreExact DEF CountInvariant
<1> QED
  BY <1>1, <1>2, CountInvariantInit, PTL DEF TxSpec

\* The same with a peer and a link.
THEOREM LinkCountersSafe == LinkSpec /\ []NoneGivenUp => []CountersExact
<1>1. CountInvariant /\ NoneGivenUp /\ NoneGivenUp' /\ [LinkNext]_link_vars => CountInvariant'
  <2>1. CountInvariant /\ [LinkNext]_link_vars => TxInvariant' /\ SenderStep
    BY LinkInvariantStep, LinkIsSenderStep DEF CountInvariant
  <2> QED
    BY <2>1, CountInvariantStep
<1>2. CountInvariant => CountersExact
  BY CountersAreExact DEF CountInvariant
<1>3. LinkInit => CountInvariant
  BY CountInvariantInit DEF LinkInit
<1> QED
  BY <1>1, <1>2, <1>3, PTL DEF LinkSpec

-----------------------------------------------------------------------------
(* The accounts of the SDUs.                                                *)

\* The PDUs of H, held in the slots s, with a part of the SDU at i.
Users(H, s, i) == {sn \in H : i \in s[sn].sdus}

\* The ring d, the PDUs of H in the slots s, and the confirmations f agree.
UsersKnown(d, H, s) ==
  \A sn \in H : s[sn].sdus \subseteq Ring /\ \A i \in s[sn].sdus : d[i].mui # 0
UsersCounted(d, H, s) ==
  \A i \in Ring : d[i].mui # 0 =>
    /\ d[i].nb_pdus = d[i].nb_ack + Cardinality(Users(H, s, i))
    /\ d[i].nb_pdus = d[i].nb_ack => d[i].remaining > 0
MuisFree(d) == \A i \in Ring : d[i].mui = 0 => d[i].remaining = 0
MuisUnique(d) == \A i, j \in Ring : d[i].mui # 0 /\ d[i].mui = d[j].mui => i = j
MuisOpen(d, f) ==
  /\ \A i \in Ring : d[i].mui # 0 => d[i].mui \in DOMAIN f /\ f[d[i].mui] = "none"
  /\ \A m \in DOMAIN f : f[m] # "again" /\ (f[m] = "none" => \E i \in Ring : d[i].mui = m)

Accounts ==
  /\ UsersKnown(sdus, Held, slots) /\ UsersCounted(sdus, Held, slots)
  /\ MuisFree(sdus) /\ MuisUnique(sdus) /\ MuisOpen(sdus, conf)

LEMMA AccountsAreRight == SduFields /\ Accounts => SdusAccounted
<1> SUFFICES ASSUME SduFields, Accounts PROVE SdusAccounted
  OBVIOUS
<1>1. DOMAIN sdus = Ring /\ DOMAIN conf = 1 .. Len(conf)
  BY SeqOfElements DEF SduFields, IsSeq
<1>2. \A m \in DOMAIN conf : m # 0
  BY <1>1
<1>3. \A m \in DOMAIN conf : /\ conf[m] # "again"
                             /\ conf[m] = "none" <=> \E i \in DOMAIN sdus : sdus[i].mui = m
  BY <1>1, <1>2 DEF Accounts, MuisOpen
<1>4. \A i \in DOMAIN sdus : sdus[i].mui # 0 =>
        /\ sdus[i].nb_pdus = sdus[i].nb_ack + Cardinality({sn \in Held : i \in slots[sn].sdus})
        /\ sdus[i].nb_pdus = sdus[i].nb_ack => sdus[i].remaining > 0
  BY <1>1 DEF Accounts, UsersCounted, Users
<1>5. \A sn \in Held : \A i \in slots[sn].sdus : sdus[i].mui # 0
  BY DEF Accounts, UsersKnown
<1> QED
  BY <1>3, <1>4, <1>5 DEF SdusAccounted

LEMMA UsersFinite ==
  ASSUME NEW i
  PROVE  /\ IsFiniteSet(Users(Held, slots, i))
         /\ Cardinality(Users(Held, slots, i)) \in Nat
<1>1. Users(Held, slots, i) \subseteq Held
  BY DEF Users
<1> QED
  BY <1>1, SnFinite, FS_Subset, FS_CardinalityType

\* The PDUs stay, and the SDUs they have parts of.
LEMMA SameUsers ==
  ASSUME UsersKnown(sdus, Held, slots), UsersCounted(sdus, Held, slots), Held' = Held,
         \A sn \in Held : slots'[sn].sdus = slots[sn].sdus
  PROVE  /\ UsersKnown(sdus, Held', slots') /\ UsersCounted(sdus, Held', slots')
<1>1. \A i : Users(Held', slots', i) = Users(Held, slots, i)
  BY DEF Users
<1> QED
  BY <1>1 DEF UsersKnown, UsersCounted

LEMMA SameAccounts ==
  ASSUME Accounts, Held' = Held, \A sn \in Held : slots'[sn].sdus = slots[sn].sdus,
         UNCHANGED sdu_vars
  PROVE  Accounts'
<1>1. UNCHANGED <<sdus, conf>>
  BY DEF sdu_vars
<1>2. UsersKnown(sdus, Held', slots') /\ UsersCounted(sdus, Held', slots')
  BY SameUsers DEF Accounts
<1> QED
  BY <1>1, <1>2 DEF Accounts

LEMMA DroppedAccounts ==
  ASSUME SduFields, Accounts, DataReqDropped
  PROVE  Accounts'
<1>1. /\ conf' = Append(conf, "dropped") /\ sdus' = sdus /\ IsSeq(conf)
      /\ UNCHANGED <<vt_a, vt_s, slots>>
  BY DEF DataReqDropped, SduFields
<1>2. Held' = Held
  BY <1>1 DEF Held, Outstanding
<1>3. /\ DOMAIN conf = 1 .. Len(conf) /\ Len(conf) \in Nat
      /\ DOMAIN conf' = 1 .. Len(conf')
      /\ Len(conf') = Len(conf) + 1
      /\ \A m \in 1 .. Len(conf) : conf'[m] = conf[m]
      /\ conf'[Len(conf) + 1] = "dropped"
  BY <1>1, AppendIs, SeqOfElements DEF IsSeq
<1>4. /\ \A m \in DOMAIN conf : m \in DOMAIN conf' /\ conf'[m] = conf[m]
      /\ \A m \in DOMAIN conf' : m \in DOMAIN conf \/ conf'[m] = "dropped"
  BY <1>3
<1>5. MuisOpen(sdus, conf')
  BY <1>4 DEF Accounts, MuisOpen
<1>6. UsersKnown(sdus, Held', slots') /\ UsersCounted(sdus, Held', slots')
  BY <1>1, <1>2, SameUsers DEF Accounts
<1> QED
  BY <1>1, <1>5, <1>6 DEF Accounts

\* rlc_am_data_req, when the descriptor in turn is free.
LEMMA DataReqAccounts ==
  ASSUME SduFields, Accounts, NEW size \in SduSizes, DataReq(size), sdus[next_sdu].mui = 0
  PROVE  Accounts'
<1>1. UNCHANGED <<vt_a, vt_s, slots>> /\ next_sdu \in Ring /\ IsSeq(conf)
  BY DEF DataReq, SduFields
<1>2. PICK n, d : n = next_sdu /\ d = NewSdu(size)
  OBVIOUS
<1>3. /\ sdus' = [i \in Ring |-> IF i = n THEN d ELSE sdus[i]]
      /\ d.remaining = size /\ d.mui = Len(conf) + 1 /\ d.nb_pdus = 0 /\ d.nb_ack = 0
      /\ size \in Nat /\ size > 0 /\ conf' = Append(conf, "none")
  BY <1>2, DataReqFields
<1>4. Held' = Held
  BY <1>1 DEF Held, Outstanding
<1>5. /\ DOMAIN conf = 1 .. Len(conf) /\ Len(conf) \in Nat
      /\ DOMAIN conf' = 1 .. Len(conf')
      /\ Len(conf') = Len(conf) + 1
      /\ \A m \in 1 .. Len(conf) : conf'[m] = conf[m]
      /\ conf'[Len(conf) + 1] = "none"
  BY <1>1, <1>3, AppendIs, SeqOfElements DEF IsSeq
<1>6. PICK u \in Nat : /\ u = d.mui /\ u # 0 /\ u \notin DOMAIN conf
                       /\ u \in DOMAIN conf' /\ conf'[u] = "none"
                       /\ \A m \in DOMAIN conf : m \in DOMAIN conf' /\ conf'[m] = conf[m]
                       /\ \A m \in DOMAIN conf' : m \in DOMAIN conf \/ m = u
  BY <1>3, <1>5
<1>7. /\ n \in Ring /\ sdus'[n] = d /\ sdus[n].mui = 0
      /\ \A i \in Ring : i # n => sdus'[i] = sdus[i]
  BY <1>1, <1>2, <1>3
<1>8. MuisOpen(sdus', conf')
  <2>1. \A i \in Ring : sdus'[i].mui # 0 =>
          sdus'[i].mui \in DOMAIN conf' /\ conf'[sdus'[i].mui] = "none"
    BY <1>6, <1>7 DEF Accounts, MuisOpen
  <2>2. ASSUME NEW m \in DOMAIN conf'
        PROVE  conf'[m] # "again" /\ (conf'[m] = "none" => \E i \in Ring : sdus'[i].mui = m)
    <3>1. CASE m = u
      BY <1>6, <1>7, <3>1
    <3>2. CASE m \in DOMAIN conf
      <4>1. conf'[m] = conf[m] /\ conf[m] # "again" /\ m # 0
        BY <1>5, <1>6, <3>2 DEF Accounts, MuisOpen
      <4>2. ASSUME conf[m] = "none" PROVE \E i \in Ring : sdus'[i].mui = m
        <5>1. PICK i \in Ring : sdus[i].mui = m
          BY <3>2, <4>2 DEF Accounts, MuisOpen
        <5>2. sdus'[i] = sdus[i]
          BY <1>7, <4>1, <5>1
        <5> QED
          BY <5>1, <5>2
      <4> QED
        BY <4>1, <4>2
    <3> QED
      BY <1>6, <3>1, <3>2
  <2> QED
    BY <2>1, <2>2 DEF MuisOpen
<1>9. MuisFree(sdus')
  BY <1>6, <1>7 DEF Accounts, MuisFree
<1>10. MuisUnique(sdus')
  <2>1. \A i \in Ring : i # n => sdus'[i].mui = sdus[i].mui /\ sdus[i].mui # u
    BY <1>6, <1>7 DEF Accounts, MuisOpen
  <2>2. sdus'[n].mui = u
    BY <1>6, <1>7
  <2> QED
    BY <2>1, <2>2 DEF Accounts, MuisUnique
<1>11. \A i : Users(Held', slots', i) = Users(Held, slots, i)
  BY <1>1, <1>4 DEF Users
<1>12. Users(Held, slots, n) = {}
  BY <1>7 DEF Accounts, UsersKnown, Users
<1>13. UsersCounted(sdus', Held', slots')
  <2>1. Cardinality(Users(Held', slots', n)) = 0
    BY <1>11, <1>12, FS_EmptySet
  <2>2. d.nb_pdus = d.nb_ack + Cardinality(Users(Held', slots', n)) /\ d.remaining > 0
    BY <1>3, <2>1
  <2> QED
    BY <1>7, <1>11, <2>2 DEF Accounts, UsersCounted
<1>14. UsersKnown(sdus', Held', slots')
  <2>1. \A sn \in Held : \A i \in slots[sn].sdus : i # n /\ i \in Ring /\ sdus[i].mui # 0
    BY <1>7 DEF Accounts, UsersKnown
  <2> QED
    BY <1>1, <1>4, <1>7, <2>1 DEF Accounts, UsersKnown
<1> QED
  BY <1>8, <1>9, <1>10, <1>13, <1>14 DEF Accounts

-----------------------------------------------------------------------------
\* A new PDU counts for each SDU that it has a part of.
LEMMA NewAccounts ==
  ASSUME TxInvariant, WindowHolds', SduFields, SlotCounters, Accounts, NEW g \in Grants,
         TransmitNew(g)
  PROVE  Accounts'
<1>1. PICK P : P = {NextSdu(current_sdu, j) : j \in NewPart(g)}
  OBVIOUS
<1>2. current_sdu \in Ring /\ NewPart(g) \subseteq Ring
  BY NewSizeIs DEF SduFields
<1>3. \A i \in Ring : i \in P <=> PlaceOf(current_sdu, i) \in NewPart(g)
  BY <1>1, <1>2, PlaceIs, PlaceNext
<1>4. P \subseteq Ring
  BY <1>1, <1>2, NextSduIs
<1>5. /\ conf' = conf /\ SduFields'
      /\ \A i \in Ring : sdus'[i].mui = sdus[i].mui /\ sdus'[i].nb_ack = sdus[i].nb_ack
      /\ \A i \in Ring : sdus'[i].nb_pdus = IF i \in P THEN sdus[i].nb_pdus + 1
                                                       ELSE sdus[i].nb_pdus
      /\ \A i \in Ring : i \notin P => sdus'[i] = sdus[i]
  BY <1>3, TransmitNewSdus
<1>6. \A i \in P : sdus[i].mui # 0
  <2> SUFFICES ASSUME NEW i \in P PROVE sdus[i].remaining # 0
    BY <1>4 DEF Accounts, MuisFree
  <2>1. PICK j \in NewPart(g) : j = PlaceOf(current_sdu, i) /\ j \in Ring
    BY <1>2, <1>3, <1>4
  <2>2. PICK x \in Nat : x = TakenOf(g)[j] /\ x > 0 /\ x <= Rest[j]
    BY <2>1, NewSizeIs
  <2>3. Rest[j] = sdus[i].remaining /\ Rest[j] \in Nat
    BY <1>4, <2>1, RestIs
  <2> QED
    BY <2>2, <2>3
<1>7. /\ Held' = Held \cup {vt_s} /\ vt_s \notin Held /\ vt_s \in SN /\ Held \subseteq SN
  BY NewCounted DEF TxInvariant, TxFields, Held, Outstanding
<1>8. /\ slots'[vt_s].sdus = P
      /\ \A sn \in Held : slots'[sn] = slots[sn]
  <2>1. PICK p : /\ p = NewPdu(NewSize(g), P) /\ slots' = [slots EXCEPT ![vt_s] = p]
    BY <1>1, TransmitNewSdus
  <2>2. p.sdus = P
    BY <2>1, NewPduShape
  <2>3. \A t \in SN : slots'[t] = IF t = vt_s THEN p ELSE slots[t]
    BY <2>1 DEF TxInvariant, TxFields, SlotsShape
  <2> QED
    BY <1>7, <2>2, <2>3
<1>9. \A i : Users(Held', slots', i) = IF i \in P THEN Users(Held, slots, i) \cup {vt_s}
                                       ELSE Users(Held, slots, i)
  BY <1>7, <1>8 DEF Users
<1>10. UsersKnown(sdus', Held', slots')
  <2> SUFFICES ASSUME NEW sn \in Held'
               PROVE  slots'[sn].sdus \subseteq Ring /\ \A i \in slots'[sn].sdus : sdus'[i].mui # 0
    BY DEF UsersKnown
  <2>1. slots'[sn].sdus \subseteq Ring /\ \A i \in slots'[sn].sdus : sdus[i].mui # 0
    <3>1. CASE sn = vt_s
      BY <1>4, <1>6, <1>8, <3>1
    <3>2. CASE sn \in Held
      BY <1>8, <3>2 DEF Accounts, UsersKnown
    <3> QED
      BY <1>7, <3>1, <3>2
  <2> QED
    BY <1>5, <2>1
<1>11. UsersCounted(sdus', Held', slots')
  <2> SUFFICES ASSUME NEW i \in Ring, sdus'[i].mui # 0
               PROVE  /\ sdus'[i].nb_pdus = sdus'[i].nb_ack + Cardinality(Users(Held', slots', i))
                      /\ sdus'[i].nb_pdus = sdus'[i].nb_ack => sdus'[i].remaining > 0
    BY DEF UsersCounted
  <2>1. PICK U : U = Users(Held, slots, i)
    OBVIOUS
  <2>2. IsFiniteSet(U) /\ Cardinality(U) \in Nat /\ vt_s \notin U
    BY <1>7, <2>1, UsersFinite DEF Users
  <2>3. PICK a \in Nat : a = sdus[i].nb_ack /\ a = sdus'[i].nb_ack
    BY <1>5 DEF SduFields, SduShape
  <2>4. sdus[i].nb_pdus = a + Cardinality(U) /\ (sdus[i].nb_pdus = a => sdus[i].remaining > 0)
    BY <1>5, <2>1, <2>3 DEF Accounts, UsersCounted
  <2>5. CASE i \in P
    <3>1. Cardinality(Users(Held', slots', i)) = Cardinality(U) + 1
      BY <1>9, <2>1, <2>2, <2>5, FS_AddElement
    <3>2. sdus'[i].nb_pdus = sdus[i].nb_pdus + 1
      BY <1>5, <2>5
    <3> QED
      BY <2>2, <2>3, <2>4, <3>1, <3>2
  <2>6. CASE i \notin P
    <3>1. Users(Held', slots', i) = U
      BY <1>9, <2>1, <2>6
    <3>2. sdus'[i] = sdus[i]
      BY <1>5, <2>6
    <3> QED
      BY <2>3, <2>4, <3>1, <3>2
  <2> QED
    BY <2>5, <2>6
<1>12. MuisFree(sdus')
  BY <1>5, <1>6 DEF Accounts, MuisFree
<1>13. MuisUnique(sdus') /\ MuisOpen(sdus', conf')
  BY <1>5 DEF Accounts, MuisUnique, MuisOpen
<1> QED
  BY <1>10, <1>11, <1>12, <1>13 DEF Accounts

-----------------------------------------------------------------------------
\* An acknowledged PDU no longer counts; an SDU with nothing left to send that it was
\* the last PDU of is confirmed.
LEMMA AckAccounts ==
  ASSUME TxInvariant, WindowHolds', SduFields, SlotCounters, Accounts, NEW c \in SN,
         AckPdu(c), vt_s' = vt_s
  PROVE  Accounts'
<1>1. AckEffect(c)
  BY AckEffectIs
<1>2. Held' = Held \ {c} /\ \A sn \in Held' : slots'[sn].sdus = slots[sn].sdus
  <2>1. Held' \subseteq SN /\ \A sn \in Held' : slots'[sn].mem
    BY DEF Held, Outstanding
  <2> QED
    BY <1>1, <2>1 DEF AckEffect
<1>3. CASE c \notin Held
  <2>1. Held' = Held
    BY <1>2, <1>3
  <2>2. UNCHANGED sdu_vars
    BY <1>3, AckFrees
  <2> QED
    BY <1>2, <2>1, <2>2, SameAccounts
<1>4. CASE c \in Held
  <2>1. PICK s : s = slots[c].sdus /\ SdusDone(s, "yes")
    BY <1>4, AckFrees
  <2>2. PICK Fin : Fin = Finished(s, "yes")
    OBVIOUS
  <2>3. s \subseteq Ring /\ (\A i \in s : sdus[i].mui # 0) /\ Fin \subseteq s
    BY <1>4, <2>1, <2>2 DEF Accounts, UsersKnown, Finished
  <2>4. ASSUME NEW i \in Fin PROVE sdus'[i].mui = 0 /\ sdus'[i].remaining = 0
    <3>1. sdus'[i] = [NoSdu EXCEPT !.done = TRUE]
      BY <2>1, <2>2, <2>3, <2>4, SdusDoneFields DEF SdusLeft
    <3> QED
      BY <3>1, NoSduShape
  <2>5. ASSUME NEW i \in Ring, i \notin Fin
        PROVE  /\ sdus'[i].remaining = sdus[i].remaining /\ sdus'[i].mui = sdus[i].mui
               /\ sdus'[i].nb_pdus = sdus[i].nb_pdus
               /\ sdus'[i].nb_ack = IF i \in s THEN sdus[i].nb_ack + 1 ELSE sdus[i].nb_ack
    <3>1. sdus'[i] = CountedSdus(s)[i]
      BY <2>1, <2>2, <2>5, SdusDoneFields DEF SdusLeft
    <3> QED
      BY <3>1, CountedIs
  <2>6. \A i : Users(Held', slots', i) = Users(Held, slots, i) \ {c}
    BY <1>2 DEF Users
  <2>7. ASSUME NEW i \in Ring, i \in s
        PROVE  /\ c \in Users(Held, slots, i)
               /\ IsFiniteSet(Users(Held', slots', i))
               /\ Cardinality(Users(Held', slots', i)) \in Nat
               /\ sdus[i].nb_pdus = (sdus[i].nb_ack + 1) + Cardinality(Users(Held', slots', i))
    <3>1. PICK U : U = Users(Held, slots, i)
      OBVIOUS
    <3>2. IsFiniteSet(U) /\ Cardinality(U) \in Nat /\ c \in U
      BY <1>4, <2>1, <2>7, <3>1, UsersFinite DEF Users
    <3>3. Cardinality(U \ {c}) = Cardinality(U) - 1 /\ IsFiniteSet(U \ {c})
      BY <3>2, FS_RemoveElement
    <3>4. Cardinality(U \ {c}) \in Nat
      BY <3>3, FS_CardinalityType
    <3>5. sdus[i].nb_ack \in Nat /\ sdus[i].nb_pdus = sdus[i].nb_ack + Cardinality(U)
      BY <2>3, <2>7, <3>1 DEF SduFields, SduShape, Accounts, UsersCounted
    <3>6. sdus[i].nb_pdus = (sdus[i].nb_ack + 1) + Cardinality(U \ {c})
      BY <3>2, <3>3, <3>4, <3>5
    <3> QED
      BY <2>6, <3>1, <3>2, <3>3, <3>4, <3>6
  <2>8. ASSUME NEW i \in Ring, i \in s
        PROVE  i \in Fin <=> sdus[i].nb_ack + 1 = sdus[i].nb_pdus /\ sdus[i].remaining = 0
    <3>1. CountedSdus(s)[i].nb_ack = sdus[i].nb_ack + 1
      BY <2>8, CountedIs
    <3> QED
      BY <2>2, <2>8, <3>1 DEF Finished
  <2>9. ASSUME NEW i \in Fin PROVE Users(Held', slots', i) = {}
    <3>1. i \in Ring /\ i \in s
      BY <2>3
    <3>2. Cardinality(Users(Held', slots', i)) = 0
      <4>1. PICK a \in Nat : a = sdus[i].nb_ack
        BY <3>1 DEF SduFields, SduShape
      <4>2. sdus[i].nb_pdus = a + 1
        BY <2>8, <2>9, <3>1, <4>1
      <4> QED
        BY <2>7, <3>1, <4>1, <4>2
    <3> QED
      BY <2>7, <3>1, <3>2, FS_EmptySet
  <2>10. UsersKnown(sdus', Held', slots')
    <3> SUFFICES ASSUME NEW sn \in Held'
                 PROVE  /\ slots'[sn].sdus \subseteq Ring
                        /\ \A i \in slots'[sn].sdus : sdus'[i].mui # 0
      BY DEF UsersKnown
    <3>1. slots'[sn].sdus \subseteq Ring /\ \A i \in slots'[sn].sdus : sdus[i].mui # 0
      BY <1>2 DEF Accounts, UsersKnown
    <3>2. \A i \in slots'[sn].sdus : sn \in Users(Held', slots', i)
      BY DEF Users
    <3>3. \A i \in slots'[sn].sdus : i \notin Fin
      BY <2>9, <3>2
    <3> QED
      BY <2>5, <3>1, <3>3
  <2>11. UsersCounted(sdus', Held', slots')
    <3> SUFFICES ASSUME NEW i \in Ring, sdus'[i].mui # 0
                 PROVE  /\ sdus'[i].nb_pdus = sdus'[i].nb_ack + Cardinality(Users(Held', slots', i))
                        /\ sdus'[i].nb_pdus = sdus'[i].nb_ack => sdus'[i].remaining > 0
      BY DEF UsersCounted
    <3>1. i \notin Fin
      BY <2>4
    <3>2. sdus[i].mui # 0 /\ sdus[i].remaining \in Nat
      BY <2>5, <3>1 DEF SduFields, SduShape
    <3>3. CASE i \in s
      <4>1. sdus'[i].nb_ack = sdus[i].nb_ack + 1 /\ sdus'[i].nb_pdus = sdus[i].nb_pdus
            /\ sdus'[i].remaining = sdus[i].remaining
        BY <2>5, <3>1, <3>3
      <4>2. sdus[i].nb_ack + 1 = sdus[i].nb_pdus => sdus[i].remaining > 0
        BY <2>8, <3>1, <3>2, <3>3
      <4> QED
        BY <2>7, <3>3, <4>1, <4>2
    <3>4. CASE i \notin s
      <4>1. c \notin Users(Held, slots, i)
        BY <2>1, <3>4 DEF Users
      <4>2. Users(Held', slots', i) = Users(Held, slots, i)
        BY <2>6, <4>1
      <4> QED
        BY <2>5, <3>1, <3>2, <3>4, <4>2 DEF Accounts, UsersCounted
    <3> QED
      BY <3>3, <3>4
  <2>12. MuisFree(sdus')
    BY <2>4, <2>5 DEF Accounts, MuisFree
  <2>13. MuisUnique(sdus')
    BY <2>4, <2>5 DEF Accounts, MuisUnique
  <2>14. conf' = [m \in DOMAIN conf |-> IF \E i \in Fin : sdus[i].mui = m
                                        THEN Confirmed(m, "yes") ELSE conf[m]]
    BY <2>1, <2>2 DEF SdusDone
  <2>15. ASSUME NEW m \in DOMAIN conf, NEW i \in Fin, sdus[i].mui = m PROVE conf'[m] = "yes"
    <3>1. conf[m] = "none"
      BY <2>3, <2>15 DEF Accounts, MuisOpen
    <3> QED
      BY <2>14, <2>15, <3>1 DEF Confirmed
  <2>16. MuisOpen(sdus', conf')
    <3>1. ASSUME NEW i \in Ring, sdus'[i].mui # 0
          PROVE  sdus'[i].mui \in DOMAIN conf' /\ conf'[sdus'[i].mui] = "none"
      <4>1. PICK m : m = sdus'[i].mui /\ m = sdus[i].mui /\ m # 0 /\ i \notin Fin
        BY <2>4, <2>5, <3>1
      <4>2. m \in DOMAIN conf /\ conf[m] = "none"
        BY <4>1 DEF Accounts, MuisOpen
      <4>3. ~\E j \in Fin : sdus[j].mui = m
        BY <2>3, <4>1 DEF Accounts, MuisUnique
      <4> QED
        BY <2>14, <4>1, <4>2, <4>3
    <3>2. ASSUME NEW m \in DOMAIN conf'
          PROVE  conf'[m] # "again" /\ (conf'[m] = "none" => \E i \in Ring : sdus'[i].mui = m)
      <4>1. m \in DOMAIN conf
        BY <2>14
      <4>2. CASE \E i \in Fin : sdus[i].mui = m
        BY <2>15, <4>1, <4>2
      <4>3. CASE ~\E i \in Fin : sdus[i].mui = m
        <5>1. conf'[m] = conf[m]
          BY <2>14, <4>1, <4>3
        <5>2. conf[m] # "again" /\ (conf[m] = "none" => \E i \in Ring : sdus[i].mui = m)
          BY <4>1 DEF Accounts, MuisOpen
        <5> QED
          BY <2>5, <4>3, <5>1, <5>2
      <4> QED
        BY <4>2, <4>3
    <3> QED
      BY <3>1, <3>2 DEF MuisOpen
  <2> QED
    BY <2>10, <2>11, <2>12, <2>13, <2>16 DEF Accounts
<1> QED
  BY <1>3, <1>4

LEMMA AccountsStep ==
  ASSUME TxInvariant, TxInvariant', SduFields, SlotCounters, Accounts, NoneGivenUp,
         NoneGivenUp', SenderStep,
         \A size \in SduSizes : DataReq(size) => sdus[next_sdu].mui = 0
  PROVE  Accounts'
<1>1. WindowHolds' /\ Held \subseteq SN
  BY DEF TxInvariant, Held, Outstanding
<1>2. ASSUME NEW sn \in Held, HeldAgain(sn), vt_s' = vt_s, UNCHANGED sdu_vars PROVE Accounts'
  <2>1. PICK p : slots' = [slots EXCEPT ![sn] = p] /\ p.mem = slots[sn].mem /\ p.sdus = slots[sn].sdus
    BY <1>2 DEF HeldAgain, RepeatDone, NackDone, SamePayload
  <2>2. vt_a' = vt_a
    BY <1>2 DEF HeldAgain, RepeatDone, NackDone
  <2>3. \A t \in SN : slots'[t] = IF t = sn THEN p ELSE slots[t]
    BY <2>1 DEF TxInvariant, TxFields, SlotsShape
  <2>4. Held' = Held
    <3>1. Outstanding' = Outstanding /\ Outstanding \subseteq SN
      BY <1>2, <2>2 DEF Outstanding
    <3> QED
      BY <2>1, <2>3, <3>1 DEF Held
  <2> QED
    BY <1>1, <1>2, <2>1, <2>3, <2>4, SameAccounts
<1>3. ASSUME UNCHANGED <<vt_a, vt_s, slots, sdu_vars>> PROVE Accounts'
  <2>1. Held' = Held
    BY <1>3 DEF Held, Outstanding
  <2> QED
    BY <1>3, <2>1, SameAccounts
<1>4. ASSUME NEW size \in SduSizes, DataReq(size) PROVE Accounts'
  BY <1>4, DataReqAccounts
<1>5. CASE DataReqDropped
  BY <1>5, DroppedAccounts
<1>6. ASSUME NEW g \in Grants, TransmitNew(g) PROVE Accounts'
  BY <1>1, <1>6, NewAccounts
<1>7. ASSUME NEW c \in SN, AckPdu(c), vt_s' = vt_s PROVE Accounts'
  BY <1>1, <1>7, AckAccounts
<1> QED
  BY <1>2, <1>3, <1>4, <1>5, <1>6, <1>7, SenderCases

LEMMA AccountsInit == TxInit => Accounts
<1> SUFFICES ASSUME TxInit PROVE Accounts
  OBVIOUS
<1>1. /\ slots = [sn \in SN |-> NoPdu] /\ sdus = [i \in Ring |-> NoSdu] /\ conf = <<>>
  BY DEF TxInit, Ring
<1>2. ~NoPdu.mem
  BY DEF NoPdu
<1>3. Held = {}
  BY <1>1, <1>2 DEF Held, Outstanding
<1>4. \A i \in Ring : sdus[i].mui = 0 /\ sdus[i].remaining = 0
  BY <1>1, NoSduShape
<1>5. DOMAIN conf = {}
  BY <1>1
<1> QED
  BY <1>3, <1>4, <1>5
  DEF Accounts, UsersKnown, UsersCounted, MuisFree, MuisUnique, MuisOpen

\* What is overwritten stays so.
LEMMA OverwrittenBefore ==
  ASSUME [LinkNext]_link_vars, ~overwritten'
  PROVE  ~overwritten
BY DEF LinkNext, Submit, TimeOut, Request, Lose, Arrive, Report, LoseReport, DeliverReport,
       Process, link_vars

\* While none is overwritten, a descriptor is taken when its SDU is confirmed.
LEMMA LinkTakesFree ==
  ASSUME SduFields, [LinkNext]_link_vars, ~overwritten', NEW size \in SduSizes, DataReq(size)
  PROVE  sdus[next_sdu].mui = 0
<1>1. Len(conf') = Len(conf) + 1 /\ Len(conf) \in Nat
  BY DataReqFields, AppendIs DEF SduFields, IsSeq
<1>2. Len(conf') # Len(conf)
  BY <1>1
<1>3. Submit \/ SdusTouched \/ \E g \in Grants : TransmitNew(g)
  <2>1. CASE TimeOut \/ Lose \/ Arrive \/ Report \/ LoseReport \/ DeliverReport
             \/ UNCHANGED link_vars
    BY <2>1 DEF TimeOut, PollTimeOut, Lose, Arrive, TakePdu, Report, LoseReport, DeliverReport,
                ReceiveStatus, link_vars, tx_vars, sdu_vars, SdusTouched
  <2>2. CASE Request
    BY <2>2, RepeatTouches DEF Request, GetPdus
  <2>3. CASE Process
    BY <2>3, StatusTouches DEF Process
  <2> QED
    BY <2>1, <2>2, <2>3 DEF LinkNext
<1>4. Submit
  <2>1. CASE SdusTouched
    BY <1>2, <2>1, SdusDoneFields DEF SdusTouched, sdu_vars
  <2>2. ASSUME NEW g \in Grants, TransmitNew(g) PROVE FALSE
    BY <1>2, <2>2 DEF TransmitNew
  <2> QED
    BY <1>3, <2>1, <2>2
<1>5. ~DataReqDropped
  BY DEF DataReq, DataReqDropped
<1> QED
  BY <1>4, <1>5 DEF Submit

\* Every SDU that rlc_am_data_req takes is confirmed once, and not before the last PDU
\* with a part of it is acknowledged, for as long as rlc_am_data_req has overwritten no
\* descriptor that waits for acknowledgement and no PDU is given up.
THEOREM LinkSdusSafe == LinkSpec /\ []NoneGivenUp => []AccountedUntilOverwritten
<1> DEFINE I == CountInvariant /\ (~overwritten => Accounts)
<1>1. I /\ NoneGivenUp /\ NoneGivenUp' /\ [LinkNext]_link_vars => I'
  <2> SUFFICES ASSUME I, NoneGivenUp, NoneGivenUp', [LinkNext]_link_vars PROVE I'
    OBVIOUS
  <2>1. TxInvariant' /\ SenderStep
    BY LinkInvariantStep, LinkIsSenderStep DEF CountInvariant
  <2>2. CountInvariant'
    BY <2>1, CountInvariantStep
  <2>3. ASSUME ~overwritten' PROVE Accounts'
    <3>1. Accounts
      BY <2>3, OverwrittenBefore
    <3>2. \A size \in SduSizes : DataReq(size) => sdus[next_sdu].mui = 0
      BY <2>3, LinkTakesFree DEF CountInvariant
    <3> QED
      BY <2>1, <3>1, <3>2, AccountsStep DEF CountInvariant
  <2> QED
    BY <2>2, <2>3
<1>2. I => AccountedUntilOverwritten
  BY AccountsAreRight DEF CountInvariant, AccountedUntilOverwritten
<1>3. LinkInit => I
  BY CountInvariantInit, AccountsInit DEF LinkInit
<1> QED
  BY <1>1, <1>2, <1>3, PTL DEF LinkSpec
=============================================================================
