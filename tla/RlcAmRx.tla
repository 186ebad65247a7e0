------------------------------- MODULE RlcAmRx -------------------------------
(***************************************************************************)
(* The receiving side of an RLC AM entity (openair2/LAYER2/RLC/AM_v9.3.0):  *)
(* the list of PDUs and PDU segments that wait for reassembly               *)
(* (rlc_am_rx_list.c), the state variables VR(R), VR(MR), VR(H), VR(X),     *)
(* VR(MS) (rlc_am_receiver.c) and the status report built from the list     *)
(* (rlc_am_status_report.c).                                                *)
(*                                                                         *)
(* A handler is one step: in oaisim one thread calls both sides of an       *)
(* entity.  In the softmodem the receiving and the transmitting threads may *)
(* be in an entity at once, and AM has a lock for input_sdus only: the      *)
(* races of these threads are not modelled.                                 *)
(* Every PDU carries PduSize bytes of the stream of SDU bytes: PDU n, whose *)
(* SN is n modulo SnModulo, carries bytes n * PduSize onwards.  Reassembly  *)
(* appends bytes to the SDU in construction, so in-sequence SDUs are        *)
(* in-sequence bytes.  The peer is any sender that keeps to its window: it  *)
(* repeats PDUs whole or in segments, and the MAC loses and reorders them.  *)
(***************************************************************************)
EXTENDS Integers, Sequences, SequencesExt, FiniteSetsExt

CONSTANTS
  SnModulo,     \* RLC_AM_SN_MODULO
  WindowSize,   \* RLC_AM_WINDOW_SIZE
  PduSize,      \* bytes of data in every PDU
  RxGrants,     \* bytes that the MAC offers for a status report
  MaxPdus,      \* bound: PDUs that the peer sends
  MaxMisplaced, \* bound: PDUs that arrive from the first misplaced one on
  SoEnd         \* 0x7FFF in a NACK: up to the end of the PDU

ASSUME AmWindowAssumption ==
  WindowSize \in Nat \ {0} /\ SnModulo = 2 * WindowSize
ASSUME MisplacedAssumption == MaxMisplaced \in Nat
ASSUME PduSizeAssumption == PduSize \in Nat \ {0} /\ SoEnd \in Nat /\ SoEnd > PduSize

VARIABLES
  vr_r, vr_h, vr_x, vr_ms,
  t_reordering,      \* is t-Reordering running (no expiry is ever acted on)
  receiver_buffer,   \* the list of PDUs and segments
  status_requested,
  t_status_prohibit, \* is t-StatusProhibit running
  delivered,         \* bytes passed to PDCP in sequence
  garbled,           \* has a byte been passed to PDCP out of sequence
  sent,              \* PDUs that the peer has sent: the highest to arrive is the last
  misplaced          \* history: PDUs that arrived from the first misplaced one on

rx_vars == <<vr_r, vr_h, vr_x, vr_ms, t_reordering, receiver_buffer,
             status_requested, t_status_prohibit, delivered, garbled, sent, misplaced>>

SN == 0 .. SnModulo - 1

\* Mutant of Plus: the SN is not masked.
PlusUnmasked(sn, k) == sn + k

Plus(sn, k) == (sn + k) % SnModulo   \* & RLC_AM_SN_MASK
Dist(a, b) == (b - a) % SnModulo
VrMr == Plus(vr_r, WindowSize)   \* vr_mr, assigned together with vr_r

\* rlc_am_in_rx_window
InRxWindow(sn) == Dist(vr_r, sn) < WindowSize

\* rlc_am_pdu_info_t: a whole PDU (rf = 0), or size bytes of it from so.
Whole(n) == [n |-> n, sn |-> n % SnModulo, rf |-> FALSE, so |-> 0, size |-> PduSize,
             lsf |-> FALSE, all |-> FALSE]
Part(n, so, size) ==
  [n |-> n, sn |-> n % SnModulo, rf |-> TRUE, so |-> so, size |-> size,
   lsf |-> so + size = PduSize, all |-> FALSE]
End(x) == x.so + x.size

Pdus(n) ==
  {Whole(n)} \cup
  {Part(n, p[1], p[2]) : p \in {s \in (0 .. PduSize - 1) \X (1 .. PduSize - 1) :
                                   s[1] + s[2] <= PduSize}}

-----------------------------------------------------------------------------
(* rlc_am_rx_list_insert_pdu: the index at which x enters the list, or 0 if  *)
(* it is dropped.                                                           *)

\* Does the walk from the head end at c, because x goes before c or nowhere?
StopsAt(c, x) == x.sn < c.sn \/ (x.sn = c.sn /\ (~c.rf \/ ~x.rf \/ x.so <= c.so))

\* Mutant of FitsAt: bytes that the previous segment already has are not looked at.
FitsAtUnchecked(i, x) ==
  i <= Len(receiver_buffer) /\ receiver_buffer[i].sn = x.sn
    => x.rf /\ receiver_buffer[i].rf /\ End(x) <= receiver_buffer[i].so

\* x does not overlap its neighbours of the same SN.
FitsAt(i, x) ==
  /\ i <= Len(receiver_buffer) /\ receiver_buffer[i].sn = x.sn
       => x.rf /\ receiver_buffer[i].rf /\ End(x) <= receiver_buffer[i].so
  /\ i > 1 /\ receiver_buffer[i - 1].sn = x.sn
       => x.rf = receiver_buffer[i - 1].rf /\ End(receiver_buffer[i - 1]) <= x.so

\* The window does not contain SN 0 beyond its first place: walk from the head.
PlaceUnwrapped(x) ==
  LET i == SelectInSeq(receiver_buffer \o <<x>>, LAMBDA c : StopsAt(c, x) \/ c = x)
  IN  IF FitsAt(i, x) THEN i ELSE 0

\* The window wraps and x is before the wrap: walk from the head up to the
\* first PDU after the wrap, before which x is placed unchecked.
PlaceBeforeWrap(x) ==
  LET i == SelectInSeq(receiver_buffer \o <<x>>,
                       LAMBDA c : c.sn < vr_r \/ StopsAt(c, x) \/ c = x)
  IN  IF i <= Len(receiver_buffer) /\ receiver_buffer[i].sn < vr_r THEN i
      ELSE IF FitsAt(i, x) THEN i ELSE 0

\* The window wraps and x is after the wrap: walk from the tail.  A walk that
\* ends without finding a place appends x.
PlaceAfterWrap(x) ==
  LET b == receiver_buffer
      i == SelectLastInSeq(b, LAMBDA c : \/ c.sn >= vr_r \/ c.sn < x.sn
                                         \/ c.sn = x.sn /\ (~c.rf \/ ~x.rf \/ c.so <= x.so))
  IN  IF i = 0 THEN (IF b[1].sn = x.sn THEN 0 ELSE Len(b) + 1)
      ELSE IF b[i].sn # x.sn THEN i + 1
      ELSE IF /\ x.rf /\ b[i].rf /\ End(b[i]) <= x.so
              /\ i < Len(b) /\ b[i + 1].sn = x.sn => End(x) <= b[i + 1].so
           THEN i + 1 ELSE 0

Place(x) ==
  IF receiver_buffer = <<>> THEN 1
  ELSE IF VrMr >= vr_r THEN PlaceUnwrapped(x)
  ELSE IF x.sn >= vr_r THEN PlaceBeforeWrap(x)
  ELSE PlaceAfterWrap(x)

-----------------------------------------------------------------------------
(* What follows an insertion: list is the list with the new PDU at index i.  *)

\* Mutant of AllSegments: a hole between two segments is not noticed.
AllSegmentsHole(list, lo, hi) == list[lo].so = 0 /\ list[hi].lsf

\* rlc_am_rx_check_all_byte_segments, for the segments lo .. hi of one SN.
AllSegments(list, lo, hi) ==
  /\ list[lo].so = 0
  /\ \E k \in lo + 1 .. hi :
        /\ list[k].lsf
        /\ \A j \in lo + 1 .. k : list[j].rf /\ list[j].so <= End(list[j - 1])

\* rlc_am_rx_mark_all_segments_received
Marked(list, i) ==
  LET sn == list[i].sn
      lo == Max({j \in 1 .. i : j = 1 \/ list[j - 1].sn # sn})
      hi == Min({j \in i .. Len(list) : j = Len(list) \/ list[j + 1].sn # sn})
  IN  IF ~list[i].rf THEN [list EXCEPT ![i].all = TRUE]
      ELSE IF AllSegments(list, lo, hi)
           THEN [j \in DOMAIN list |-> IF j \in lo .. hi THEN [list[j] EXCEPT !.all = TRUE]
                                                        ELSE list[j]]
      ELSE list

\* rlc_am_rx_update_vr_ms
NextVrMs(list, i) ==
  LET j == SelectInSubSeq(list, i, Len(list), LAMBDA c : ~c.all)
  IN  IF j > 0 THEN list[j].sn ELSE Plus(Last(list).sn, 1)

\* rlc_am_rx_update_vr_r
NextVrR(list, i) ==
  FoldLeft(LAMBDA s, c : IF s.go /\ c.all /\ c.sn = s.vr
                         THEN [s EXCEPT !.vr = IF c.rf /\ ~c.lsf THEN @ ELSE Plus(@, 1)]
                         ELSE [s EXCEPT !.go = FALSE],
           [go |-> TRUE, vr |-> vr_r], SubSeq(list, i, Len(list))).vr

\* rlc_am_rx_list_reassemble_rlc_sdus: how many elements leave the list.
Reassembled(list) ==
  Max({k \in 0 .. Len(list) :
         \A j \in 1 .. k : list[j].all /\ (j > 1 => list[j].sn \in {list[j - 1].sn,
                                                                   Plus(list[j - 1].sn, 1)})})

\* rlc_am_reassemble_pdu and rlc_am_reassembly, for a sequence of PDUs.
Passed(pdus) ==
  FoldLeft(LAMBDA s, c : IF s.at = c.n * PduSize + c.so
                         THEN [s EXCEPT !.at = @ + c.size] ELSE [s EXCEPT !.bad = TRUE],
           [at |-> delivered, bad |-> garbled], pdus)

-----------------------------------------------------------------------------
(* rlc_am_send_status_pdu                                                   *)

Nack(sn, so_start, so_end) == [sn |-> sn, so_start |-> so_start, so_end |-> so_end]

\* Push a NACK of a number of bits, or end the report with ACK_SN ack.
PushNack(s, nack, bits, ack) ==
  IF s.bits >= bits
  THEN [s EXCEPT !.nacks = Append(@, nack), !.bits = @ - bits]
  ELSE [s EXCEPT !.done = TRUE, !.ack = ack]

\* Mutant of ReportGap: when the report is full the rest of the gap is left out.
ReportGapFull(s, sn) ==
  LET gap == [k \in 1 .. Dist(s.prev, sn) - 1 |-> Plus(s.prev, k)]
  IN  FoldLeft(LAMBDA r, x : IF r.bits > 12
                             THEN [r EXCEPT !.nacks = Append(@, Nack(x, 0, SoEnd)),
                                            !.bits = @ - 12, !.prev = x]
                             ELSE [r EXCEPT !.prev = x], s, gap)

\* The SNs between prev and sn are missing altogether: 12 bits each, more than
\* 12 being left.
ReportGap(s, sn) ==
  LET gap == [k \in 1 .. Dist(s.prev, sn) - 1 |-> Plus(s.prev, k)]
  IN  FoldLeft(LAMBDA r, x :
                 IF r.done THEN r
                 ELSE IF r.bits > 12
                      THEN [r EXCEPT !.nacks = Append(@, Nack(x, 0, SoEnd)),
                                     !.bits = @ - 12, !.prev = x]
                 ELSE [r EXCEPT !.done = TRUE, !.ack = x], s, gap)

\* Mutant of ReportSegment: the next missing byte is the first of the segment.
ReportSegmentStart(s, c) ==
  LET r == IF c.so > s.waited
           THEN PushNack(s, Nack(c.sn, s.waited, c.so - 1), 42, c.sn) ELSE s
  IN  IF r.done THEN r
      ELSE [r EXCEPT !.waited = IF c.lsf THEN SoEnd ELSE c.so, !.segments = @ + 1]

\* A segment c of the incomplete PDU c.sn: the bytes before it are missing.
ReportSegment(s, c) ==
  LET r == IF c.so > s.waited
           THEN PushNack(s, Nack(c.sn, s.waited, c.so - 1), 42, c.sn) ELSE s
  IN  IF r.done THEN r
      ELSE [r EXCEPT !.waited = IF c.lsf THEN SoEnd ELSE End(c), !.segments = @ + 1]

\* The end of the segments of an incomplete PDU, when another PDU follows.
CloseSegments(s) ==
  LET r == IF s.waited # SoEnd
           THEN PushNack(s, Nack(s.open, s.waited, SoEnd), 42, s.open) ELSE s
  IN  [r EXCEPT !.prev = s.open, !.open = -1, !.waited = 0, !.segments = 0]

\* A PDU whose SN is not the previous one.
ReportPdu(s, c) ==
  IF s.bits < 12 THEN [s EXCEPT !.done = TRUE, !.ack = Plus(s.prev, 1)]
  ELSE LET r == ReportGap(s, c.sn)
       IN  IF r.done THEN r
           ELSE IF c.all THEN [r EXCEPT !.prev = c.sn]
           ELSE ReportSegment([r EXCEPT !.open = c.sn], c)

Report(s, c) ==
  IF s.done THEN s
  ELSE IF s.open = c.sn THEN ReportSegment(s, c)
  ELSE LET r == IF s.open # -1 THEN CloseSegments(s) ELSE s
       IN  IF r.done \/ c.sn = r.prev THEN r ELSE ReportPdu(r, c)

\* The status report in a grant of so many bytes.  A report that ends with an
\* incomplete PDU of one segment has the ACK_SN before it.
StatusPdu(grant) ==
  LET first == SelectInSeq(receiver_buffer, LAMBDA c : InRxWindow(c.sn))
      start == [done |-> FALSE, ack |-> 0, nacks |-> <<>>, bits |-> grant * 8 - 15,
                prev |-> IF first = 1 THEN Plus(vr_r, SnModulo - 1)
                                      ELSE receiver_buffer[first - 1].sn,
                open |-> -1, waited |-> 0, segments |-> 0]
      end   == FoldLeft(Report, start,
                        SubSeq(receiver_buffer, first, Len(receiver_buffer)))
  IN  IF receiver_buffer = <<>> THEN [ack |-> vr_r, nacks |-> <<>>]
      ELSE [ack |-> IF end.done THEN end.ack
                    ELSE IF end.open = -1 THEN Plus(end.prev, 1)
                    ELSE IF end.segments = 1 THEN end.prev ELSE end.open,
            nacks |-> end.nacks]

-----------------------------------------------------------------------------
(* Operations.                                                              *)

RxInit ==
  /\ vr_r = 0 /\ vr_h = 0 /\ vr_x = 0 /\ vr_ms = 0 /\ t_reordering = FALSE
  /\ receiver_buffer = <<>> /\ status_requested = FALSE /\ t_status_prohibit = FALSE
  /\ delivered = 0 /\ garbled = FALSE /\ sent = 0 /\ misplaced = 0

\* rlc_am_receive_process_data_pdu: outside of the window.
OutOfWindow(x) ==
  /\ ~InRxWindow(x.sn)
  /\ status_requested' = TRUE
  /\ UNCHANGED <<vr_r, vr_h, vr_x, vr_ms, t_reordering, receiver_buffer,
                 t_status_prohibit, delivered, garbled>>

\* rlc_am_receive_process_data_pdu: the list does not take the PDU.
Dropped(x, i) ==
  /\ InRxWindow(x.sn) /\ i = 0
  /\ status_requested' = TRUE
  /\ UNCHANGED <<vr_r, vr_h, vr_x, vr_ms, t_reordering, receiver_buffer,
                 t_status_prohibit, delivered, garbled>>

\* rlc_am_receive_process_data_pdu: the PDU is placed in the list at i.  It asks
\* for a report if its poll bit is set.
Placed(x, i) ==
  LET list  == Marked(InsertAt(receiver_buffer, i, x), i)
      all   == list[i].all
      taken == IF x.sn = vr_r THEN Reassembled(list) ELSE 0
      out   == Passed(SubSeq(list, 1, taken))
      stop  == vr_x = vr_r' \/ (Dist(vr_r', x.sn) >= WindowSize
                                /\ vr_x # Plus(vr_r', WindowSize))
  IN  /\ InRxWindow(x.sn) /\ i > 0
      /\ vr_h' = IF Dist(vr_r, x.sn) >= Dist(vr_r, vr_h) THEN Plus(x.sn, 1) ELSE vr_h
      /\ vr_ms' = IF x.sn = vr_ms /\ all THEN NextVrMs(list, i) ELSE vr_ms
      /\ vr_r' = IF x.sn = vr_r /\ all THEN NextVrR(list, i) ELSE vr_r
      /\ receiver_buffer' = SubSeq(list, taken + 1, Len(list))
      /\ delivered' = out.at /\ garbled' = out.bad
      /\ IF t_reordering /\ ~stop THEN UNCHANGED <<t_reordering, vr_x>>
         ELSE /\ t_reordering' = (vr_h' # vr_r')
              /\ vr_x' = IF vr_h' # vr_r' THEN vr_h' ELSE vr_x
      /\ UNCHANGED t_status_prohibit
      /\ \E poll \in BOOLEAN : status_requested' = (status_requested \/ poll)

\* The PDUs for which a walk over a window that wraps finds a wrong place i: one after
\* the wrap when all that is stored is after it and later, and a segment that
\* overlaps with the one it is put next to, which these walks do not look at.
Misplaced(x, i) ==
  LET b == receiver_buffer
  IN  /\ b # <<>> /\ VrMr < vr_r /\ InRxWindow(x.sn) /\ i # 0
      /\ \/ x.sn < vr_r /\ \A c \in ToSet(b) : c.sn < vr_r /\ x.sn < c.sn
         \/ i <= Len(b) /\ b[i].sn = x.sn /\ b[i].so < End(x)
         \/ i > 1 /\ b[i - 1].sn = x.sn /\ x.so < End(b[i - 1])

Receive(x) ==
  LET i == Place(x)
  IN  /\ OutOfWindow(x) \/ Dropped(x, i) \/ Placed(x, i)
      /\ misplaced' = IF misplaced > 0 \/ Misplaced(x, i) THEN misplaced + 1 ELSE 0

\* rlc_am_get_pdus, the first part: a status report is sent.
SendStatus(grant) ==
  /\ grant > 2 /\ status_requested /\ ~t_status_prohibit
  /\ status_requested' = FALSE
  /\ t_status_prohibit' \in BOOLEAN   \* running, or no timer if its time-out is 0
  /\ UNCHANGED <<vr_r, vr_h, vr_x, vr_ms, t_reordering, receiver_buffer, delivered,
                 garbled>>

\* rlc_am_check_timer_status_prohibit
ProhibitExpires ==
  /\ t_status_prohibit
  /\ t_status_prohibit' = FALSE
  /\ UNCHANGED <<vr_r, vr_h, vr_x, vr_ms, t_reordering, receiver_buffer,
                 status_requested, delivered, garbled>>

\* PDUs received in sequence; VR(R) is this number modulo SnModulo.
InOrder == delivered \div PduSize

\* The PDUs that may arrive: the peer's VT(A) is at least sent - WindowSize and
\* at most InOrder, and it sends new PDUs up to VT(A) + WindowSize.
Arrivals == {n \in 0 .. MaxPdus - 1 : n >= sent - WindowSize /\ n < InOrder + WindowSize}

RxNext ==
  \/ \E n \in Arrivals : \E x \in Pdus(n) :
        misplaced < MaxMisplaced /\ Receive(x) /\ sent' = IF n < sent THEN sent ELSE n + 1
  \/ \E g \in RxGrants : SendStatus(g) /\ UNCHANGED <<sent, misplaced>>
  \/ ProhibitExpires /\ UNCHANGED <<sent, misplaced>>

RxSpec == RxInit /\ [][RxNext]_rx_vars

-----------------------------------------------------------------------------
(* Properties.                                                              *)

Element == [n : Nat, sn : SN, rf : BOOLEAN, so : 0 .. PduSize - 1, size : 1 .. PduSize,
            lsf : BOOLEAN, all : BOOLEAN]

\* The fields of rlc_am_entity_t keep their types.
RxTypeOK ==
  /\ {vr_r, vr_h, vr_x, vr_ms} \subseteq SN
  /\ {t_reordering, status_requested, t_status_prohibit, garbled} \subseteq BOOLEAN
  /\ receiver_buffer \in Seq(Element)
  /\ delivered \in Nat /\ sent \in Nat /\ misplaced \in Nat

\* The list is sorted from VR(R) onwards, lies within the window, the segments of
\* a PDU do not overlap, and nothing stays in it that is complete and next.
\* rlc_am_send_status_pdu looks for its first element in the window without
\* looking for the end of the list, and reads the gaps off the order.
ListInOrder ==
  /\ \A i \in DOMAIN receiver_buffer : InRxWindow(receiver_buffer[i].sn)
  /\ \A i \in 1 .. Len(receiver_buffer) - 1 :
       LET a == receiver_buffer[i]  b == receiver_buffer[i + 1]
       IN  \/ Dist(vr_r, a.sn) < Dist(vr_r, b.sn)
           \/ a.sn = b.sn /\ a.rf /\ b.rf /\ End(a) <= b.so
  /\ receiver_buffer # <<>> => ~(Head(receiver_buffer).all /\ Head(receiver_buffer).sn = vr_r)

\* Everything before VR(R), and nothing else, has been passed to PDCP, once and
\* in sequence.
InSequence == ~garbled /\ delivered % PduSize = 0 /\ InOrder % SnModulo = vr_r

\* The list is in order and delivery in sequence for as long as no walk across the
\* wrap has misplaced a PDU.
OrderKept == misplaced = 0 => ListInOrder /\ InSequence

\* The bytes of PDU n that have been received.
Received(n) ==
  IF n < InOrder THEN 0 .. PduSize - 1
  ELSE UNION {x.so .. End(x) - 1 : x \in {y \in ToSet(receiver_buffer) : y.n = n}}

Nacked(report, sn) ==
  UNION {k.so_start .. Min({k.so_end, PduSize - 1}) :
           k \in {m \in ToSet(report.nacks) : m.sn = sn}}

\* A status report of any size never acknowledges a byte that has not been
\* received: what is below ACK_SN and was not received is NACKed.  The peer frees
\* what is acknowledged and tells its PDCP that it was delivered.  An ACK_SN out
\* of its window (VR(R) - 1, see StatusPdu) it ignores.  The report is read
\* off the list, so this holds for as long as no PDU was misplaced in it.
StatusIsTruthful ==
  misplaced = 0 => \A g \in RxGrants : g > 2 =>
     LET report == StatusPdu(g)
         acked  == Dist(vr_r, report.ack)
     IN  acked <= WindowSize =>
           \A k \in 0 .. acked - 1 :
              0 .. PduSize - 1 \subseteq Received(InOrder + k) \cup Nacked(report, Plus(vr_r, k))

\* A status report never asks for a byte that has been received, for as long as no
\* PDU was misplaced.
NacksAreMissing ==
  misplaced = 0 => \A g \in RxGrants : g > 2 =>
     LET report == StatusPdu(g)
     IN  \A i \in DOMAIN report.nacks :
           LET sn == report.nacks[i].sn
           IN  Nacked(report, sn) \cap Received(InOrder + Dist(vr_r, sn)) = {}
=============================================================================
