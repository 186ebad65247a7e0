------------------------------- MODULE RlcAmTx -------------------------------
(***************************************************************************)
(* The transmitting side of an RLC AM entity (openair2/LAYER2/RLC/AM_v9.3.0):*)
(* SDUs are cut into PDUs (rlc_am_segment.c), PDUs are kept for             *)
(* retransmission until they are acknowledged and repeated whole or in      *)
(* segments (rlc_am_retransmit.c, rlc_am_segments_holes.c), polls ask for   *)
(* status reports (rlc_am_segment.c, rlc_am_timer_poll_retransmit.c), and a *)
(* status report moves the window and confirms SDUs                         *)
(* (rlc_am_status_report.c, rlc_am_in_sdu.c).                               *)
(*                                                                         *)
(* A handler is one step, but for the loop over a status report, which is   *)
(* one step per iteration: nothing else happens before it ends.  That is so *)
(* in oaisim, where one thread calls an entity.  In the softmodem the       *)
(* receiving and the transmitting threads call RLC at once, and rlc_am.c    *)
(* locks only input_sdus: the races of rlc_am_get_pdus with the processing  *)
(* of a status report are not modelled.  Reports of one entity are at least *)
(* a frame apart, see AddHole.  Lengths are counted in bytes without the    *)
(* length indicators; pollByte is infinite.                                 *)
(***************************************************************************)
EXTENDS Integers, Sequences, FiniteSets, FiniteSetsExt

CONSTANTS
  SnModulo,      \* RLC_AM_SN_MODULO
  WindowSize,    \* RLC_AM_WINDOW_SIZE
  NbSdus,        \* RLC_AM_SDU_CONTROL_BUFFER_SIZE
  HeaderSize,    \* RLC_AM_HEADER_MIN_SIZE
  SegmentHeader, \* the header of a PDU segment
  MinSegment,    \* RLC_AM_MIN_SEGMENT_SIZE_REQUEST
  PollPdu,       \* pollPDU
  MaxRetx,       \* max_retx_threshold
  SoEnd,         \* 0x7FFF
  SduSizes,      \* sizes of SDUs
  Grants,        \* bytes offered by the MAC
  RetxMax,       \* the largest retx_count, 127 (int8_t)
  MaxSdus        \* bound: SDUs submitted

ASSUME TxWindowAssumption ==
  WindowSize \in Nat \ {0} /\ SnModulo = 2 * WindowSize
ASSUME TxSizeAssumption ==
  /\ {HeaderSize, SegmentHeader, MinSegment, SoEnd} \subseteq Nat
  /\ HeaderSize < MinSegment /\ SegmentHeader < MinSegment
  /\ SduSizes \subseteq Nat \ {0} /\ Grants \subseteq Nat
  /\ NbSdus \in Nat \ {0} /\ MaxSdus \in Nat /\ RetxMax \in Nat /\ MaxRetx \in Nat

VARIABLES
  vt_a, vt_s,
  slots,           \* pdu_retrans_buffer
  first_retrans,   \* first_retrans_pdu_sn, or -1
  num_pdus,        \* retrans_num_pdus
  to_retransmit,   \* retrans_num_bytes_to_retransmit
  sdus,            \* input_sdus
  current_sdu, next_sdu, occupancy,
  c_pdu, poll_sn,  \* c_pdu_without_poll, poll_sn
  timer,           \* t_poll_retransmit: "off", "running" or "timed_out"
  ctrl,            \* the status report in process
  mac,             \* pdus_to_mac_layer: the PDU that is handed to the MAC
  conf             \* how each submitted SDU was confirmed

tx_vars == <<vt_a, vt_s, slots, first_retrans, num_pdus, to_retransmit, sdus,
             current_sdu, next_sdu, occupancy, c_pdu, poll_sn, timer, ctrl, mac, conf>>
sdu_vars == <<sdus, current_sdu, next_sdu, occupancy, conf>>
poll_vars == <<c_pdu, poll_sn, timer>>
retrans_vars == <<first_retrans, num_pdus, to_retransmit>>

SN == 0 .. SnModulo - 1
Plus(sn, k) == (sn + k) % SnModulo
Dist(a, b) == (b - a) % SnModulo
VtMs == Plus(vt_a, WindowSize)   \* vt_ms, assigned together with vt_a

\* rlc_am_in_tx_window
InTxWindow(sn) == Dist(vt_a, sn) < Dist(vt_a, VtMs)

\* The SNs from VT(A) up to, and without, VT(S).
Outstanding == {sn \in SN : Dist(vt_a, sn) < Dist(vt_a, vt_s)}

\* rlc_am_tx_data_pdu_management_t after memset.
NoPdu == [mem |-> FALSE, ack |-> FALSE, retx |-> 0, retransmit |-> FALSE,
          so_start |-> 0, so_stop |-> 0, holes |-> <<>>, sdus |-> {}, size |-> 0]
NewPdu(size, s) == [NoPdu EXCEPT !.mem = TRUE, !.retx = -1, !.sdus = s, !.size = size]
PduBytes(p) == HeaderSize + p.size   \* header_and_payload_size
More(retx) == IF retx = RetxMax THEN -RetxMax - 1 ELSE retx + 1

\* rlc_am_tx_sdu_management_t after memset; done is flags.transmitted_successfully.
NoSdu == [mem |-> FALSE, remaining |-> 0, nb_pdus |-> 0, nb_ack |-> 0, done |-> FALSE, mui |-> 0]
NextSdu(i, k) == (i + k) % NbSdus

-----------------------------------------------------------------------------
(* Polling.                                                                 *)

\* rlc_am_pdu_polling when the counter is c: is the P bit set, and the counter.
Polling(c, empty, stalled) ==
  LET poll == c + 1 >= PollPdu \/ empty \/ stalled
  IN  [poll |-> poll, c |-> IF poll THEN 0 ELSE c + 1]

\* A PDU goes to the MAC; started says that the poll timer was started.
Send(sn, from, to, poll) == mac' = <<[sn |-> sn, from |-> from, to |-> to, poll |-> poll]>>
Polled(poll, c, last_sn) ==
  /\ c_pdu' = c
  /\ timer' = IF poll THEN "running" ELSE timer
  /\ poll_sn' = IF poll THEN last_sn ELSE poll_sn

-----------------------------------------------------------------------------
(* Holes: the byte ranges of a PDU that were NACKed.                        *)

\* rlc_am_clear_holes at the first NACK of the PDU in a report, then
\* rlc_am_add_hole.  NACKs of one PDU are in order.  The code clears when
\* last_nack_time is not the frame of the report, which is the first NACK of a report
\* as long as no other report came in the same frame.
AddHole(p, first, start, stop) ==
  LET holes == IF first THEN <<>> ELSE p.holes
      end   == IF stop = SoEnd THEN p.size - 1 ELSE stop
      added == Append(holes, <<start, end>>)
  IN  IF start = 0 /\ end = p.size - 1
      THEN [p EXCEPT !.holes = <<>>, !.so_start = 0, !.so_stop = stop]
      ELSE [p EXCEPT !.holes = added, !.so_start = added[1][1], !.so_stop = end]

\* rlc_am_get_next_hole, after 0x7FFF was replaced by the end of the PDU.
NextHole(p) ==
  IF p.holes # <<>> THEN p.holes[1]
  ELSE <<p.so_start, IF p.so_stop = SoEnd THEN p.size - 1 ELSE p.so_stop>>

\* rlc_am_remove_hole: the first bytes of the next hole, up to stop, were sent.
RemoveHole(p, stop) ==
  LET whole == [p EXCEPT !.holes = <<>>, !.so_start = 0, !.so_stop = SoEnd]
      end   == IF p.so_stop = SoEnd THEN p.size - 1 ELSE p.so_stop
      rest  == IF stop >= p.holes[1][2] THEN Tail(p.holes) ELSE p.holes
  IN  IF p.holes = <<>>
      THEN IF stop + 1 >= end THEN whole
           ELSE [p EXCEPT !.so_start = stop + 1, !.so_stop = end]
      ELSE IF rest = <<>> THEN whole
      ELSE [p EXCEPT !.holes = [rest EXCEPT ![1] = <<stop, rest[1][2]>>],
                     !.so_start = stop, !.so_stop = rest[Len(rest)][2]]

-----------------------------------------------------------------------------
(* Confirmation of SDUs.                                                    *)

Confirmed(m, how) == IF conf[m] = "none" THEN how ELSE "again"

\* Another PDU of the SDUs in s is done with; those of which it was the last are
\* confirmed and freed.  An SDU that is given up need not be segmented fully.
CountedSdus(s) == [i \in DOMAIN sdus |->
  IF i \in s THEN [sdus[i] EXCEPT !.nb_ack = @ + 1] ELSE sdus[i]]

\* Mutant of Finished: an SDU is confirmed by the first of its PDUs.
FinishedFirst(s, how) == {i \in s : how = "yes" => sdus[i].remaining = 0}

Finished(s, how) ==
  {i \in s : /\ CountedSdus(s)[i].nb_ack = sdus[i].nb_pdus
             /\ how = "yes" => sdus[i].remaining = 0}

\* rlc_data_conf and rlc_am_free_in_sdu for the SDUs in s.
SdusDone(s, how) ==
  LET freed == Finished(s, how)
      left  == [i \in DOMAIN sdus |-> IF i \in freed THEN [NoSdu EXCEPT !.done = TRUE]
                                                     ELSE CountedSdus(s)[i]]
      from  == IF current_sdu \in freed THEN NextSdu(current_sdu, 1) ELSE current_sdu
      skip  == Min({k \in 0 .. NbSdus - 1 : \/ NextSdu(from, k) = next_sdu
                                            \/ ~left[NextSdu(from, k)].done})
  IN  /\ sdus' = left
      /\ conf' = [m \in DOMAIN conf |-> IF \E i \in freed : sdus[i].mui = m
                                        THEN Confirmed(m, how) ELSE conf[m]]
      /\ current_sdu' = IF freed = {} THEN current_sdu ELSE NextSdu(from, skip)
      /\ UNCHANGED <<next_sdu, occupancy>>

-----------------------------------------------------------------------------
(* NACK and ACK of one PDU.                                                 *)

\* rlc_am_nack_pdu, when the PDU is held: its new state and the counters.
Nacked(sn, first, start, stop) ==
  [AddHole(slots[sn], first, start, stop)
     EXCEPT !.retransmit = TRUE, !.retx = More(@)]

\* Mutant of NackCounters: the bytes are counted at every NACK.
NackCountersAgain(sn) ==
  /\ first_retrans' = IF first_retrans < 0 \/ Dist(vt_a, first_retrans) > Dist(vt_a, sn)
                      THEN sn ELSE first_retrans
  /\ to_retransmit' = to_retransmit + PduBytes(slots[sn])
  /\ UNCHANGED num_pdus

NackCounters(sn) ==
  /\ first_retrans' = IF first_retrans < 0 \/ Dist(vt_a, first_retrans) > Dist(vt_a, sn)
                      THEN sn ELSE first_retrans
  /\ to_retransmit' = to_retransmit + IF slots[sn].retx = -1 THEN PduBytes(slots[sn]) ELSE 0
  /\ UNCHANGED num_pdus
NackSdus(sn) ==
  IF More(slots[sn].retx) >= MaxRetx THEN SdusDone(slots[sn].sdus, "no")
                                   ELSE UNCHANGED sdu_vars

NackPdu(sn, first, start, stop) ==
  IF slots[sn].mem
  THEN /\ slots' = [slots EXCEPT ![sn] = Nacked(sn, first, start, stop)]
       /\ NackCounters(sn) /\ NackSdus(sn)
       /\ UNCHANGED vt_a
  ELSE UNCHANGED <<slots, vt_a, retrans_vars, sdu_vars>>

\* Mutant of Advance: VT(A) moves on by one.
AdvanceOne(acked) == 1

\* By how much VT(A) moves when the PDU at VT(A) is acknowledged.
Advance(acked) ==
  Min({k \in 1 .. SnModulo : Plus(vt_a, k) = vt_s \/ ~acked[Plus(vt_a, k)].ack})

\* The next PDU to retransmit after the first one was acknowledged.
NextRetrans(first, left) ==
  LET k == Min({j \in 1 .. SnModulo : Plus(first, j) = vt_s \/ left[Plus(first, j)].retx >= 0})
  IN  IF Plus(first, k) = vt_s THEN -1 ELSE Plus(first, k)

\* rlc_am_ack_pdu
AckPdu(sn) ==
  LET p     == slots[sn]
      freed == ~p.ack /\ p.mem
      acked == [slots EXCEPT ![sn] = [p EXCEPT !.mem = FALSE, !.ack = @ \/ freed,
                                               !.retransmit = FALSE]]
      k     == IF sn = vt_a /\ acked[sn].ack THEN Advance(acked) ELSE 0
      left  == [s \in SN |-> IF Dist(vt_a, s) < k THEN NoPdu ELSE acked[s]]
      first == IF first_retrans >= 0 /\ Dist(vt_a, first_retrans) < k
               THEN Plus(vt_a, k) ELSE first_retrans
  IN  /\ slots' = left
      /\ vt_a' = Plus(vt_a, k)
      /\ first_retrans' = IF freed /\ sn = first THEN NextRetrans(first, left) ELSE first
      /\ num_pdus' = num_pdus - IF freed THEN 1 ELSE 0
      /\ to_retransmit' = to_retransmit - IF freed /\ p.retx >= 0 THEN PduBytes(p) ELSE 0
      /\ IF freed THEN SdusDone(p.sdus, "yes") ELSE UNCHANGED sdu_vars

-----------------------------------------------------------------------------
(* Operations.                                                              *)

Idle == [on |-> FALSE, ack |-> 0, nacks |-> <<>>, i |-> 1, cursor |-> 0]

TxInit ==
  /\ vt_a = 0 /\ vt_s = 0 /\ slots = [sn \in SN |-> NoPdu]
  /\ first_retrans = -1 /\ num_pdus = 0 /\ to_retransmit = 0
  /\ sdus = [i \in 0 .. NbSdus - 1 |-> NoSdu] /\ current_sdu = 0 /\ next_sdu = 0
  /\ occupancy = 0 /\ c_pdu = 0 /\ poll_sn = 0 /\ timer = "off"
  /\ ctrl = Idle /\ mac = <<>> /\ conf = <<>>

\* rlc_am_data_req: the SDU is taken, or dropped for want of a descriptor.
DataReq(size) ==
  LET mui == Len(conf) + 1
  IN  /\ ~ctrl.on /\ Len(conf) < MaxSdus
      /\ ~sdus[next_sdu].mem /\ NextSdu(next_sdu, 1) # current_sdu
      /\ sdus' = [sdus EXCEPT ![next_sdu] = [NoSdu EXCEPT !.mem = TRUE, !.remaining = size,
                                                          !.mui = mui]]
      /\ conf' = Append(conf, "none")
      /\ occupancy' = occupancy + size
      /\ next_sdu' = NextSdu(next_sdu, 1)
      /\ UNCHANGED <<vt_a, vt_s, slots, retrans_vars, current_sdu, poll_vars, ctrl, mac>>
DataReqDropped ==
  /\ ~ctrl.on /\ Len(conf) < MaxSdus
  /\ sdus[next_sdu].mem \/ NextSdu(next_sdu, 1) = current_sdu
  /\ conf' = Append(conf, "dropped")
  /\ UNCHANGED <<vt_a, vt_s, slots, retrans_vars, sdus, current_sdu, next_sdu, occupancy,
                 poll_vars, ctrl, mac>>

\* rlc_am_check_timer_poll_retransmit
PollTimeOut ==
  /\ ~ctrl.on /\ timer = "running" /\ timer' = "timed_out"
  /\ UNCHANGED <<vt_a, vt_s, slots, retrans_vars, sdu_vars, c_pdu, poll_sn, ctrl, mac>>

\* What rlc_am_get_pdus finds for a grant of g bytes.
Retransmits == first_retrans >= 0 /\ first_retrans # vt_s /\ slots[first_retrans].retx >= 0
FitsWhole(g) ==
  /\ Retransmits /\ PduBytes(slots[first_retrans]) <= g
  /\ slots[first_retrans].so_start = 0 /\ slots[first_retrans].so_stop = SoEnd
FitsSegment(g) == Retransmits /\ ~FitsWhole(g) /\ g >= MinSegment
HasNewPdu == vt_s # VtMs /\ occupancy > 0 /\ sdus[current_sdu].mem

\* rlc_am_get_pdus: a PDU is repeated whole.  It stays the first to repeat.
RetransmitWhole(g) ==
  LET sn == first_retrans
      p  == Polling(c_pdu, occupancy = 0 /\ to_retransmit = 0, vt_s = VtMs)
  IN  /\ ~ctrl.on /\ mac = <<>> /\ g > HeaderSize /\ FitsWhole(g)
      /\ slots' = [slots EXCEPT ![sn].retransmit = FALSE, ![sn].retx = More(@)]
      /\ Send(sn, 0, slots[sn].size - 1, p.poll)
      /\ Polled(p.poll, p.c, Plus(vt_s, SnModulo - 1))
      /\ UNCHANGED <<vt_a, vt_s, retrans_vars, sdu_vars, ctrl>>

\* rlc_am_retransmit_get_subsegment: the PDU p of which a segment is sent, and
\* the last byte of that segment.
LastByte(p, g) == Min({NextHole(p)[2], NextHole(p)[1] + g - SegmentHeader - 1})
Subsegment(p, g) ==
  [RemoveHole(p, LastByte(p, g)) EXCEPT !.retransmit = @ /\ LastByte(p, g) + 1 # p.size]

\* Mutant of NextFlagged: the next PDU is taken whether it waits or not.
NextFlaggedBlind(sn, left) ==
  IF left[sn].retransmit THEN sn ELSE IF Plus(sn, 1) = vt_s THEN -1 ELSE Plus(sn, 1)

\* The first PDU from sn on that waits for retransmission, or -1.
NextFlagged(sn, left) ==
  LET k == Min({j \in 0 .. SnModulo : Plus(sn, j) = vt_s \/ left[Plus(sn, j)].retransmit})
  IN  IF Plus(sn, k) = vt_s THEN -1 ELSE Plus(sn, k)

\* rlc_am_get_pdus: a segment of a PDU is repeated.
RetransmitSegment(g) ==
  LET sn   == first_retrans
      p    == Polling(c_pdu, occupancy = 0 /\ to_retransmit = 0, vt_s = VtMs)
      left == [slots EXCEPT ![sn] = Subsegment(@, g)]
  IN  /\ ~ctrl.on /\ mac = <<>> /\ g > HeaderSize /\ FitsSegment(g)
      /\ slots' = left
      /\ first_retrans' = NextFlagged(sn, left)
      /\ Send(sn, NextHole(slots[sn])[1], LastByte(slots[sn], g), p.poll)
      /\ Polled(p.poll, p.c, Plus(vt_s, SnModulo - 1))
      /\ UNCHANGED <<vt_a, vt_s, num_pdus, to_retransmit, sdu_vars, ctrl>>

\* rlc_am_segment_10: the SDUs from current_sdu on, and what a PDU of cap bytes
\* of data takes of the one at place j.
Queued == Max({k \in 0 .. NbSdus : \A j \in 0 .. k - 1 : sdus[NextSdu(current_sdu, j)].mem})
Before(j) == MapThenSumSet(LAMBDA l : sdus[NextSdu(current_sdu, l)].remaining, 0 .. j - 1)
Taken(cap, j) ==
  LET rest == cap - Before(j)
  IN  IF rest <= 0 THEN 0 ELSE Min({rest, sdus[NextSdu(current_sdu, j)].remaining})
SegmentedSdu(d, taken) ==
  [d EXCEPT !.remaining = @ - taken, !.nb_pdus = @ + 1, !.mem = d.remaining > taken]

\* rlc_am_get_pdus: a new PDU.  Polling is asked for the PDU and for its copy.
TransmitNew(g) ==
  LET cap   == Min({g - HeaderSize, occupancy})
      part  == {j \in 0 .. Queued - 1 : Taken(cap, j) > 0}
      size  == MapThenSumSet(LAMBDA j : Taken(cap, j), part)
      whole == {j \in part : Taken(cap, j) = sdus[NextSdu(current_sdu, j)].remaining}
      empty == occupancy = size /\ to_retransmit = 0
      p1    == Polling(c_pdu, empty, Plus(vt_s, 1) = VtMs)
      p2    == Polling(p1.c, empty, Plus(vt_s, 1) = VtMs)
  IN  /\ ~ctrl.on /\ mac = <<>> /\ g > HeaderSize
      /\ ~FitsWhole(g) /\ ~FitsSegment(g) /\ HasNewPdu
      /\ slots' = [slots EXCEPT ![vt_s] =
                     NewPdu(size, {NextSdu(current_sdu, j) : j \in part})]
      /\ vt_s' = Plus(vt_s, 1)
      /\ sdus' = [i \in DOMAIN sdus |->
                    LET j == (i - current_sdu) % NbSdus
                    IN  IF j \in part THEN SegmentedSdu(sdus[i], Taken(cap, j)) ELSE sdus[i]]
      /\ current_sdu' = NextSdu(current_sdu, Cardinality(whole))
      /\ occupancy' = occupancy - size
      /\ num_pdus' = num_pdus + 1
      /\ Send(vt_s, 0, size - 1, p2.poll)
      /\ Polled(p1.poll \/ p2.poll, p2.c, vt_s)
      /\ UNCHANGED <<vt_a, first_retrans, to_retransmit, next_sdu, conf, ctrl>>

\* rlc_am_retransmit_any_pdu: the last PDU that is held and fits, or a segment of
\* the last that is held.  It is NACKed and carries a poll in any case.
Held == {sn \in Outstanding : slots[sn].mem}
LastOf(S) == CHOOSE sn \in S : \A t \in S : Dist(vt_a, t) <= Dist(vt_a, sn)
RetransmitAny(g) ==
  LET fit  == {sn \in Held : PduBytes(slots[sn]) <= g}
      sn   == LastOf(IF fit # {} THEN fit ELSE Held)
      p    == Nacked(sn, TRUE, 0, SoEnd)
      c    == Polling(c_pdu, FALSE, vt_s = VtMs)
      set  == c.poll \/ Polling(c.c, FALSE, vt_s = VtMs).poll
  IN  /\ ~ctrl.on /\ mac = <<>> /\ g > HeaderSize /\ timer = "timed_out"
      /\ ~FitsWhole(g) /\ ~FitsSegment(g) /\ ~HasNewPdu
      /\ Held # {} /\ (fit # {} \/ g > SegmentHeader)
      /\ IF fit # {}
         THEN /\ slots' = [slots EXCEPT ![sn] = [p EXCEPT !.retransmit = FALSE]]
              /\ Send(sn, 0, p.size - 1, TRUE)
         ELSE /\ slots' = [slots EXCEPT ![sn] = Subsegment(p, g)]
              /\ Send(sn, NextHole(p)[1], LastByte(p, g), TRUE)
      /\ NackCounters(sn) /\ NackSdus(sn)
      /\ c_pdu' = 0 /\ timer' = "running"
      /\ poll_sn' = IF set THEN Plus(vt_s, SnModulo - 1) ELSE poll_sn
      /\ UNCHANGED <<vt_a, vt_s, ctrl>>

GetPdus(g) == RetransmitWhole(g) \/ RetransmitSegment(g) \/ TransmitNew(g) \/ RetransmitAny(g)

\* rlc_am_receive_process_control_pdu: a report begins, or is ignored.
ReceiveStatus(status) ==
  /\ ~ctrl.on
  /\ ctrl' = IF InTxWindow(status.ack) /\ status.ack # vt_a
             THEN [on |-> TRUE, ack |-> status.ack, nacks |-> status.nacks, i |-> 1,
                   cursor |-> vt_a]
             ELSE Idle
  /\ UNCHANGED <<vt_a, vt_s, slots, retrans_vars, sdu_vars, poll_vars, mac>>

\* The loop of rlc_am_receive_process_control_pdu, once, for the SN at the cursor.

\* Mutant of AtNack: only the first NACK of a report is looked at.
AtNackFirst == ctrl.i = 1 /\ ctrl.nacks # <<>> /\ ctrl.nacks[1].sn = ctrl.cursor

AtNack == ctrl.i <= Len(ctrl.nacks) /\ ctrl.nacks[ctrl.i].sn = ctrl.cursor
SameSn(i) == ctrl.nacks[i].sn = ctrl.nacks[i - 1].sn
NextCtrl ==
  LET i      == IF AtNack THEN ctrl.i + 1 ELSE ctrl.i
      again  == i > 1 /\ i <= Len(ctrl.nacks) /\ SameSn(i)
      cursor == IF again THEN ctrl.cursor ELSE Plus(ctrl.cursor, 1)
  IN  IF cursor = ctrl.ack THEN Idle ELSE [ctrl EXCEPT !.i = i, !.cursor = cursor]
StatusStep ==
  /\ ctrl.on
  /\ timer' = IF ctrl.cursor = poll_sn THEN "off" ELSE timer
  /\ IF AtNack
     THEN LET n == ctrl.nacks[ctrl.i]
          IN  NackPdu(n.sn, ctrl.i = 1 \/ ~SameSn(ctrl.i), n.so_start, n.so_end)
     ELSE AckPdu(ctrl.cursor)
  /\ ctrl' = NextCtrl
  /\ UNCHANGED <<vt_s, c_pdu, poll_sn, mac>>

\* The MAC takes the PDU.
TakePdu == ~ctrl.on /\ mac # <<>> /\ mac' = <<>>
           /\ UNCHANGED <<vt_a, vt_s, slots, retrans_vars, sdu_vars, poll_vars, ctrl>>

NackFields == [sn : SN, so_start : Nat, so_end : Nat]

\* A report with any contents.
AnyStatus ==
  /\ ctrl'.ack \in SN /\ ctrl'.nacks \in Seq(NackFields)
  /\ ReceiveStatus([ack |-> ctrl'.ack, nacks |-> ctrl'.nacks])

TxNext ==
  \/ \E size \in SduSizes : DataReq(size)
  \/ DataReqDropped
  \/ PollTimeOut
  \/ \E g \in Grants : GetPdus(g)
  \/ AnyStatus
  \/ StatusStep
  \/ TakePdu

TxSpec == TxInit /\ [][TxNext]_tx_vars
-----------------------------------------------------------------------------
(* Properties.                                                              *)

\* A PDU is held for retransmission exactly while its SN is in VT(A) .. VT(S)-1 and
\* not acknowledged, the one at VT(A) always, and there are never more than a
\* window of them; only PDUs that are held wait for retransmission.
WindowHolds ==
  /\ Dist(vt_a, vt_s) <= WindowSize
  /\ \A sn \in SN : IF sn \in Outstanding THEN slots[sn].mem = ~slots[sn].ack
                                          ELSE ~slots[sn].mem /\ ~slots[sn].ack
  /\ vt_a # vt_s => slots[vt_a].mem
  /\ \A sn \in SN : slots[sn].retransmit => slots[sn].mem

\* rlc_am_get_pdus finds the PDU that it means to repeat: first_retrans_pdu_sn is
\* VT(S) or the SN of a PDU that is held.  rlc_am_retransmit_get_subsegment asserts
\* it, and rlc_am_get_pdus passes the copy on without looking.
RetransmissionFound ==
  first_retrans \in {-1, vt_s} \cup Held

\* The counters of what waits for acknowledgement, retransmission and transmission
\* are those of the buffers.  Polls and the answers to the MAC depend on them.
CountersExact ==
  /\ num_pdus = Cardinality(Held)
  /\ to_retransmit = MapThenSumSet(LAMBDA sn : PduBytes(slots[sn]),
                                   {sn \in Held : slots[sn].retx >= 0})
  /\ occupancy = MapThenSumSet(LAMBDA i : sdus[i].remaining, DOMAIN sdus)

\* Every SDU that was taken is confirmed once, and not before the last PDU with a
\* part of it is acknowledged: until then its descriptor counts the PDUs it waits
\* for.
SdusAccounted ==
  /\ \A m \in DOMAIN conf :
       /\ conf[m] # "again"
       /\ conf[m] = "none" <=> \E i \in DOMAIN sdus : sdus[i].mui = m
  /\ \A i \in DOMAIN sdus : sdus[i].mui # 0 =>
       /\ sdus[i].nb_pdus = sdus[i].nb_ack + Cardinality({sn \in Held : i \in slots[sn].sdus})
       /\ sdus[i].nb_pdus = sdus[i].nb_ack => sdus[i].remaining > 0
  /\ \A sn \in Held : \A i \in slots[sn].sdus : sdus[i].mui # 0
=============================================================================
