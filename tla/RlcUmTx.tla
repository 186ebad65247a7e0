------------------------------- MODULE RlcUmTx -------------------------------
(***************************************************************************)
(* The sending side of an RLC UM entity: the queue of SDUs that PDCP fills  *)
(* (rlc_um_data_req) and the segmentation and concatenation that builds one *)
(* UMD PDU per MAC request (rlc_um_segment_5 and rlc_um_segment_10 of       *)
(* openair2/LAYER2/RLC/UM_v9.3.0/rlc_um_segment.c).                         *)
(*                                                                         *)
(* Every operation holds lock_input_sdus, so each is one step.  Bytes are   *)
(* counted, not kept: they leave the queue in the order they entered it.    *)
(* VT(US) is the number of PDUs built, which RlcUmLink keeps.               *)
(***************************************************************************)
EXTENDS Naturals, Sequences, SequencesExt

CONSTANTS
  TxSnLengths,  \* the configured SN lengths: 5 or 10
  TxSduSizes,   \* the sizes of SDUs that PDCP submits
  Grants,       \* the sizes of transport blocks that the MAC offers
  MaxQueued     \* bound: most SDUs waiting in input_sdus

ASSUME SnLengthAssumption == TxSnLengths \subseteq {5, 10}
ASSUME SizesAssumption == TxSduSizes \subseteq Nat \ {0} /\ Grants \subseteq Nat

VARIABLES
  tx_sn_length,     \* configured once: chooses rlc_um_segment_5 or rlc_um_segment_10
  input_sdus,       \* the SDUs waiting: sdu_size and sdu_remaining_size
  buffer_occupancy, \* bytes waiting, as reported to the MAC
  requested,        \* nb_bytes_requested_by_mac
  tb                \* the PDU handed to the MAC by this step, if any

tx_vars == <<tx_sn_length, input_sdus, buffer_occupancy, requested, tb>>

HeaderLength == IF tx_sn_length = 5 THEN 1 ELSE 2   \* tx_header_min_length_in_bytes

\* Mutant of SmallestPdu: a grant for the header alone is accepted.
SmallestPduEmpty == HeaderLength

SmallestPdu == HeaderLength + 1

NoTb == [size |-> 0, first |-> FALSE, last |-> FALSE, li |-> <<>>, rest |-> 0,
         planned |-> 0, asserted |-> FALSE]

\* Length indicators are 12 bits: they take 2 bytes, then 1, then 2, ...
NextLi(li) == IF li = 1 THEN 2 ELSE 1
LiBytes(n) == (3 * n + 1) \div 2

TotalRemaining(sdus) == FoldLeft(LAMBDA n, sdu : n + sdu.remaining, 0, sdus)

-----------------------------------------------------------------------------
(* Segmentation.                                                            *)

\* What all that waits would take in one PDU.
WholeQueue ==
  LET others == IF Len(input_sdus) <= 1 THEN 0 ELSE Len(input_sdus) - 1
  IN  buffer_occupancy + HeaderLength + ((others * 3) \div 2) + (others % 2)

\* Mutants of DataPduSize: the grant is ignored; room is kept for the length
\* indicators of SDUs that do not fit.
DataPduSizeWhole(n) == WholeQueue
DataPduSizeReserved(n) ==
  IF n >= WholeQueue THEN WholeQueue ELSE n - LiBytes(Len(input_sdus) - 1)

DataPduSize(n) == IF n >= WholeQueue THEN WholeQueue ELSE n

\* Mutant of Count: the PDU is not shortened by the byte that a length
\* indicator would not fit in.
CountUncut(s, sdu) ==
  LET li == NextLi(s.li)
  IN  IF s.go /\ sdu.remaining + li < s.room
      THEN [s EXCEPT !.num_li = @ + 1, !.room = @ - (sdu.remaining + li),
                     !.extra = li, !.li = li]
      ELSE [s EXCEPT !.go = FALSE, !.extra = 0]

\* One iteration of the loop that counts the SDUs and length indicators: cut
\* is what the PDU must be shortened by, extra the last length indicator,
\* which is needless if no SDU follows.
Count(s, sdu) ==
  LET li  == NextLi(s.li)
      end == [s EXCEPT !.go = FALSE, !.extra = 0]
  IN  IF ~s.go THEN s
      ELSE IF sdu.remaining >= s.room THEN end
      ELSE IF sdu.remaining + li = s.room THEN [end EXCEPT !.cut = li]
      ELSE IF sdu.remaining + li < s.room
           THEN [s EXCEPT !.num_li = @ + 1, !.room = @ - (sdu.remaining + li),
                          !.extra = li, !.li = li]
      ELSE [end EXCEPT !.cut = 1]

Counted(room) ==
  FoldLeft(Count, [go |-> TRUE, num_li |-> 0, room |-> room, cut |-> 0, extra |-> 0, li |-> 1],
           input_sdus)

\* One iteration of the loop that fills the PDU; left are the SDUs that stay
\* in input_sdus, rest is the length of the last data field.
Fill(s, sdu) ==
  LET li == NextLi(s.li)
  IN  IF ~s.go THEN [s EXCEPT !.left = Append(@, sdu)]
      ELSE IF sdu.remaining > s.room
           THEN [s EXCEPT !.go = FALSE, !.room = 0, !.rest = s.room,
                          !.left = Append(@, [sdu EXCEPT !.remaining = @ - s.room])]
      ELSE IF sdu.remaining = s.room
           THEN [s EXCEPT !.go = FALSE, !.room = 0, !.rest = sdu.remaining, !.last = TRUE]
      ELSE IF sdu.remaining + li < s.room
           THEN [s EXCEPT !.room = @ - (sdu.remaining + li), !.li = li,
                          !.lis = Append(@, sdu.remaining)]
      ELSE [s EXCEPT !.go = FALSE, !.room = @ - sdu.remaining, !.rest = sdu.remaining,
                     !.last = TRUE, !.asserted = TRUE]

Filled(room) ==
  FoldLeft(Fill, [go |-> TRUE, room |-> room, li |-> 1, lis |-> <<>>, rest |-> 0,
                  left |-> <<>>, last |-> FALSE, asserted |-> FALSE], input_sdus)

\* Mutant of Shortened: what rlc_um_segment_10 does.
ShortenedNever(size, cut) == size

\* rlc_um_segment_5 shortens data_pdu_size together with pdu_remaining_size,
\* rlc_um_segment_10 only pdu_remaining_size.
Shortened(size, cut) == IF tx_sn_length = 5 THEN size - cut ELSE size

-----------------------------------------------------------------------------

TxInit ==
  /\ tx_sn_length \in TxSnLengths
  /\ input_sdus = <<>> /\ buffer_occupancy = 0
  /\ requested = 0 /\ tb = NoTb

\* Mutant of DataReq: the SDU is not counted.
DataReqUncounted(size) ==
  /\ input_sdus' = Append(input_sdus, [size |-> size, remaining |-> size])
  /\ tb' = NoTb
  /\ UNCHANGED <<tx_sn_length, buffer_occupancy, requested>>

\* rlc_um_data_req.
DataReq(size) ==
  /\ input_sdus' = Append(input_sdus, [size |-> size, remaining |-> size])
  /\ buffer_occupancy' = buffer_occupancy + size
  /\ tb' = NoTb
  /\ UNCHANGED <<tx_sn_length, requested>>

\* rlc_um_mac_status_indication: the MAC says how much it may ask for.
MacStatus(n) ==
  /\ requested' = n
  /\ tb' = NoTb
  /\ UNCHANGED <<tx_sn_length, input_sdus, buffer_occupancy>>

\* rlc_um_mac_data_request with nothing to send or no room for one byte.
NothingToSend ==
  /\ requested < SmallestPdu \/ input_sdus = <<>>
  /\ tb' = NoTb
  /\ UNCHANGED <<tx_sn_length, input_sdus, buffer_occupancy, requested>>

\* rlc_um_mac_data_request: one PDU is built from the head of input_sdus.
Segment ==
  LET size    == DataPduSize(requested)
      counted == Counted(size - HeaderLength)
      filled  == Filled(size - HeaderLength - counted.cut - counted.extra)
  IN  /\ requested >= SmallestPdu /\ input_sdus # <<>>
      /\ input_sdus' = filled.left
      /\ buffer_occupancy' = buffer_occupancy
                             - (FoldLeft(+, 0, filled.lis) + filled.rest)
      /\ tb' = [size  |-> Shortened(size, counted.cut) - filled.room,
                first |-> Head(input_sdus).remaining = Head(input_sdus).size,
                last  |-> filled.last,
                li    |-> filled.lis,
                rest  |-> filled.rest,
                planned  |-> counted.num_li - (IF counted.extra > 0 THEN 1 ELSE 0),
                asserted |-> filled.asserted]
      /\ UNCHANGED <<tx_sn_length, requested>>

TxNext ==
  \/ \E size \in TxSduSizes : Len(input_sdus) < MaxQueued /\ DataReq(size)
  \/ \E n \in Grants : MacStatus(n)
  \/ NothingToSend
  \/ Segment

TxSpec == TxInit /\ [][TxNext]_tx_vars

-----------------------------------------------------------------------------
(* Properties.                                                              *)

\* buffer_occupancy, which the MAC schedules by, is what waits in input_sdus, and
\* an SDU that is entirely sent has left the queue.
OccupancyIsExact ==
  /\ \A i \in DOMAIN input_sdus : input_sdus[i].remaining \in 1 .. input_sdus[i].size
  /\ buffer_occupancy = TotalRemaining(input_sdus)

\* The PDU never exceeds the transport block the MAC offered: the MAC copies
\* it into a buffer of that size.
PduFits == tb.size <= requested

\* The bytes of the PDU that are neither header nor length indicator nor taken from an
\* SDU.  The receiver takes every byte after the header for data, so that they are added
\* to the last SDU of the PDU.
StrayBytes == tb.size - (HeaderLength + LiBytes(Len(tb.li)) + FoldLeft(+, 0, tb.li) + tb.rest)

\* A PDU that has no room for another length indicator is shortened: rlc_um_segment_5
\* and rlc_um_segment_10 both say "reduce the size of the PDU".
NoStrayBytes == tb # NoTb => StrayBytes = 0

\* rlc_um_segment_5, which shortens data_pdu_size at every end of its layout pass,
\* leaves no byte in a PDU that belongs to no SDU.
FiveBitExact == tx_sn_length = 5 => NoStrayBytes

\* The pass that fills the PDU agrees with the pass that laid it out: the same
\* number of length indicators, so that the data starts where the receiver looks
\* for it, and never the branch marked assert(1!=1).
PassesAgree == tb.planned = Len(tb.li) /\ ~tb.asserted

\* Room is not wasted: as long as SDUs remain, a PDU leaves at most the two
\* bytes unused that a length indicator without data would take.
GrantIsUsed == tb # NoTb /\ input_sdus # <<>> => requested - tb.size <= 2

\* A PDU carries at least one byte of an SDU, so that requests of the MAC
\* empty the queue.
SendsSomething == [][tb' # NoTb => buffer_occupancy' < buffer_occupancy]_tx_vars
=============================================================================
