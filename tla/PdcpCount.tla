------------------------------ MODULE PdcpCount ------------------------------
(***************************************************************************)
(* How two PDCP entities agree on COUNT, the HFN and the SN of a PDU, of    *)
(* which only the SN is sent (openair2/LAYER2/PDCP_v10.1.0): one direction  *)
(* of a bearer, from pdcp_data_req of the sender to pdcp_data_ind of the    *)
(* receiver.  Both cipher with COUNT, so they have to agree on it for every *)
(* PDU, whatever was lost before.                                           *)
(*                                                                         *)
(* RLC lies between them: it delivers PDUs in order, and loses some: on a UM *)
(* bearer on the way, on an AM bearer and an SRB when it refuses a PDU that *)
(* already has its SN.  Fields that are written and never read              *)
(* (missing_pdu_bitmap, first_missing_pdu, next_pdcp_rx_sn_before_integrity)*)
(* are left out.                                                            *)
(***************************************************************************)
EXTENDS Integers, Sequences

CONSTANTS
  SnModulo,       \* 2 ^ seq_num_size; 4096 on an AM bearer (last_submitted starts at 4095)
  Window,         \* reordering_window
  SnWidth,        \* pdcp_sn_t is uint16_t: 2^16
  Bearers,        \* the kinds of bearer, of Kinds
  MaxHfn,         \* bound: tx_hfn
  MaxFlight       \* bound: PDUs in RLC

\* An SRB; a UM bearer with 12-bit and with 7-bit SNs; an AM bearer; an AM bearer
\* whose receiver is an eNB built with LINK_PDCP_TO_GTPV1U.
Kinds == {"srb", "um", "um7", "am", "gtpu"}

ASSUME PdcpSnAssumption ==
  Window \in Nat \ {0} /\ SnModulo = 2 * Window /\ SnWidth \in Nat /\ SnModulo <= SnWidth
ASSUME PdcpBearerAssumption ==
  /\ Bearers \subseteq Kinds
  /\ MaxHfn \in Nat /\ MaxFlight \in Nat

VARIABLES
  bearer,                   \* is_srb and rlc_mode
  next_pdcp_tx_sn, tx_hfn,
  next_pdcp_rx_sn, rx_hfn,
  last_submitted,           \* last_submitted_pdcp_rx_sn
  rlc,                      \* PDUs in RLC, with the COUNT they were ciphered with
  lost,                     \* PDUs lost since the last one that was received
  got,                      \* the last PDU received: as sent, as deciphered
  crossed                   \* history: RLC AM lost a PDU with the last SN before a wrap

pdcp_vars == <<bearer, next_pdcp_tx_sn, tx_hfn, next_pdcp_rx_sn, rx_hfn,
               last_submitted, rlc, lost, got, crossed>>

MaxSn == SnModulo - 1   \* pdcp_calculate_max_seq_num_for_given_size
SN == 0 .. MaxSn
Count(hfn, sn) == [hfn |-> hfn, sn |-> sn]
IsAm == bearer \in {"am", "gtpu"}

PdcpInit ==
  /\ bearer \in Bearers
  /\ next_pdcp_tx_sn = 0 /\ tx_hfn = 0 /\ next_pdcp_rx_sn = 0 /\ rx_hfn = 0
  /\ last_submitted = MaxSn
  /\ rlc = <<>> /\ lost = 0
  /\ got = [sent |-> Count(0, 0), read |-> Count(0, 0), ok |-> TRUE]
  /\ crossed = FALSE

\* Mutant of Advanced: the HFN is not moved on at the wrap.
AdvancedWithin(hfn, sn) == [hfn |-> hfn, next |-> (sn + 1) % SnModulo]

\* pdcp_get_next_tx_seq_number and pdcp_advance_rx_window: what follows SN sn.
Advanced(hfn, sn) ==
  IF sn = MaxSn THEN [hfn |-> hfn + 1, next |-> 0] ELSE [hfn |-> hfn, next |-> sn + 1]

\* pdcp_data_req.  COUNT is made of tx_hfn when that has moved on (pdcp_apply_security
\* after pdcp_get_next_tx_seq_number).
DataReq ==
  LET a == Advanced(tx_hfn, next_pdcp_tx_sn)
  IN  /\ a.hfn <= MaxHfn /\ Len(rlc) < MaxFlight
      /\ next_pdcp_tx_sn' = a.next /\ tx_hfn' = a.hfn
      /\ rlc' = Append(rlc, Count(a.hfn, next_pdcp_tx_sn))
      /\ UNCHANGED <<bearer, next_pdcp_rx_sn, rx_hfn, last_submitted, lost, got, crossed>>

\* RLC loses a PDU, any PDU.  Less than an SN space in a row, and on an AM bearer
\* less than the reordering window: otherwise the SN does not tell the HFN.
MaxLost == IF IsAm THEN Window - 1 ELSE SnModulo - 1
Lose ==
  /\ rlc # <<>> /\ lost < MaxLost
  /\ rlc' = Tail(rlc) /\ lost' = lost + 1
  /\ crossed' = (crossed \/ (IsAm /\ Head(rlc).sn = MaxSn))
  /\ UNCHANGED <<bearer, next_pdcp_tx_sn, tx_hfn, next_pdcp_rx_sn, rx_hfn,
                 last_submitted, got>>

-----------------------------------------------------------------------------
(* pdcp_is_rx_seq_number_valid: the new rx_hfn and next_pdcp_rx_sn, and      *)
(* rx_hfn_offset.                                                           *)

Rx(a, offset, ok) == [hfn |-> a.hfn, next |-> a.next, offset |-> offset, ok |-> ok]
Still == [hfn |-> rx_hfn, next |-> next_pdcp_rx_sn]

\* Mutant of RxInOrder: an SN below the expected one is not taken for a wrap.
RxInOrderFlat(sn) == Rx(Advanced(rx_hfn, sn), 0, TRUE)

\* SRBs and RLC_MODE_UM.
RxInOrder(sn) ==
  Rx(Advanced(IF sn < next_pdcp_rx_sn THEN rx_hfn + 1 ELSE rx_hfn, sn), 0, TRUE)

\* Mutant of OutOfWindow: the distance from last_submitted is one too small.
OutOfWindowTight(sn) == sn - last_submitted >= Window - 1

OutOfWindow(sn) ==
  \/ sn - last_submitted > Window
  \/ 0 <= last_submitted - sn /\ last_submitted - sn < Window

\* Mutant of RxReordering: the window advances without its HFN.
RxReorderingFlat(sn) ==
  Rx(IF sn >= next_pdcp_rx_sn THEN [hfn |-> rx_hfn, next |-> (sn + 1) % SnModulo]
                              ELSE Still, 0, ~OutOfWindow(sn))

\* RLC_MODE_AM.
RxReordering(sn) ==
  IF OutOfWindow(sn)
    THEN Rx(Still, IF sn > next_pdcp_rx_sn THEN -1 ELSE 0, FALSE)
  ELSE IF next_pdcp_rx_sn - sn > Window
    THEN Rx([hfn |-> rx_hfn + 1, next |-> (next_pdcp_rx_sn + 1) % SnWidth], 0, TRUE)
  ELSE IF sn - next_pdcp_rx_sn >= Window THEN Rx(Still, -1, TRUE)
  ELSE IF sn >= next_pdcp_rx_sn THEN Rx(Advanced(rx_hfn, sn), 0, TRUE)
  ELSE Rx(Still, 0, TRUE)

\* The SN that pdcp_data_ind reads: of a 7-bit SN the low bits of the first octet,
\* where the sender, which writes the 12-bit header on every DRB, put bits 8 to 11.
ReadSn(sn) == IF bearer = "um7" THEN sn \div 256 ELSE sn

\* pdcp_data_ind.  A PDU whose SN is refused is deciphered and delivered all the
\* same.  Only an AM bearer reads last_submitted; towards GTP-U it is not kept.
DataInd ==
  LET pdu == Head(rlc)
      sn  == ReadSn(pdu.sn)
      r   == IF IsAm THEN RxReordering(sn) ELSE RxInOrder(sn)
  IN  /\ rlc # <<>>
      /\ rlc' = Tail(rlc) /\ lost' = 0
      /\ rx_hfn' = r.hfn /\ next_pdcp_rx_sn' = r.next
      /\ last_submitted' = IF bearer = "am" THEN sn ELSE last_submitted
      /\ got' = [sent |-> pdu, read |-> Count(r.hfn + r.offset, sn), ok |-> r.ok]
      /\ UNCHANGED <<bearer, next_pdcp_tx_sn, tx_hfn, crossed>>

PdcpNext == DataReq \/ Lose \/ DataInd

PdcpSpec == PdcpInit /\ [][PdcpNext]_pdcp_vars
-----------------------------------------------------------------------------
(* Properties.                                                              *)

\* The receiver has deciphered the last PDU with the COUNT that it was ciphered with.
CountsAgree == got.read = got.sent

\* An SN of the receiver's is one of the SN space, and when nothing is on its way it is
\* behind by the PDUs that were lost: the state variables of both ends agree.
EndsAgree ==
  /\ next_pdcp_rx_sn \in SN
  /\ rlc = <<>> =>
       \/ rx_hfn = tx_hfn /\ next_pdcp_tx_sn = next_pdcp_rx_sn + lost
       \/ rx_hfn + 1 = tx_hfn /\ next_pdcp_tx_sn + SnModulo = next_pdcp_rx_sn + lost

\* On an SRB and a UM bearer with 12-bit SNs the receiver deciphers every PDU with the
\* COUNT it was ciphered with, and the ends stay in step, whatever was lost before and
\* wherever the SN wraps.  With 7-bit SNs, whose header the receiver reads in another
\* format than the sender writes, it does not.
InStep == bearer \in {"srb", "um"} => CountsAgree /\ EndsAgree

\* On an AM bearer the same holds for as long as no PDU with the last SN before a wrap
\* is lost, whatever else is.
AgreeUntilCrossed == bearer = "am" /\ ~crossed => CountsAgree /\ EndsAgree

\* On an AM bearer a PDU that RLC delivers in order is never taken for one out of the
\* reordering window, not even after such a loss.  Towards GTP-U, where
\* last_submitted_pdcp_rx_sn is not kept, it is.
NoneRefused == bearer = "am" => got.ok
=============================================================================
