----------------------------- MODULE RlcAmTxLink -----------------------------
(***************************************************************************)
(* The transmitting side of RLC AM (RlcAmTx) with a peer and the radio link.*)
(* The peer is what RlcAmRx shows the receiving side to be: it drops a PDU  *)
(* that overlaps with what it has, asks for a report when it is polled and  *)
(* when it drops a PDU, and its reports are truthful.  The link loses PDUs  *)
(* and reports, and reorders reports if Reordering is TRUE.                 *)
(***************************************************************************)
EXTENDS RlcAmTx, SequencesExt

CONSTANTS
  Reordering,   \* may a report overtake another
  MaxReports,   \* bound: reports on their way
  MaxCount,     \* bound: retx_count of a PDU when one is sent or a report arrives
  MaxAfter      \* bound: PDUs held then, once a descriptor is overwritten

VARIABLES
  missing,      \* the bytes of the PDU with each SN that the peer has not got
  requested,    \* status_requested of the peer
  reports,      \* reports on their way
  overwritten   \* history: has an SDU taken the descriptor of one that is not confirmed

peer_vars == <<missing, requested, reports>>
link_vars == <<tx_vars, peer_vars, overwritten>>

LinkInit ==
  /\ TxInit
  /\ missing = [sn \in SN |-> {}] /\ requested = FALSE /\ reports = <<>>
  /\ overwritten = FALSE

Bounded ==
  /\ \A sn \in SN : slots[sn].retx <= MaxCount
  /\ overwritten => num_pdus <= MaxAfter

\* PDCP submits an SDU.  rlc_am_data_req looks whether the descriptor in turn holds an
\* SDU to segment: one that is sent and not acknowledged it overwrites.
Submit ==
  /\ \/ /\ \E size \in SduSizes : DataReq(size)
        /\ overwritten' = (overwritten \/ sdus[next_sdu].mui # 0)
     \/ DataReqDropped /\ UNCHANGED overwritten
  /\ UNCHANGED peer_vars
TimeOut == PollTimeOut /\ UNCHANGED <<peer_vars, overwritten>>

\* The MAC asks for a PDU; a new one is all missing at the peer.
Request ==
  /\ Bounded /\ \E g \in Grants : GetPdus(g)
  /\ missing' = IF vt_s' # vt_s THEN [missing EXCEPT ![vt_s] = 0 .. slots'[vt_s].size - 1]
                                ELSE missing
  /\ UNCHANGED <<requested, reports, overwritten>>

Lose == TakePdu /\ UNCHANGED <<peer_vars, overwritten>>

\* rlc_am_receive_process_data_pdu of the peer.
Arrive ==
  LET x     == mac[1]
      bytes == x.from .. x.to
      taken == bytes \subseteq missing[x.sn]
  IN  /\ TakePdu
      /\ missing' = IF taken THEN [missing EXCEPT ![x.sn] = @ \ bytes] ELSE missing
      /\ requested' = (requested \/ x.poll \/ ~taken)
      /\ UNCHANGED <<reports, overwritten>>

-----------------------------------------------------------------------------
(* The reports of the peer.                                                 *)

\* The NACKs of one PDU, one for each run of missing bytes.
Runs(sn) ==
  LET starts == {b \in missing[sn] : b - 1 \notin missing[sn]}
      end(b) == Min({e \in missing[sn] : e >= b /\ e + 1 \notin missing[sn]})
      range(b) == [sn |-> sn, so_start |-> b,
                   so_end |-> IF end(b) + 1 = slots[sn].size THEN SoEnd ELSE end(b)]
  IN  [i \in 1 .. Cardinality(starts) |-> range(SetToSortSeq(starts, <)[i])]

\* The distance from VT(A) of the last PDU of which the peer has a byte, or -1.
Top == Max({-1} \cup {Dist(vt_a, sn) : sn \in {s \in Outstanding :
                                                       missing[s] # 0 .. slots[s].size - 1}})
Nacks(d) == FlattenSeq([k \in 1 .. d |-> Runs(Plus(vt_a, k - 1))])

\* A report acknowledges up to the last PDU that has arrived; an incomplete last
\* one it leaves out, and with it the one before when it has one segment.
Reports ==
  IF Top = -1 THEN {[ack |-> vt_a, nacks |-> <<>>]}
  ELSE IF missing[Plus(vt_a, Top)] = {}
       THEN {[ack |-> Plus(vt_a, Top + 1), nacks |-> Nacks(Top + 1)]}
  ELSE {[ack |-> Plus(vt_a, Top + k), nacks |-> Nacks(Max({0, Top + k}))] : k \in {-1, 0}}

Report ==
  /\ ~ctrl.on /\ requested /\ Len(reports) < MaxReports
  /\ \E r \in Reports : reports' = Append(reports, r)
  /\ requested' = FALSE
  /\ UNCHANGED <<tx_vars, missing, overwritten>>

LoseReport ==
  /\ ~ctrl.on /\ reports # <<>>
  /\ reports' = Tail(reports)
  /\ UNCHANGED <<tx_vars, missing, requested, overwritten>>

DeliverReport ==
  /\ Bounded
  /\ \E i \in DOMAIN reports :
        /\ i = 1 \/ Reordering
        /\ ReceiveStatus(reports[i])
        /\ reports' = RemoveAt(reports, i)
  /\ UNCHANGED <<missing, requested, overwritten>>

Process == StatusStep /\ UNCHANGED <<peer_vars, overwritten>>

LinkNext == Submit \/ TimeOut \/ Request \/ Lose \/ Arrive \/ Report \/ LoseReport
            \/ DeliverReport \/ Process

LinkSpec == LinkInit /\ [][LinkNext]_link_vars
-----------------------------------------------------------------------------
(* Properties.                                                              *)

\* Only what the peer has received is acknowledged and freed: a status report is
\* never applied to a PDU that it does not speak of.
AckedIsReceived == \A sn \in SN : ~slots[sn].mem => missing[sn] = {}

\* A report that acknowledges a PDU which waits for it is processed, and stops
\* t-PollRetransmit when it covers POLL_SN.  rlc_am_receive_process_control_pdu
\* ignores a report when rlc_am_in_tx_window refuses its ACK_SN.
ReportsAreHeard ==
  \A i \in DOMAIN reports :
    Dist(vt_a, reports[i].ack) \in 1 .. Dist(vt_a, vt_s) => InTxWindow(reports[i].ack)

\* Every SDU that was taken is confirmed once, and not before the last PDU with a part
\* of it is acknowledged, until rlc_am_data_req overwrites the descriptor of one that
\* is not confirmed: nothing else in the sender loses or mixes up a confirmation.
AccountedUntilOverwritten == ~overwritten => SdusAccounted
=============================================================================
