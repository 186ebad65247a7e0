----------------------------- MODULE RlcUmLink ------------------------------
(***************************************************************************)
(* A UM bearer end to end: PDCP submits SDUs to the sending entity RlcUmTx, *)
(* the MAC takes UMD PDUs from it, the MAC and the radio lose, duplicate    *)
(* and reorder them, and the receiving entity is RlcUmDar.                  *)
(*                                                                         *)
(* An SDU is its number, a byte of it is <<number, position>>.  A PDU is    *)
(* known by its rank in the order of transmission; its SN is the rank       *)
(* modulo SnModulo, which is all the receiver sees of it.                   *)
(***************************************************************************)
EXTENDS RlcUmDar, RlcUmTx

CONSTANT SduSizes   \* the sizes in bytes of the SDUs that PDCP submits, in order

VARIABLES
  submitted,  \* how many SDUs are or were in input_sdus
  sent,       \* the PDUs transmitted; Len(sent) is VT(US)
  channel,    \* ranks of the PDUs still in the MAC or on the air
  heard,      \* one more than the highest rank that arrived: VR(UH) unwrapped
  accepted,   \* ranks of the PDUs that the receiver stored
  delivered   \* the SDUs handed to the peer PDCP

air_vars == <<channel, heard, accepted, delivered>>
all_vars == <<vars, tx_vars, submitted, sent, air_vars>>

NumSdus == Len(SduSizes)

Total(sizes) == FoldLeft(+, 0, sizes)

\* The bytes of the SDUs, in the order they are transmitted.
SduBytes(k) == [i \in 1 .. SduSizes[k] |-> <<k, i>>]
Stream      == FlattenSeq([k \in 1 .. NumSdus |-> SduBytes(k)])

\* How many bytes were put into PDUs.
TxBytes == Total(SubSeq(SduSizes, 1, submitted)) - TotalRemaining(input_sdus)

Stray == <<0, 0>>   \* a byte of the PDU that belongs to no SDU

\* The PDU as the receiver reads it: a data field for each length indicator,
\* and all the bytes that follow.
UmdPdu(pdu, from) ==
  LET start(i) == from + Total(SubSeq(pdu.li, 1, i - 1))
      number   == Len(pdu.li) + 1
      follow   == pdu.size - HeaderLength - LiBytes(Len(pdu.li)) - Total(pdu.li)
      tail     == SubSeq(Stream, start(number) + 1, start(number) + pdu.rest)
  IN  [first |-> pdu.first, last |-> pdu.last,
       data  |-> [i \in 1 .. number |->
                    IF i < number THEN SubSeq(Stream, start(i) + 1, start(i + 1))
                    ELSE tail \o [j \in 1 .. follow - pdu.rest |-> Stray]]]

-----------------------------------------------------------------------------

LinkInit ==
  /\ Init /\ TxInit
  /\ submitted = 0 /\ sent = <<>>
  /\ channel = {} /\ heard = 0 /\ accepted = {} /\ delivered = <<>>

\* PDCP hands over the next SDU.
Submit ==
  /\ submitted < NumSdus
  /\ DataReq(SduSizes[submitted + 1])
  /\ submitted' = submitted + 1
  /\ UNCHANGED <<vars, sent, air_vars>>

\* The sender's MAC offers a transport block.
Offer(n) ==
  /\ MacStatus(n)
  /\ UNCHANGED <<vars, submitted, sent, air_vars>>

\* The sender's MAC takes a PDU and transmits it.
Transmit ==
  /\ Segment
  /\ sent' = Append(sent, UmdPdu(tb', TxBytes))
  /\ channel' = channel \cup {Len(sent)}
  /\ UNCHANGED <<vars, submitted, heard, accepted, delivered>>

\* HARQ gives up on a PDU.
Lose(i) ==
  /\ channel' = channel \ {i}
  /\ UNCHANGED <<vars, tx_vars, submitted, sent, heard, accepted, delivered>>

\* A PDU is decoded, out of order or once more.  HARQ delays a PDU by less
\* than the window, and fewer than a window of PDUs are lost in a row: the
\* SN space is made for that.
Arrive(t, i, again) ==
  /\ heard - WindowSize <= i /\ i < heard + WindowSize
  /\ DataIndication(t, i % SnModulo, sent[i + 1])
  /\ channel' = IF again THEN channel ELSE channel \ {i}
  /\ heard' = IF i < heard THEN heard ELSE i + 1
  /\ UNCHANGED <<tx_vars, submitted, sent, accepted, delivered>>

\* The rank of the PDU with this SN among those that can be meant.
Rank(sn) == CHOOSE i \in heard - WindowSize .. heard + WindowSize - 1 : i % SnModulo = sn

Receiver ==
  /\ FramesPass \/ \E t \in Threads : Step(t)
  /\ delivered' = delivered \o data_ind'
  /\ accepted' = accepted \cup
       {Rank(rx_pdu[t].sn) : t \in {u \in Threads : pc[u] = "receive" /\ lock' = u}}
  /\ UNCHANGED <<tx_vars, submitted, sent, channel, heard>>

LinkNext ==
  \/ Submit
  \/ \E n \in Grants : Offer(n)
  \/ Transmit
  \/ \E i \in channel : Lose(i) \/ \E t \in RxThreads, again \in BOOLEAN : Arrive(t, i, again)
  \/ Receiver

LinkSpec == LinkInit /\ [][LinkNext]_all_vars

-----------------------------------------------------------------------------
(* Properties.                                                              *)

\* What the peer PDCP sees: numbers of whole SDUs; 0 stands for anything else.
Number(sdu) == IF \E k \in 1 .. NumSdus : sdu = SduBytes(k)
               THEN CHOOSE k \in 1 .. NumSdus : sdu = SduBytes(k) ELSE 0

Service == INSTANCE RlcUmService WITH
             delivered <- [i \in 1 .. Len(delivered) |-> Number(delivered[i])]

\* The bearer is the service of RlcUmService: the reassembly of
\* rlc_um_try_reassembly never delivers a truncated or mixed SDU, an SDU out
\* of order or an SDU twice, whatever is lost, duplicated or reordered.
ImplementsService == Service!Spec

\* VR(UR) unwrapped.
Reassembled == heard - Dist(vr_ur, vr_uh)

CarriedBy(k) == {i \in 0 .. Len(sent) - 1 :
                   \E c \in 1 .. Len(sent[i + 1].data) : sent[i + 1].data[c][1][1] = k}

Transmitted(k) == TxBytes >= Total(SubSeq(SduSizes, 1, k))

\* The receiver does not lose an SDU of which it stored every PDU: once
\* VR(UR) passed them the SDU has been delivered.
StoredIsDelivered ==
  (\A t \in Threads : pc[t] = "idle") =>
    \A k \in 1 .. submitted :
       /\ Transmitted(k)
       /\ CarriedBy(k) \subseteq accepted
       /\ \A i \in CarriedBy(k) : i < Reassembled
       => \E j \in 1 .. Len(delivered) : delivered[j] = SduBytes(k)

\* "reassemble RLC SDUs from any UMD PDUs ... if not delivered before": no SDU
\* is handed to PDCP twice.
NotDeliveredBefore ==
  \A i, j \in 1 .. Len(delivered) : delivered[i] = delivered[j] => i = j
=============================================================================
