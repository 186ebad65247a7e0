--------------------------- MODULE PdcpCountProofs ---------------------------
(***************************************************************************)
(* Proofs about PdcpCount, for every SN space and reordering window, any    *)
(* number of PDUs in RLC and any pattern of loss within Lose.               *)
(***************************************************************************)
EXTENDS PdcpCount, TLAPS, SequenceTheorems

Counts == [hfn : Nat, sn : SN]

\* The HFN of the sender before it took the PDU c, and the SN after it.
HfnBefore(c) == IF c.sn = MaxSn THEN c.hfn - 1 ELSE c.hfn
SnAfter(c) == IF c.sn = MaxSn THEN 0 ELSE c.sn + 1

\* HFN hfn and SN sn are k PDUs after what the receiver expects.
Ahead(hfn, sn, k) ==
  \/ hfn = rx_hfn /\ sn = next_pdcp_rx_sn + k
  \/ hfn = rx_hfn + 1 /\ sn + SnModulo = next_pdcp_rx_sn + k

\* The fields of the sender and of RLC keep their types.
PdcpTypeOK ==
  /\ bearer \in {"srb", "um", "am"} /\ crossed \in BOOLEAN
  /\ bearer # "am" => ~crossed
  /\ next_pdcp_tx_sn \in SN /\ last_submitted \in SN /\ tx_hfn \in Nat
  /\ rlc \in Seq(Counts)
  /\ lost \in 0 .. MaxLost

\* The PDUs in RLC follow each other, the sender comes after the last.
Chain ==
  /\ \A i \in 1 .. Len(rlc) - 1 :
       HfnBefore(rlc[i + 1]) = rlc[i].hfn /\ rlc[i + 1].sn = SnAfter(rlc[i])
  /\ rlc # <<>> => /\ tx_hfn = rlc[Len(rlc)].hfn
                   /\ next_pdcp_tx_sn = SnAfter(rlc[Len(rlc)])

\* What the receiver gets next is ahead of what it expects by what was lost.
Expected ==
  IF rlc = <<>> THEN Ahead(tx_hfn, next_pdcp_tx_sn, lost)
                ELSE Ahead(HfnBefore(rlc[1]), rlc[1].sn, lost)

\* On an AM bearer what the receiver gets next is ahead of the last SN submitted by
\* one more than was lost.
LastKept ==
  bearer = "am" =>
    LET sn == IF rlc = <<>> THEN next_pdcp_tx_sn ELSE rlc[1].sn
    IN  \/ sn = last_submitted + 1 + lost
        \/ sn + SnModulo = last_submitted + 1 + lost

\* On an AM bearer: nothing was lost across the wrap.
InWindow == bearer = "am" => next_pdcp_rx_sn + lost <= MaxSn

\* The receiver knows the sender's HFN.
Agreed ==
  /\ next_pdcp_rx_sn \in SN /\ rx_hfn \in Nat
  /\ Expected /\ InWindow /\ CountsAgree

\* The bearers on which the SN is read as it was written and last_submitted is kept.
Faithful == bearer \in {"srb", "um", "am"}

CountInvariant ==
  PdcpTypeOK /\ Chain /\ LastKept /\ NoneRefused /\ (~crossed => Agreed)
-----------------------------------------------------------------------------

\* The SN space has at least two numbers.
LEMMA SnFacts ==
  /\ Window \in Nat /\ Window >= 1 /\ SnModulo \in Nat
  /\ SnModulo = 2 * Window /\ MaxSn = SnModulo - 1 /\ MaxSn \in Nat /\ MaxSn >= 1
BY PdcpSnAssumption DEF MaxSn

\* What remains of a sequence without its head.
LEMMA TailFacts ==
  ASSUME NEW s \in Seq(Counts), s # <<>>
  PROVE  /\ s[1] \in Counts /\ Head(s) = s[1]
         /\ Tail(s) \in Seq(Counts) /\ Len(Tail(s)) = Len(s) - 1
         /\ \A i \in 1 .. Len(s) - 1 : Tail(s)[i] = s[i + 1]
         /\ Tail(s) = <<>> <=> Len(s) = 1
         /\ Len(s) \in Nat /\ Len(s) >= 1
<1>1. /\ Tail(s) \in Seq(Counts) /\ Len(Tail(s)) = Len(s) - 1
      /\ \A i \in 1 .. Len(Tail(s)) : Tail(s)[i] = s[i + 1]
  BY HeadTailProperties
<1>2. Len(s) \in Nat /\ Len(s) >= 1
  BY EmptySeq
<1>3. s[1] \in Counts /\ Head(s) = s[1]
  BY <1>2
<1>4. Tail(s) = <<>> <=> Len(s) = 1
  <2>1. Tail(s) = <<>> => Len(Tail(s)) = 0
    BY EmptySeq
  <2>2. Tail(s) # <<>> => Len(Tail(s)) # 0
    BY <1>1, EmptySeq
  <2> QED
    BY <2>1, <2>2, <1>1, <1>2
<1> QED
  BY <1>1, <1>2, <1>3, <1>4

LEMMA AppendFacts ==
  ASSUME NEW s \in Seq(Counts), NEW c \in Counts
  PROVE  /\ Append(s, c) \in Seq(Counts) /\ Append(s, c) # <<>>
         /\ Len(Append(s, c)) = Len(s) + 1 /\ Len(s) \in Nat
         /\ \A i \in 1 .. Len(s) : Append(s, c)[i] = s[i]
         /\ Append(s, c)[Len(s) + 1] = c
         /\ s = <<>> <=> Len(s) = 0
OBVIOUS

\* Initially both ends expect COUNT 0.
LEMMA CountInit ==
  ASSUME Faithful, PdcpInit
  PROVE  CountInvariant
<1> USE SnFacts
<1>1. PdcpTypeOK
  <2>1. crossed \in BOOLEAN /\ (bearer # "am" => ~crossed) /\ bearer \in {"srb", "um", "am"}
    BY Zenon DEF PdcpInit, Faithful
  <2> QED
    BY <2>1 DEF PdcpInit, PdcpTypeOK, SN, MaxLost
<1>2. Chain
  BY DEF PdcpInit, Chain
<1>3. Expected /\ InWindow
  BY DEF PdcpInit, Expected, Ahead, InWindow
<1>4. LastKept
  BY DEF PdcpInit, LastKept
<1>5. CountsAgree /\ NoneRefused
  BY DEF PdcpInit, CountsAgree, NoneRefused
<1>6. next_pdcp_rx_sn \in SN /\ rx_hfn \in Nat
  BY DEF PdcpInit, SN
<1> QED
  BY <1>1, <1>2, <1>3, <1>4, <1>5, <1>6 DEF CountInvariant, Agreed

\* A new PDU is the successor of the last one, or what the receiver awaits.
LEMMA CountDataReq == CountInvariant /\ DataReq => CountInvariant'
<1> SUFFICES ASSUME CountInvariant, DataReq PROVE CountInvariant'
  OBVIOUS
<1> USE SnFacts
<1> DEFINE a == Advanced(tx_hfn, next_pdcp_tx_sn)
           c == Count(a.hfn, next_pdcp_tx_sn)
<1>1. PdcpTypeOK /\ Chain /\ LastKept /\ NoneRefused /\ (~crossed => Agreed)
  BY DEF CountInvariant
<1>2. /\ rlc' = Append(rlc, c) /\ next_pdcp_tx_sn' = a.next /\ tx_hfn' = a.hfn
      /\ UNCHANGED <<bearer, next_pdcp_rx_sn, rx_hfn, last_submitted, lost, got, crossed>>
  BY DEF DataReq
<1>3. /\ next_pdcp_tx_sn \in SN /\ tx_hfn \in Nat /\ rlc \in Seq(Counts)
  BY <1>1 DEF PdcpTypeOK
<1>4. /\ a.hfn \in Nat /\ a.next \in SN
      /\ c.hfn = a.hfn /\ c.sn = next_pdcp_tx_sn
      /\ HfnBefore(c) = tx_hfn /\ SnAfter(c) = a.next
  BY <1>3 DEF Advanced, Count, SN, HfnBefore, SnAfter
<1>5. c \in Counts
  BY <1>3, <1>4 DEF Counts, Count
<1> HIDE DEF a, c
<1>6. PdcpTypeOK'
  BY <1>1, <1>2, <1>4, <1>5, AppendFacts DEF PdcpTypeOK, MaxLost, IsAm
<1>7. Chain'
  <2>1. /\ rlc'[Len(rlc')] = c /\ rlc' # <<>> /\ Len(rlc') = Len(rlc) + 1
        /\ Len(rlc) \in Nat /\ \A i \in 1 .. Len(rlc) : rlc'[i] = rlc[i]
        /\ rlc = <<>> <=> Len(rlc) = 0
    BY <1>2, <1>3, <1>5, AppendFacts
  <2>2. ASSUME NEW i \in 1 .. Len(rlc') - 1
        PROVE  HfnBefore(rlc'[i + 1]) = rlc'[i].hfn /\ rlc'[i + 1].sn = SnAfter(rlc'[i])
    <3>1. CASE i = Len(rlc)
      <4>1. rlc'[i + 1] = c /\ rlc'[i] = rlc[Len(rlc)] /\ rlc # <<>>
        BY <2>1, <3>1
      <4> QED
        BY <4>1, <1>1, <1>4 DEF Chain
    <3>2. CASE i # Len(rlc)
      <4>1. i \in 1 .. Len(rlc) - 1 /\ i + 1 \in 1 .. Len(rlc) /\ i \in 1 .. Len(rlc)
        BY <2>1, <3>2
      <4> QED
        BY <4>1, <2>1, <1>1 DEF Chain
    <3> QED
      BY <3>1, <3>2
  <2> QED
    BY <2>1, <2>2, <1>2, <1>4 DEF Chain
<1>8. rlc' # <<>> /\ rlc'[1] = IF rlc = <<>> THEN c ELSE rlc[1]
  BY <1>2, <1>3, <1>5, AppendFacts
<1>9. LastKept'
  BY <1>1, <1>2, <1>4, <1>8 DEF LastKept
<1>10. ASSUME ~crossed PROVE Agreed'
  <2>1. Expected' <=> Ahead(HfnBefore(rlc'[1]), rlc'[1].sn, lost)
    BY <1>2, <1>8 DEF Expected, Ahead
  <2>2. Expected'
    BY <2>1, <1>1, <1>4, <1>8, <1>10 DEF Expected, Agreed
  <2> QED
    BY <2>2, <1>1, <1>2, <1>10 DEF Agreed, InWindow, CountsAgree
<1> QED
  BY <1>1, <1>2, <1>6, <1>7, <1>9, <1>10 DEF CountInvariant, NoneRefused

\* What follows the PDU c, when c is at the head of RLC.
LEMMA Following ==
  ASSUME PdcpTypeOK, Chain, rlc # <<>>
  PROVE  LET hfn == IF Tail(rlc) = <<>> THEN tx_hfn ELSE HfnBefore(Tail(rlc)[1])
             sn  == IF Tail(rlc) = <<>> THEN next_pdcp_tx_sn ELSE Tail(rlc)[1].sn
         IN  hfn = rlc[1].hfn /\ sn = SnAfter(rlc[1])
<1>1. rlc \in Seq(Counts)
  BY DEF PdcpTypeOK
<1>2. CASE Len(rlc) = 1
  BY <1>1, <1>2, TailFacts DEF Chain
<1>3. CASE Len(rlc) # 1
  <2>1. 1 \in 1 .. Len(rlc) - 1 /\ Tail(rlc)[1] = rlc[1 + 1] /\ Tail(rlc) # <<>>
    BY <1>1, <1>3, TailFacts
  <2> QED
    BY <2>1 DEF Chain
<1> QED
  BY <1>2, <1>3

\* The rest of RLC is still a chain.
LEMMA ChainTail ==
  ASSUME PdcpTypeOK, Chain, rlc # <<>>, rlc' = Tail(rlc),
         UNCHANGED <<next_pdcp_tx_sn, tx_hfn>>
  PROVE  Chain'
<1>1. rlc \in Seq(Counts)
  BY DEF PdcpTypeOK
<1>2. /\ Len(rlc') = Len(rlc) - 1 /\ Len(rlc) \in Nat /\ Len(rlc) >= 1
      /\ \A i \in 1 .. Len(rlc) - 1 : rlc'[i] = rlc[i + 1]
      /\ rlc' = <<>> <=> Len(rlc) = 1
  BY <1>1, TailFacts
<1>3. ASSUME NEW i \in 1 .. Len(rlc') - 1
      PROVE  HfnBefore(rlc'[i + 1]) = rlc'[i].hfn /\ rlc'[i + 1].sn = SnAfter(rlc'[i])
  <2>1. /\ i + 1 \in 1 .. Len(rlc) - 1 /\ i \in 1 .. Len(rlc) - 1
    BY <1>2
  <2>2. rlc'[i] = rlc[i + 1] /\ rlc'[i + 1] = rlc[(i + 1) + 1]
    BY <1>2, <2>1
  <2> QED
    BY <2>1, <2>2 DEF Chain
<1>4. rlc' # <<>> => rlc'[Len(rlc')] = rlc[Len(rlc)]
  BY <1>2
<1> QED
  BY <1>3, <1>4 DEF Chain

\* A loss puts what comes next one further ahead.
LEMMA CountLose ==
  ASSUME CountInvariant, Lose
  PROVE  CountInvariant'
<1> USE SnFacts
<1>1. PdcpTypeOK /\ Chain /\ LastKept /\ NoneRefused /\ (~crossed => Agreed)
  BY DEF CountInvariant
<1>2. /\ rlc # <<>> /\ rlc' = Tail(rlc) /\ lost' = lost + 1 /\ lost < MaxLost
      /\ crossed' = (crossed \/ (IsAm /\ rlc[1].sn = MaxSn))
      /\ UNCHANGED <<bearer, next_pdcp_tx_sn, tx_hfn, next_pdcp_rx_sn, rx_hfn,
                     last_submitted, got>>
  BY <1>1, TailFacts DEF Lose, PdcpTypeOK
<1>3. /\ rlc[1].hfn \in Nat /\ rlc[1].sn \in 0 .. MaxSn
      /\ lost \in Nat /\ lost < MaxSn /\ last_submitted \in 0 .. MaxSn
  <2>1. rlc[1] \in Counts
    BY <1>1, <1>2, TailFacts DEF PdcpTypeOK
  <2>2. MaxLost <= MaxSn /\ MaxLost \in Nat
    BY DEF MaxLost
  <2> QED
    BY <2>1, <2>2, <1>1, <1>2 DEF PdcpTypeOK, Counts, SN
<1>4. PdcpTypeOK'
  <2>1. rlc' \in Seq(Counts)
    BY <1>1, <1>2, TailFacts DEF PdcpTypeOK
  <2>2. lost' \in 0 .. MaxLost'
    BY <1>1, <1>2 DEF PdcpTypeOK, MaxLost, IsAm
  <2>3. crossed' \in BOOLEAN /\ (bearer' # "am" => ~crossed')
    BY <1>1, <1>2, Zenon DEF PdcpTypeOK, IsAm
  <2> QED
    BY <2>1, <2>2, <2>3, <1>1, <1>2 DEF PdcpTypeOK
<1>5. Chain'
  BY <1>1, <1>2, ChainTail
<1>6. /\ Tail(rlc) = <<>> => tx_hfn = rlc[1].hfn /\ next_pdcp_tx_sn = SnAfter(rlc[1])
      /\ Tail(rlc) # <<>> => /\ HfnBefore(Tail(rlc)[1]) = rlc[1].hfn
                             /\ Tail(rlc)[1].sn = SnAfter(rlc[1])
  BY <1>1, <1>2, Following
<1>7. LastKept'
  <2> SUFFICES ASSUME bearer = "am" PROVE LastKept'
    BY <1>2 DEF LastKept
  <2>1. \/ rlc[1].sn = last_submitted + 1 + lost
        \/ rlc[1].sn + SnModulo = last_submitted + 1 + lost
    BY <1>1, <1>2 DEF LastKept
  <2>2. \/ SnAfter(rlc[1]) = last_submitted + 1 + (lost + 1)
        \/ SnAfter(rlc[1]) + SnModulo = last_submitted + 1 + (lost + 1)
    BY <2>1, <1>3 DEF SnAfter
  <2> QED
    BY <2>2, <1>2, <1>6 DEF LastKept
<1>8. ASSUME ~crossed' PROVE Agreed'
  <2>1. Agreed /\ (bearer = "am" => rlc[1].sn # MaxSn)
    BY <1>1, <1>2, <1>8, Zenon DEF IsAm
  <2>2. rx_hfn \in Nat /\ next_pdcp_rx_sn \in 0 .. MaxSn
    BY <2>1 DEF Agreed, SN
  <2>3. Ahead(HfnBefore(rlc[1]), rlc[1].sn, lost)
    BY <2>1, <1>2 DEF Agreed, Expected
  <2>4. Ahead(rlc[1].hfn, SnAfter(rlc[1]), lost + 1)
    BY <2>2, <2>3, <1>3 DEF Ahead, HfnBefore, SnAfter
  <2>5. Expected'
    BY <2>4, <1>2, <1>6 DEF Expected, Ahead
  <2>6. InWindow'
    <3>1. CASE bearer = "am"
      <4>1. rlc[1].sn = next_pdcp_rx_sn + lost /\ rlc[1].sn # MaxSn
        BY <3>1, <2>1, <2>2, <2>3, <1>3 DEF Agreed, InWindow, Ahead
      <4> QED
        BY <4>1, <2>2, <1>2, <1>3 DEF InWindow
    <3>2. CASE bearer # "am"
      BY <3>2, <1>2 DEF InWindow
    <3> QED
      BY <3>1, <3>2
  <2> QED
    BY <2>1, <2>5, <2>6, <1>2 DEF Agreed, CountsAgree
<1> QED
  BY <1>1, <1>2, <1>4, <1>5, <1>7, <1>8 DEF CountInvariant, NoneRefused

\* A PDU whose SN is ahead of the last one submitted by no more than the window is
\* not refused, whether the SN wrapped between them or not.
LEMMA Admitted ==
  ASSUME NEW sn \in 0 .. MaxSn, last_submitted \in 0 .. MaxSn,
         lost \in Nat, lost < Window,
         \/ sn = last_submitted + 1 + lost
         \/ sn + SnModulo = last_submitted + 1 + lost
  PROVE  ~OutOfWindow(sn) /\ RxReordering(sn).ok
<1>1. ~OutOfWindow(sn)
  BY SnFacts DEF OutOfWindow
<1> QED
  BY <1>1 DEF RxReordering, Rx

\* A reception: the receiver finds the HFN from the SN and moves on to the next.
LEMMA CountDataInd ==
  ASSUME CountInvariant, DataInd
  PROVE  CountInvariant'
<1> USE SnFacts
<1> DEFINE pdu == rlc[1]
           r   == IF bearer = "am" THEN RxReordering(pdu.sn) ELSE RxInOrder(pdu.sn)
<1>1. PdcpTypeOK /\ Chain /\ LastKept /\ NoneRefused /\ (~crossed => Agreed)
  BY DEF CountInvariant
<1>2. rlc # <<>> /\ rlc \in Seq(Counts)
  BY <1>1 DEF DataInd, PdcpTypeOK
<1>3. pdu \in Counts /\ Head(rlc) = pdu /\ Tail(rlc) \in Seq(Counts)
  BY <1>2, TailFacts
<1>4. /\ rlc' = Tail(rlc) /\ lost' = 0 /\ rx_hfn' = r.hfn /\ next_pdcp_rx_sn' = r.next
      /\ last_submitted' = IF bearer = "am" THEN pdu.sn ELSE last_submitted
      /\ got' = [sent |-> pdu, read |-> Count(r.hfn + r.offset, pdu.sn), ok |-> r.ok]
      /\ UNCHANGED <<bearer, next_pdcp_tx_sn, tx_hfn, crossed>>
  <2>1. ReadSn(pdu.sn) = pdu.sn /\ (IsAm <=> bearer = "am")
    BY <1>1 DEF PdcpTypeOK, ReadSn, IsAm
  <2> QED
    BY <2>1, <1>3 DEF DataInd
<1>5. /\ pdu.hfn \in Nat /\ pdu.sn \in 0 .. MaxSn
      /\ lost \in Nat /\ lost <= MaxSn /\ last_submitted \in 0 .. MaxSn
      /\ bearer = "am" => lost < Window
  <2>1. lost \in 0 .. MaxLost
    BY <1>1 DEF PdcpTypeOK
  <2>2. MaxLost = IF bearer = "am" THEN Window - 1 ELSE MaxSn
    BY <1>1 DEF MaxLost, IsAm, PdcpTypeOK
  <2> QED
    BY <2>1, <2>2, <1>1, <1>3 DEF PdcpTypeOK, Counts, SN
<1>6. bearer = "am" => ~OutOfWindow(pdu.sn) /\ RxReordering(pdu.sn).ok
  <2> SUFFICES ASSUME bearer = "am" PROVE ~OutOfWindow(pdu.sn) /\ RxReordering(pdu.sn).ok
    OBVIOUS
  <2>1. \/ pdu.sn = last_submitted + 1 + lost
        \/ pdu.sn + SnModulo = last_submitted + 1 + lost
    BY <1>1, <1>2 DEF LastKept
  <2> QED
    BY <2>1, <1>5, Admitted
<1>7. r.ok
  BY <1>6 DEF RxInOrder, Rx
<1>8. ASSUME ~crossed
      PROVE  /\ r.hfn = pdu.hfn /\ r.next = SnAfter(pdu) /\ r.offset = 0
  <2>1. Agreed /\ rx_hfn \in Nat /\ next_pdcp_rx_sn \in 0 .. MaxSn
    BY <1>1, <1>8 DEF Agreed, SN
  <2>2. Ahead(HfnBefore(pdu), pdu.sn, lost)
    BY <2>1, <1>2 DEF Agreed, Expected
  <2>3. CASE bearer = "am"
    <3>1. pdu.sn = next_pdcp_rx_sn + lost /\ HfnBefore(pdu) = rx_hfn
      BY <2>1, <2>2, <2>3, <1>5 DEF Agreed, InWindow, Ahead
    <3>2. /\ ~(next_pdcp_rx_sn - pdu.sn > Window) /\ ~(pdu.sn - next_pdcp_rx_sn >= Window)
          /\ pdu.sn >= next_pdcp_rx_sn
      BY <2>1, <2>3, <3>1, <1>5
    <3>3. r = Rx(Advanced(rx_hfn, pdu.sn), 0, TRUE)
      BY <2>3, <3>2, <1>6, Zenon DEF RxReordering
    <3> QED
      BY <2>1, <3>1, <3>3, <1>5 DEF Rx, Advanced, HfnBefore, SnAfter
  <2>4. CASE bearer # "am"
    <3>1. HfnBefore(pdu) = IF pdu.sn < next_pdcp_rx_sn THEN rx_hfn + 1 ELSE rx_hfn
      BY <2>1, <2>2, <1>5 DEF Ahead
    <3>2. r = Rx(Advanced(HfnBefore(pdu), pdu.sn), 0, TRUE)
      BY <2>4, <3>1 DEF RxInOrder
    <3> QED
      BY <3>2, <1>5 DEF Rx, Advanced, HfnBefore, SnAfter
  <2> QED
    BY <2>3, <2>4
<1> HIDE DEF r
<1>9. SnAfter(pdu) \in SN
  BY <1>5 DEF SnAfter, SN
<1>10. PdcpTypeOK'
  <2>1. lost' \in 0 .. MaxLost'
    BY <1>4 DEF MaxLost
  <2>2. crossed' \in BOOLEAN /\ (bearer' # "am" => ~crossed')
    BY <1>1, <1>4, Zenon DEF PdcpTypeOK
  <2> QED
    BY <2>1, <2>2, <1>1, <1>3, <1>4, <1>5 DEF PdcpTypeOK, SN
<1>11. Chain'
  BY <1>1, <1>2, <1>4, ChainTail
<1>12. /\ Tail(rlc) = <<>> => tx_hfn = pdu.hfn /\ next_pdcp_tx_sn = SnAfter(pdu)
       /\ Tail(rlc) # <<>> => /\ HfnBefore(Tail(rlc)[1]) = pdu.hfn
                              /\ Tail(rlc)[1].sn = SnAfter(pdu)
  BY <1>1, <1>2, Following
<1>13. LastKept'
  <2>1. \/ SnAfter(pdu) = pdu.sn + 1 + 0
        \/ SnAfter(pdu) + SnModulo = pdu.sn + 1 + 0
    BY <1>5 DEF SnAfter
  <2> QED
    BY <2>1, <1>4, <1>12 DEF LastKept
<1>14. NoneRefused'
  BY <1>4, <1>7 DEF NoneRefused
<1>15. ASSUME ~crossed PROVE Agreed'
  <2>1. SnAfter(pdu) = SnAfter(pdu) + 0 /\ SnAfter(pdu) \in 0 .. MaxSn
    BY <1>9 DEF SN
  <2>2. Expected'
    BY <2>1, <1>4, <1>8, <1>12, <1>15 DEF Expected, Ahead
  <2>3. InWindow'
    BY <2>1, <1>4, <1>8, <1>15 DEF InWindow
  <2>4. pdu = Count(pdu.hfn, pdu.sn)
    BY <1>3 DEF Counts, Count
  <2>5. CountsAgree'
    BY <2>4, <1>4, <1>5, <1>8, <1>15 DEF CountsAgree
  <2> QED
    BY <2>2, <2>3, <2>5, <1>4, <1>5, <1>8, <1>9, <1>15 DEF Agreed
<1> QED
  BY <1>4, <1>10, <1>11, <1>13, <1>14, <1>15 DEF CountInvariant

\* The invariant of both ends and of the PDUs between them, on every such bearer.
LEMMA CountAlways == PdcpSpec => [](Faithful => CountInvariant)
<1>1. PdcpInit => (Faithful => CountInvariant)
  BY CountInit
<1>2. (Faithful => CountInvariant) /\ [PdcpNext]_pdcp_vars => (Faithful => CountInvariant)'
  <2> SUFFICES ASSUME Faithful => CountInvariant, [PdcpNext]_pdcp_vars, Faithful'
               PROVE  CountInvariant'
    OBVIOUS
  <2>1. bearer' = bearer
    BY DEF PdcpNext, DataReq, Lose, DataInd, pdcp_vars
  <2>2. CountInvariant
    BY <2>1 DEF Faithful
  <2>3. CASE DataReq
    BY <2>2, <2>3, CountDataReq
  <2>4. CASE Lose
    BY <2>2, <2>4, CountLose
  <2>5. CASE DataInd
    BY <2>2, <2>5, CountDataInd
  <2>6. CASE UNCHANGED pdcp_vars
    BY <2>2, <2>6 DEF pdcp_vars, CountInvariant, PdcpTypeOK, MaxLost, IsAm, Chain, Expected,
                Ahead, LastKept, InWindow, Agreed, CountsAgree, NoneRefused
  <2> QED
    BY <2>3, <2>4, <2>5, <2>6 DEF PdcpNext
<1> QED
  BY <1>1, <1>2, PTL DEF PdcpSpec

\* A receiver that knows the sender's HFN expects what the sender will send.
LEMMA AgreedEnds ==
  ASSUME PdcpTypeOK, Agreed
  PROVE  CountsAgree /\ EndsAgree
BY DEF PdcpTypeOK, Agreed, Expected, Ahead, EndsAgree

\* On an SRB and on a UM bearer every PDU is deciphered with the COUNT it was
\* ciphered with (pdcp_apply_security, pdcp_validate_security), and when nothing is on
\* its way the receiver expects what the sender will send but for what was lost, for
\* every SN length and every loss of less than an SN space in a row.
THEOREM InStepSafe == PdcpSpec => []InStep
<1>1. (Faithful => CountInvariant) => InStep
  BY AgreedEnds DEF CountInvariant, PdcpTypeOK, Faithful, InStep
<1> QED
  BY <1>1, CountAlways, PTL

\* On an AM bearer both ends agree until the PDU with the last SN before a wrap is
\* lost: that loss is the only one that pdcp_is_rx_seq_number_valid cannot repair.
THEOREM AmAgrees == PdcpSpec => []AgreeUntilCrossed
<1>1. (Faithful => CountInvariant) => AgreeUntilCrossed
  BY AgreedEnds DEF CountInvariant, Faithful, AgreeUntilCrossed
<1> QED
  BY <1>1, CountAlways, PTL

\* pdcp_is_rx_seq_number_valid refuses no PDU that RLC AM delivers in order, whichever
\* PDUs are lost, those at the wrap of the SN included.
THEOREM WindowAdmits == PdcpSpec => []NoneRefused
<1>1. (Faithful => CountInvariant) => NoneRefused
  BY DEF CountInvariant, Faithful, NoneRefused
<1> QED
  BY <1>1, CountAlways, PTL
=============================================================================
