---------------------------- MODULE RlcUmService ----------------------------
(***************************************************************************)
(* What an RLC UM bearer promises to PDCP: SDUs may be lost, but the ones   *)
(* that are delivered are whole, in the order they were submitted, and no   *)
(* SDU is delivered twice.                                                  *)
(***************************************************************************)
EXTENDS Naturals, Sequences, SequencesExt

CONSTANT NumSdus   \* how many SDUs PDCP submits

VARIABLES
  submitted,   \* how many SDUs PDCP has handed to the sending entity
  delivered    \* the SDUs handed to the peer PDCP, by their number

Init == submitted = 0 /\ delivered = <<>>

Submit == /\ submitted < NumSdus
          /\ submitted' = submitted + 1
          /\ UNCHANGED delivered

LastDelivered == IF delivered = <<>> THEN 0 ELSE Last(delivered)

\* One PDU may complete several SDUs: they are delivered in one step.
Deliver == \E S \in SUBSET (LastDelivered + 1 .. submitted) :
              /\ S # {}
              /\ delivered' = delivered \o SetToSortSeq(S, <)
              /\ UNCHANGED submitted

Next == Submit \/ Deliver

Spec == Init /\ [][Next]_<<submitted, delivered>>
=============================================================================
