------------------------------ MODULE MCRlcAmTx ------------------------------
(* Instances of RlcAmTxLink for TLC.                                         *)
EXTENDS RlcAmTxLink

MCSizes == {2}
MCGrants == {2, 4}
=============================================================================
