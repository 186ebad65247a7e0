------------------------------ MODULE MCRlcUmTx ------------------------------
(* Instances of RlcUmTx for TLC.                                             *)
EXTENDS RlcUmTx

MCSizes  == 1 .. 4
MCGrants == 0 .. 16
=============================================================================
