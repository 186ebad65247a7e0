------------------------------ MODULE MCRlcAmRx ------------------------------
(* Instances of RlcAmRx for TLC.                                             *)
EXTENDS RlcAmRx

MCGrants == {3, 4, 8, 20}
=============================================================================
