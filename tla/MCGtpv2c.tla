------------------------------- MODULE MCGtpv2c -------------------------------
(* Instances of Gtpv2c for TLC.                                              *)
EXTENDS Gtpv2c
=============================================================================
