----------------------------- MODULE MCRlcTimer -----------------------------
(* Instances of RlcTimer for TLC.                                            *)
EXTENDS RlcTimer
=============================================================================
