----------------------------- MODULE MCPdcpCount -----------------------------
(* Instances of PdcpCount for TLC.                                           *)
EXTENDS PdcpCount
=============================================================================
