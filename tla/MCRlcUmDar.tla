----------------------------- MODULE MCRlcUmDar -----------------------------
(* Instances of RlcUmDar for TLC.                                            *)
EXTENDS RlcUmDar

\* One content is enough for the window: which PDU it is, is its SN.
MCPdus == {[first |-> TRUE, last |-> TRUE, data |-> << <<1>> >>]}
=============================================================================
