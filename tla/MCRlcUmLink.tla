----------------------------- MODULE MCRlcUmLink ----------------------------
(* Instances of RlcUmLink for TLC.                                           *)
EXTENDS RlcUmLink

\* Two SDUs that may be cut and one that may not; grants for one byte, for two,
\* and for several SDUs.
MCSduSizes == <<2, 1, 2>>

MCGrants == {2, 3, 6}
=============================================================================
