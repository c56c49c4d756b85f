--------------------------- MODULE MCLiveStreams ----------------------------
(* Two audit events over channels with room for one; two organisations, one    *)
(* switch, one failure, and as many attempts as these can lead to.             *)
EXTENDS LiveStreams
=============================================================================
