--------------------------- MODULE MCMjpegServer ---------------------------
(* Instances of MjpegServer for TLC. *)
EXTENDS MjpegServer

CONSTANTS v1, v2

MCViewers == {v1, v2}
MCPools   == {1, 2}
=============================================================================
