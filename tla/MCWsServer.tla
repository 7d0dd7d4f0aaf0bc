----------------------------- MODULE MCWsServer -----------------------------
(* Instances of WsServer for TLC. *)
EXTENDS WsServer, TLC

CONSTANTS h1, h2

MCOne == {h1}
MCTwo == {h1, h2}

MCPlain == {"command"}
MCAny   == {"command", "not_an_object"}
=============================================================================
