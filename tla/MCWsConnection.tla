--------------------------- MODULE MCWsConnection ---------------------------
(* WsConnection for TLC: the configurations give the constants.            *)
EXTENDS WsConnection
=============================================================================
