-------------------------- MODULE MCHttpTransport ---------------------------
(* HttpTransport for TLC: the configurations give the constants.           *)
EXTENDS HttpTransport
=============================================================================
