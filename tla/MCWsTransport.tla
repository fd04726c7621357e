--------------------------- MODULE MCWsTransport ---------------------------
(* Three connects, three frames of the peer on each and two rounds of the  *)
(* wait in a close.                                                        *)
EXTENDS WsTransport
=============================================================================
