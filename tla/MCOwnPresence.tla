--------------------------- MODULE MCOwnPresence ---------------------------
(* Small instances of OwnPresence: two payloads, a ring of two frames.     *)
EXTENDS OwnPresence
=============================================================================
