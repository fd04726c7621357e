------------------------------ MODULE MCChannel ------------------------------
(* Small instances of Channel: queues of one or two places, so that they   *)
(* fill, a few calls, and one or two events of the environment.            *)
EXTENDS Channel
=============================================================================
