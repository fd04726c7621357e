---------------------------- MODULE MCConnection ----------------------------
(* A small instance of Connection: a primary and a fallback host, one      *)
(* round of hosts before SUSPENDED, two service threads.                   *)
EXTENDS Connection

In(pcs) == \E t \in ServiceThreads : threadPc[t] \in pcs

(* The state without what neither an action nor a property reads before it *)
(* is written again: the connection state before the next dial sets it,    *)
(* the flags of the transport outside of the receive loop, the handle of a *)
(* thread that was joined, and most of a client that was freed.            *)
LiveState ==
  IF app = "destroyed"
  THEN <<closeReq, threadPc, overwritten>>
  ELSE <<closeReq, threadPc, writing, retryVars, needRefresh, app, running, overwritten, fatal,
         IF In({"dial", "loop", "recv", "closing", "stopTest"}) THEN state ELSE "",
         In({"loop", "recv", "closing"}) /\ ws, In({"loop", "recv"}) /\ alive,
         IF running THEN service_thread ELSE NoThread>>
=============================================================================
