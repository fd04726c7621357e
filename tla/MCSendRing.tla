----------------------------- MODULE MCSendRing -----------------------------
(* Small instances of SendRing: an application thread and the service      *)
(* thread both produce; the ring is small, so that it fills and wraps.     *)
EXTENDS SendRing

\* Two states with the same view have the same future, and the same properties
\* hold in them: a consumed slot is overwritten before it is read again, so only
\* the slots between tail and head matter; and no action reads the answer given
\* to a caller, it only sets it.
OrderState == <<Contents, head, tail, msgSerial, pc, frame, svcVars>>
=============================================================================
