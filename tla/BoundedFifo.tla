---------------------------- MODULE BoundedFifo ----------------------------
(***************************************************************************)
(* What the client promises about its outbound queue: a first-in-first-out *)
(* queue that holds at most Capacity frames.  A caller that offers a frame *)
(* is told at once whether the queue took it ("ok") or was full            *)
(* ("capacity"); a frame that was taken leaves the queue once, in its      *)
(* turn.  SendRing implements this with two indices into an array.         *)
(***************************************************************************)
EXTENDS Naturals, Sequences

CONSTANTS Threads,   \* callers of the enqueue operation
          Frame,     \* the frames they may offer
          Capacity   \* the number of frames the queue can hold

VARIABLES offer,     \* per thread, the frame it has in hand
          queue,     \* the frames taken and not yet removed, oldest first
          answer     \* the latest answer: to whom, and "ok" or "capacity"

vars == <<offer, queue, answer>>

Init ==
  /\ offer \in [Threads -> Frame]
  /\ queue = << >>
  /\ answer = << >>

\* Thread t discards the frame it has in hand or gets another one.
Prepare(t) ==
  /\ offer' \in [Threads -> Frame]
  /\ \A u \in Threads \ {t} : offer'[u] = offer[u]

Accept(t) ==
  /\ Len(queue) < Capacity
  /\ queue' = Append(queue, offer[t])
  /\ answer' = <<t, "ok">>
  /\ Prepare(t)

Refuse(t) ==
  /\ Len(queue) = Capacity
  /\ answer' = <<t, "capacity">>
  /\ Prepare(t)
  /\ UNCHANGED queue

Remove ==
  /\ queue # << >>
  /\ queue' = Tail(queue)
  /\ UNCHANGED <<offer, answer>>

Rework(t) == Prepare(t) /\ UNCHANGED <<queue, answer>>

Next ==
  \/ \E t \in Threads : Rework(t) \/ Accept(t) \/ Refuse(t)
  \/ Remove

Spec == Init /\ [][Next]_vars
=============================================================================
