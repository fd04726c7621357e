------------------------------ MODULE Channel ------------------------------
(***************************************************************************)
(* One channel of the real-time client (channel.c) between three threads   *)
(* of control: an application thread that attaches and detaches it, an     *)
(* application thread that publishes, and the service thread, which sends  *)
(* queued frames, handles the server's answers and, when the connection is *)
(* lost and found again, reattaches the channel                            *)
(* (rt_reattach_pending_channels).  The channel state is under sub_mutex,  *)
(* the connection state under state_mutex, the outbound queue under        *)
(* send_mutex; attach(), detach() and publish() take them one after the    *)
(* other, and one action here is one critical section.                     *)
(*                                                                         *)
(* The outbound ring is the bounded FIFO queue that SendRingProofs shows   *)
(* it to be.  The server answers ATTACH and DETACH in order; it may refuse *)
(* an ATTACH, with DETACHED or with an ERROR that names the channel, and   *)
(* may send either by itself.  Of an ERROR, rt_dispatch_frame looks at the *)
(* code only: a fatal one fails the client, any other is not handed on.    *)
(***************************************************************************)
EXTENDS Naturals, Sequences, SequencesExt

CONSTANTS
  RingRoom,   \* frames the outbound ring holds: ABLY_SEND_RING_CAPACITY - 1
  PendRoom,   \* messages the pending queue holds:
              \* ABLY_CHANNEL_PENDING_CAPACITY - 1
  MaxMsg,     \* bound: calls of publish()
  MaxCalls,   \* bound: calls of attach() and detach()
  MaxEvents   \* bound: lost connections and spontaneous server frames

ASSUME RoomAssumption  == RingRoom \in Nat \ {0} /\ PendRoom \in Nat \ {0}
ASSUME LimitAssumption == MaxMsg \in Nat /\ MaxCalls \in Nat /\ MaxEvents \in Nat

Msg == 1 .. MaxMsg    \* messages, in the order in which they are published

ChanState == {"INITIALIZED", "ATTACHING", "ATTACHED", "DETACHING", "DETACHED",
              "FAILED"}

\* ERROR is one with a fatal code, MILD one with a token error that auth_cb renews,
\* or with a code outside of 4xxxx; REFUSED is DETACHED with a code.
Errors  == {"ERROR", "MILD"}
Refusal == {"REFUSED"} \cup Errors
News    == {"DETACHED"} \cup Refusal
Answer  == {"CONNECTED", "ATTACHED"} \cup News

\* Outbound frames.
Request(kind) == [kind |-> kind, msg |-> 0]
Message(m)    == [kind |-> "MESSAGE", msg |-> m]
Frame == [kind : {"ATTACH", "DETACH", "MESSAGE"}, msg : 0 .. MaxMsg]

VARIABLES
  cst,        \* channel->state
  reattach,   \* channel->reattach_pending
  lastError,  \* channel->last_error is set
  pend,       \* channel->pending_queue
  ring,       \* the outbound queue: requests and messages
  link,       \* the connection state: "up" is CONNECTED
  svc,        \* program counter of the service thread
  ctl,        \* program counter of the thread that attaches and detaches
  pub,        \* program counter of the thread that publishes
  verdict,    \* what publish() returned, per message
  srvAtt,     \* the server has this connection attached to the channel
  inbox,      \* frames of the server not yet handled, oldest first
  srvLog,     \* messages the server has received, in order
  calls, events, \* counters for the bounds
  lost,       \* history: messages lost with a connection
  queued,     \* history: messages that went through the pending queue
  unasked,    \* history: ATTACHING was set with no ATTACH, or answer, to come
  swallowed   \* history: the latest frame about the channel that was handled on
              \* this connection was a MILD error

chanVars == <<cst, reattach, lastError, unasked, swallowed>>
appVars  == <<ctl, pub, verdict, calls, queued>>
srvVars  == <<srvAtt, inbox, srvLog>>
vars == <<cst, reattach, lastError, pend, ring, link, svc, ctl, pub, verdict,
          srvAtt, inbox, srvLog, calls, events, lost, queued, unasked, swallowed>>

Init ==
  /\ cst = "INITIALIZED" /\ reattach = FALSE /\ lastError = FALSE
  /\ pend = << >> /\ ring = << >>
  /\ link = "down" /\ svc = "dial"
  /\ ctl = "idle" /\ pub = "idle"
  /\ verdict = [m \in Msg |-> "none"]
  /\ srvAtt = FALSE /\ inbox = << >> /\ srvLog = << >>
  /\ calls = 0 /\ events = 0
  /\ lost = {} /\ queued = {} /\ unasked = FALSE /\ swallowed = FALSE

RingFull == Len(ring) = RingRoom

-----------------------------------------------------------------------------
(* attach() and detach().  A call that returns early changes nothing.      *)

\* The channel state is read under sub_mutex and the mutex released.
AttachBegin ==
  /\ ctl = "idle" /\ calls < MaxCalls
  /\ cst \notin {"ATTACHED", "ATTACHING"}
  /\ ctl' = "attachConn" /\ calls' = calls + 1
  /\ UNCHANGED <<chanVars, pend, ring, link, svc, pub, verdict, srvVars, events,
                 lost, queued>>

\* The connection state is read under state_mutex.
AttachConn ==
  /\ ctl = "attachConn"
  /\ ctl' = IF link = "up" THEN "attachSend" ELSE "idle"
  /\ UNCHANGED <<chanVars, pend, ring, link, svc, pub, verdict, calls, srvVars,
                 events, lost, queued>>

DetachBegin ==
  /\ ctl = "idle" /\ calls < MaxCalls
  /\ cst \in {"ATTACHED", "ATTACHING"}
  /\ ctl' = "detachSend" /\ calls' = calls + 1
  /\ UNCHANGED <<chanVars, pend, ring, link, svc, pub, verdict, srvVars, events,
                 lost, queued>>

\* rt_enqueue_frame of either call.
CtlSend(pc, request, next) ==
  /\ ctl = pc
  /\ \/ RingFull /\ ctl' = "idle" /\ UNCHANGED ring
     \/ ~RingFull /\ ctl' = next /\ ring' = Append(ring, Request(request))
  /\ UNCHANGED <<chanVars, pend, link, svc, pub, verdict, calls, srvVars,
                 events, lost, queued>>

AttachSend == CtlSend("attachSend", "ATTACH", "attachSet")
DetachSend == CtlSend("detachSend", "DETACH", "detachSet")

\* History: the server has, or will get, an attach request to answer.
Asked == \/ \E i \in DOMAIN ring : ring[i].kind = "ATTACH"
         \/ \E i \in DOMAIN inbox : inbox[i] \in {"ATTACHED"} \cup Refusal

\* The new state is set under sub_mutex, whatever it has become meanwhile.
CtlSet(pc, new) ==
  /\ ctl = pc
  /\ ctl' = "idle"
  /\ cst' = new
  /\ unasked' = (unasked \/ (new = "ATTACHING" /\ ~Asked))
  /\ UNCHANGED <<reattach, lastError, swallowed, pend, ring, link, svc, pub, verdict,
                 calls, srvVars, events, lost, queued>>

AttachSet == CtlSet("attachSet", "ATTACHING")
DetachSet == CtlSet("detachSet", "DETACHING")

-----------------------------------------------------------------------------
(* publish().                                                              *)

NextMsg == CHOOSE m \in Msg : /\ verdict[m] = "none"
                              /\ \A k \in 1 .. m - 1 : verdict[k] # "none"

Return(m, code) == verdict' = [verdict EXCEPT ![m] = code]

\* The state is read, and while ATTACHING the message queued, under sub_mutex.
PublishInto(room) ==
  /\ pub = "idle" /\ \E m \in Msg : verdict[m] = "none"
  /\ \/ /\ cst = "ATTACHING" /\ Len(pend) < room
        /\ pend' = Append(pend, NextMsg) /\ queued' = queued \cup {NextMsg}
        /\ Return(NextMsg, "ok") /\ UNCHANGED pub
     \/ /\ cst = "ATTACHING" /\ Len(pend) >= room
        /\ Return(NextMsg, "capacity") /\ UNCHANGED <<pend, queued, pub>>
     \/ /\ cst = "ATTACHED" /\ pub' = "send" /\ UNCHANGED <<pend, queued, verdict>>
     \/ /\ cst \notin {"ATTACHING", "ATTACHED"}
        /\ Return(NextMsg, "state") /\ UNCHANGED <<pend, queued, pub>>
  /\ UNCHANGED <<chanVars, ring, link, svc, ctl, calls, srvVars, events, lost>>

PublishBegin == PublishInto(PendRoom)

\* Mutant of PublishSend: the test for a full ring comes after the append.
PublishSend_LateTest ==
  /\ pub = "send"
  /\ \/ RingFull /\ Return(NextMsg, "capacity") /\ UNCHANGED ring
     \/ /\ ~RingFull /\ ring' = Append(ring, Message(NextMsg))
        /\ Return(NextMsg, IF Len(ring') = RingRoom THEN "capacity" ELSE "ok")
  /\ pub' = "idle"
  /\ UNCHANGED <<chanVars, pend, link, svc, ctl, calls, srvVars, events, lost,
                 queued>>

\* A message published while ATTACHED goes straight to the ring.
PublishSend ==
  /\ pub = "send"
  /\ \/ RingFull /\ Return(NextMsg, "capacity") /\ UNCHANGED ring
     \/ ~RingFull /\ Return(NextMsg, "ok") /\ ring' = Append(ring, Message(NextMsg))
  /\ pub' = "idle"
  /\ UNCHANGED <<chanVars, pend, link, svc, ctl, calls, srvVars, events, lost,
                 queued>>

-----------------------------------------------------------------------------
(* Service thread: the connection.                                         *)

\* A new connection.  The server greets it; it is attached to nothing.  The
\* outbound ring still holds what the previous connection did not send.
Dial ==
  /\ svc = "dial"
  /\ svc' = "loop"
  /\ srvAtt' = FALSE /\ inbox' = <<"CONNECTED">>
  /\ UNCHANGED <<chanVars, pend, ring, link, appVars, srvLog, events, lost>>

\* The connection is lost: what the server had sent is lost with it.
Drop ==
  /\ svc = "loop" /\ link # "failed" /\ events < MaxEvents
  /\ events' = events + 1
  /\ svc' = "lost"
  /\ srvAtt' = FALSE /\ inbox' = << >>
  /\ UNCHANGED <<chanVars, pend, ring, link, appVars, srvLog, lost>>

SetDisconnected ==
  /\ svc = "lost"
  /\ link' = "down" /\ svc' = "onDisconnect"
  /\ UNCHANGED <<chanVars, pend, ring, appVars, srvVars, events, lost>>

\* Mutant of OnDisconnect: the channel state is left alone.
OnDisconnect_KeepState ==
  /\ svc = "onDisconnect"
  /\ reattach' = (reattach \/ cst \in {"ATTACHED", "ATTACHING"})
  /\ svc' = "dial"
  /\ swallowed' = FALSE
  /\ UNCHANGED <<cst, lastError, unasked, pend, ring, link, appVars, srvVars, events,
                 lost>>

\* Mutant of OnDisconnect: a channel whose attach is not confirmed yet is left
\* alone.
OnDisconnect_AttachedOnly ==
  /\ svc = "onDisconnect"
  /\ reattach' = (reattach \/ cst = "ATTACHED")
  /\ cst' = IF cst = "ATTACHING" THEN cst ELSE "DETACHED"
  /\ svc' = "dial" /\ swallowed' = FALSE
  /\ UNCHANGED <<lastError, unasked, pend, ring, link, appVars, srvVars, events, lost>>

OnDisconnect ==
  /\ svc = "onDisconnect"
  /\ reattach' = (reattach \/ cst \in {"ATTACHED", "ATTACHING"})
  /\ cst' = "DETACHED" /\ unasked' = FALSE /\ swallowed' = FALSE
  /\ svc' = "dial"
  /\ UNCHANGED <<lastError, pend, ring, link, appVars, srvVars, events, lost>>

\* One turn of the drain: the frame is taken off the ring and sent.  The
\* server handles it; an ATTACH is confirmed or refused.
DrainSend ==
  /\ svc = "loop" /\ link # "failed" /\ ring # << >>
  /\ ring' = Tail(ring)
  /\ LET f == Head(ring) IN
     \/ /\ f.kind = "ATTACH" /\ UNCHANGED srvLog
        /\ \/ srvAtt' = TRUE /\ inbox' = Append(inbox, "ATTACHED")
           \/ srvAtt' = FALSE /\ \E a \in Refusal : inbox' = Append(inbox, a)
     \/ /\ f.kind = "DETACH" /\ UNCHANGED srvLog
        /\ srvAtt' = FALSE /\ inbox' = Append(inbox, "DETACHED")
     \/ /\ f.kind = "MESSAGE"
        /\ srvLog' = Append(srvLog, f.msg) /\ UNCHANGED <<srvAtt, inbox>>
  /\ UNCHANGED <<chanVars, pend, link, svc, appVars, events, lost>>

\* The write fails: the frame taken off the ring is gone with the connection.
DrainFail ==
  /\ svc = "loop" /\ link # "failed" /\ ring # << >> /\ events < MaxEvents
  /\ events' = events + 1
  /\ ring' = Tail(ring)
  /\ lost' = lost \cup ({Head(ring).msg} \cap Msg)
  /\ svc' = "lost"
  /\ srvAtt' = FALSE /\ inbox' = << >>
  /\ UNCHANGED <<chanVars, pend, link, appVars, srvLog>>

\* The server detaches the channel, or reports an error on it, by itself.
ServerEvent ==
  /\ svc \notin {"dial", "lost", "onDisconnect", "exited"}
  /\ srvAtt /\ events < MaxEvents
  /\ events' = events + 1
  /\ srvAtt' = FALSE
  /\ \E a \in News : inbox' = Append(inbox, a)
  /\ UNCHANGED <<chanVars, pend, ring, link, svc, appVars, srvLog, lost>>

-----------------------------------------------------------------------------
(* Service thread: the handlers of rt_dispatch_frame and                   *)
(* ably_channel_on_frame.                                                  *)

Handle(a) == svc = "loop" /\ inbox # << >> /\ Head(inbox) = a /\ inbox' = Tail(inbox)

\* Mutant of RecvConnected: the channels are not looked through.
RecvConnected_NoReattach ==
  /\ Handle("CONNECTED")
  /\ link' = "up"
  /\ UNCHANGED <<chanVars, pend, ring, svc, appVars, srvAtt, srvLog, events,
                 lost>>

RecvConnected ==
  /\ Handle("CONNECTED")
  /\ link' = "up"
  /\ svc' = IF reattach THEN "reattach" ELSE "loop"
  /\ UNCHANGED <<chanVars, pend, ring, appVars, srvAtt, srvLog, events, lost>>

\* rt_reattach_pending_channels: the result of rt_enqueue_frame is ignored ...
ReattachSend ==
  /\ svc = "reattach"
  /\ ring' = IF RingFull THEN ring ELSE Append(ring, Request("ATTACH"))
  /\ svc' = "setAttaching"
  /\ unasked' = (unasked \/ RingFull)
  /\ UNCHANGED <<cst, reattach, lastError, swallowed, pend, link, appVars, srvVars, events,
                 lost>>

\* ... and ably_channel_set_attaching follows in any case.
SetAttaching ==
  /\ svc = "setAttaching"
  /\ cst' = "ATTACHING" /\ reattach' = FALSE
  /\ svc' = "loop"
  /\ UNCHANGED <<lastError, unasked, swallowed, pend, ring, link, appVars, srvVars,
                 events, lost>>

RecvAttached ==
  /\ Handle("ATTACHED")
  /\ cst' = "ATTACHED" /\ reattach' = FALSE /\ lastError' = FALSE
  /\ unasked' = FALSE /\ swallowed' = FALSE
  /\ svc' = "flush"
  /\ UNCHANGED <<pend, ring, link, appVars, srvAtt, srvLog, events, lost>>

\* Mutant of FlushPending: the newest message is sent first.
FlushPending_Lifo ==
  /\ svc = "flush"
  /\ \/ /\ pend = << >> /\ svc' = "loop" /\ UNCHANGED <<pend, ring>>
     \/ /\ pend # << >>
        /\ ring' = IF RingFull THEN ring ELSE Append(ring, Message(Last(pend)))
        /\ pend' = Front(pend)
        /\ UNCHANGED svc
  /\ UNCHANGED <<chanVars, link, appVars, srvVars, events, lost>>

\* flush_pending_queue, one message: the result of the enqueue is ignored.
FlushPending ==
  /\ svc = "flush"
  /\ \/ /\ pend = << >> /\ svc' = "loop" /\ UNCHANGED <<pend, ring>>
     \/ /\ pend # << >>
        /\ ring' = IF RingFull THEN ring ELSE Append(ring, Message(Head(pend)))
        /\ pend' = Tail(pend)
        /\ UNCHANGED svc
  /\ UNCHANGED <<chanVars, link, appVars, srvVars, events, lost>>

RecvDetached ==
  /\ Handle("DETACHED")
  /\ cst' = "DETACHED" /\ lastError' = FALSE /\ swallowed' = FALSE
  /\ UNCHANGED <<reattach, unasked, pend, ring, link, svc, appVars, srvAtt, srvLog,
                 events, lost>>

\* DETACHED with an error code.
RecvRefused ==
  /\ Handle("REFUSED")
  /\ cst' = "FAILED" /\ lastError' = TRUE /\ swallowed' = FALSE
  /\ UNCHANGED <<reattach, unasked, pend, ring, link, svc, appVars, srvAtt, srvLog,
                 events, lost>>

\* ERROR with a channel and a fatal code: rt_dispatch_frame handles it as an
\* error of the connection, which fails, and never hands it to the channel.
RecvError ==
  /\ Handle("ERROR")
  /\ link' = "failed"
  /\ UNCHANGED <<chanVars, pend, ring, svc, appVars, srvAtt, srvLog, events,
                 lost>>

\* ERROR with a channel and any other code: at most a new token is asked for, for
\* the next connection.  The channel does not hear of it.
RecvMild ==
  /\ Handle("MILD")
  /\ swallowed' = TRUE
  /\ UNCHANGED <<cst, reattach, lastError, unasked, pend, ring, link, svc, appVars, srvAtt,
                 srvLog, events, lost>>

\* The thread of a failed client does the closing handshake, during which it
\* still handles frames but sends none, and ends.
Exit ==
  /\ svc = "loop" /\ link = "failed"
  /\ svc' = "exited"
  /\ srvAtt' = FALSE /\ inbox' = << >>
  /\ UNCHANGED <<chanVars, pend, ring, link, appVars, srvLog, events, lost>>

-----------------------------------------------------------------------------
Control == AttachBegin \/ AttachConn \/ AttachSend \/ AttachSet
             \/ DetachBegin \/ DetachSend \/ DetachSet
Publish == PublishBegin \/ PublishSend
Service == Dial \/ SetDisconnected \/ OnDisconnect \/ DrainSend \/ RecvConnected
             \/ ReattachSend \/ SetAttaching \/ RecvAttached \/ FlushPending
             \/ RecvDetached \/ RecvRefused \/ RecvError \/ RecvMild \/ Exit
Environment == Drop \/ DrainFail \/ ServerEvent

Next == Control \/ Publish \/ Service \/ Environment

Spec == Init /\ [][Next]_vars

\* The service thread is scheduled; nothing is assumed of the callers.
FairSpec == Spec /\ WF_vars(Service)

-----------------------------------------------------------------------------
\* What each variable holds.
TypeOK ==
  /\ cst \in ChanState
  /\ reattach \in BOOLEAN /\ lastError \in BOOLEAN
  /\ pend \in Seq(Msg) /\ Len(pend) <= PendRoom
  /\ ring \in Seq(Frame) /\ Len(ring) <= RingRoom
  /\ link \in {"down", "up", "failed"}
  /\ svc \in {"dial", "loop", "lost", "onDisconnect", "reattach",
              "setAttaching", "flush", "exited"}
  /\ ctl \in {"idle", "attachConn", "attachSend", "attachSet", "detachSend",
              "detachSet"}
  /\ pub \in {"idle", "send"}
  /\ verdict \in [Msg -> {"none", "ok", "capacity", "state"}]
  /\ srvAtt \in BOOLEAN /\ inbox \in Seq(Answer) /\ srvLog \in Seq(Msg)
  /\ calls \in 0 .. MaxCalls /\ events \in 0 .. MaxEvents
  /\ lost \in SUBSET Msg /\ queued \in SUBSET Msg
  /\ unasked \in BOOLEAN /\ swallowed \in BOOLEAN

\* What is on its way, from the first the server got to the last queued, by the
\* number of the message; a request has the number 0.
Outbound == srvLog \o [i \in DOMAIN ring |-> ring[i].msg] \o pend

\* publish() tells the truth when it refuses: a message for which it returned
\* an error is neither queued nor sent, then or later.
RefusedNeverSent ==
  \A m \in Msg : verdict[m] \in {"capacity", "state"} => m \notin Range(Outbound)

\* a may leave before b: one of them is a request, they took different paths (the
\* pending queue, or directly to the ring), or a was published first.
InOrder(a, b) == a # 0 /\ b # 0 /\ (a \in queued <=> b \in queued) => a < b

\* Messages queued while ATTACHING leave in the order of their publish() calls,
\* and so do the messages published directly; hence none leaves twice, whatever
\* mixture of flushes, publishes and lost connections it went through.
OrderOnEachPath ==
  \A i, j \in DOMAIN Outbound : i < j => InOrder(Outbound[i], Outbound[j])

\* The client does not believe a channel attached that the server has detached
\* or never attached, except while the news is on its way, or the loss of the
\* connection, or of the client, is being handled, or when the server's last word
\* was an ERROR that is not fatal, which the channel is not told of.
AttachedIsConfirmed ==
  cst = "ATTACHED" /\ ~srvAtt =>
    \/ \E i \in DOMAIN inbox : inbox[i] \in News
    \/ svc \in {"lost", "onDisconnect"}
    \/ link = "failed"
    \/ swallowed

Quiet == /\ svc = "loop" /\ ctl = "idle" /\ link = "up"
         /\ ring = << >> /\ inbox = << >>

\* A channel is not left ATTACHING with nothing on its way that would change it:
\* attach(), reattachment, refusals and lost connections in any order leave it so
\* only where the code sets ATTACHING behind the answer, or with no room in the
\* ring for the ATTACH, or where the answer is an ERROR that is not fatal.
AttachingIsAnswered == Quiet /\ cst = "ATTACHING" => unasked \/ swallowed

\* A channel that was attached, or being attached, when the connection was lost
\* does not stay marked: once the connection is back it is taken up again.
ReattachTaken == reattach ~> ~reattach \/ svc = "exited"

-----------------------------------------------------------------------------
(* What the repository says and the code does not do.                      *)

\* ably_realtime.h:178, "The channel moves to ATTACHED when the server confirms
\* with ATTACHED": with nothing in flight, what the server has attached is
\* attached.
ConfirmedIsAttached == Quiet /\ srvAtt => cst = "ATTACHED"

\* ably_realtime.h:234, on the error of a channel, "Updated on DETACHED (with error)
\* and channel ERROR frames": after an ERROR that names the channel it is set.
ErrorIsRecorded == [][\A a \in Errors : Handle(a) => lastError']_vars

\* channel.c:614, "While ATTACHING, queue the message for delivery after
\* ATTACHED": a message accepted into the pending queue is there, on its way,
\* delivered, or lost with a connection.
QueuedNotLost ==
  \A m \in queued : m \in Range(Outbound) \cup lost
=============================================================================
