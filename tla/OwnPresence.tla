---------------------------- MODULE OwnPresence ----------------------------
(***************************************************************************)
(* The client's own entry in the presence set of a channel (channel.c,     *)
(* presence.c): enter, update and leave of the application, and the        *)
(* re-entry by the service thread when an ATTACHED frame says that the     *)
(* server did not resume the channel.                                      *)
(*                                                                         *)
(* The fields own_entered and own_data are written by the application and  *)
(* read by the service thread with no lock, and the frames of both go      *)
(* through the outbound ring, so that the order in which the fields were   *)
(* read need not be the order of the frames.  One application thread uses  *)
(* presence.  Every call names the same client id.                         *)
(*                                                                         *)
(* The server is external: it keeps the member of an attached channel, and *)
(* forgets it when it detaches the channel or does not resume a connection *)
(* that was lost.  Frames in the ring outlive the connection.              *)
(*                                                                         *)
(* Names that Presence has too are prefixed here: the two are halves of    *)
(* presence.c, and the module of their proofs extends both.                *)
(***************************************************************************)
EXTENDS Naturals, Sequences

CONSTANTS
  Data,         \* payloads of enter and update
  RingSize,     \* frames the outbound ring takes, 1 or more
  MaxCalls,     \* bound: calls of the application
  MaxEvents     \* bound: lost connections and detaches

ASSUME OwnPresenceAssumption == RingSize \in Nat \ {0}
ASSUME LimitAssumption == MaxCalls \in Nat /\ MaxEvents \in Nat

None == [in |-> FALSE]
In(d) == [in |-> TRUE, data |-> d]
Values == {None} \cup {In(d) : d \in Data}

\* A frame in the ring: ATTACH, or PRESENCE by what it makes of the member.
\* Junk carries a client id read from memory that nobody has set yet.
Presence(v) == [kind |-> "PRESENCE", member |-> v]
Attach == [kind |-> "ATTACH"]
Junk == [kind |-> "JUNK"]
Frame == {Attach, Junk} \cup {Presence(v) : v \in Values}

VARIABLES
  attached,    \* channel->state is ATTACHED
  own_pres,    \* channel->pres: "none", "raw" (published, not set up), "ready"
  entered,     \* pres->own_entered
  data,        \* pres->own_data
  ring,        \* presence frames in the outbound ring
  app,         \* application thread: what it does next, and with what
  calls,       \* calls made so far
  svc,         \* service thread: likewise
  inbox,       \* frames of the server on their way
  srvAtt,      \* the server has the channel attached on this connection
  srvOwn,      \* the member the server has
  events,      \* events so far
  causes       \* history: why srvOwn may differ from the entry of the client

own        == <<entered, data>>
ownSrvVars == <<srvAtt, srvOwn, inbox>>
ownVars    == <<attached, own_pres, own, ring, app, calls, svc, ownSrvVars, events, causes>>

Own == IF entered THEN In(data) ELSE None

Idle == [pc |-> "idle"]

OwnInit ==
  /\ attached = FALSE /\ own_pres = "none"
  /\ entered = FALSE /\ data \in Data
  /\ ring = << >> /\ app = Idle /\ calls = 0 /\ svc = [pc |-> "dial"]
  /\ srvAtt = FALSE /\ srvOwn = None /\ inbox = << >> /\ events = 0 /\ causes = {}

RingFull == Len(ring) = RingSize

\* rt_enqueue_frame, the result of which nobody acts upon: a frame refused leaves
\* the server as it is.
Enqueue(f) == ring' = IF RingFull THEN ring ELSE Append(ring, f)

-----------------------------------------------------------------------------
(* Application.  Each call tests the channel state under sub_mutex and then *)
(* works without a lock.                                                    *)

CallBegin(next) ==
  /\ app.pc = "idle" /\ calls < MaxCalls
  /\ attached
  /\ calls' = calls + 1
  /\ app' = next
  /\ UNCHANGED <<attached, own_pres, own, ring, svc, ownSrvVars, events, causes>>

EnterBegin == \E d \in Data : CallBegin([pc |-> "ensure", data |-> d])

\* ensure_pres: the pointer is set before the state is.
EnsureAlloc ==
  /\ app.pc = "ensure" /\ own_pres = "none"
  /\ own_pres' = "raw"
  /\ UNCHANGED <<attached, own, ring, app, calls, svc, ownSrvVars, events, causes>>

EnsureInit ==
  /\ app.pc = "ensure" /\ own_pres = "raw"
  /\ own_pres' = "ready" /\ entered' = FALSE
  /\ UNCHANGED <<attached, data, ring, app, calls, svc, ownSrvVars, events, causes>>

\* own_client_id, own_data, then own_entered.
SetData ==
  /\ \/ app.pc = "ensure" /\ own_pres = "ready" /\ app' = [app EXCEPT !.pc = "setEntered"]
     \/ app.pc = "setData" /\ app' = [app EXCEPT !.pc = "send"]
  /\ data' = app.data
  /\ UNCHANGED <<attached, own_pres, entered, ring, calls, svc, ownSrvVars, events, causes>>

SetEntered ==
  /\ app.pc = "setEntered"
  /\ entered' = TRUE
  /\ app' = [app EXCEPT !.pc = "send"]
  /\ UNCHANGED <<attached, own_pres, data, ring, calls, svc, ownSrvVars, events, causes>>

UpdateBegin ==
  /\ own_pres = "ready" /\ entered
  /\ \E d \in Data : CallBegin([pc |-> "setData", data |-> d])

LeaveBegin ==
  /\ own_pres = "ready" /\ entered
  /\ CallBegin([pc |-> "clear"])

\* Mutant of LeaveClear: the flag is cleared after the frame was enqueued.
LeaveClear_Late ==
  \/ /\ app.pc = "clear"
     /\ Enqueue(Presence(None))
     /\ causes' = IF RingFull THEN causes \cup {"full"} ELSE {}
     /\ app' = [pc |-> "clearLate"]
     /\ UNCHANGED <<attached, own_pres, own, calls, svc, ownSrvVars, events>>
  \/ /\ app.pc = "clearLate"
     /\ entered' = FALSE
     /\ app' = Idle
     /\ UNCHANGED <<attached, own_pres, data, ring, calls, svc, ownSrvVars, events, causes>>

LeaveClear ==
  /\ app.pc = "clear"
  /\ entered' = FALSE
  /\ app' = [pc |-> "sendLeave"]
  /\ UNCHANGED <<attached, own_pres, data, ring, calls, svc, ownSrvVars, events, causes>>

\* ENTER, UPDATE or LEAVE is put into the ring.
CallSend(pc, v) ==
  /\ app.pc = pc
  /\ Enqueue(Presence(v))
  /\ causes' = IF RingFull THEN causes \cup {"full"} ELSE {}
  /\ app' = Idle
  /\ UNCHANGED <<attached, own_pres, own, calls, svc, ownSrvVars, events>>

EnterSend == CallSend("send", In(data))
LeaveSend == CallSend("sendLeave", None)

-----------------------------------------------------------------------------
(* Connection and server.                                                   *)

\* The dial succeeds.  A connection the server does not resume has no channel
\* attached and no member.
Connect ==
  /\ svc.pc = "dial"
  /\ svc' = [pc |-> "loop"]
  /\ \/ UNCHANGED <<srvAtt, srvOwn>>
     \/ srvAtt' = FALSE /\ srvOwn' = None
  /\ UNCHANGED <<attached, own_pres, own, ring, app, calls, inbox, events, causes>>

\* The connection is lost while waiting for a frame, or sending one, which is
\* gone then.  An answer on its way that would have caused a re-entry is gone too.
Lose ==
  /\ svc.pc = "loop" /\ events < MaxEvents
  /\ events' = events + 1
  /\ inbox' = << >>
  /\ svc' = [pc |-> "onDisconnect"]
  /\ \/ UNCHANGED ring
     \/ ring # << >> /\ ring' = Tail(ring)
  /\ causes' = IF ring' # ring \/ \E i \in DOMAIN inbox : inbox[i] = "fresh"
               THEN causes \cup {"lost"} ELSE causes
  /\ UNCHANGED <<attached, own_pres, own, app, calls, srvAtt, srvOwn>>

\* ably_channel_on_disconnect.
OnDisconnect ==
  /\ svc.pc = "onDisconnect"
  /\ attached' = FALSE
  /\ svc' = [pc |-> "dial"]
  /\ UNCHANGED <<own_pres, own, ring, app, calls, ownSrvVars, events, causes>>

\* ATTACH is put into the ring, by the re-attach or by the application.
AttachSend ==
  /\ svc.pc = "loop" /\ ~attached /\ inbox = << >>
  /\ Attach \notin {ring[i] : i \in DOMAIN ring} /\ ~RingFull
  /\ ring' = Append(ring, Attach)
  /\ UNCHANGED <<attached, own_pres, own, app, calls, svc, ownSrvVars, events, causes>>

\* One frame is sent and handled by the server: ATTACH is answered with RESUMED
\* if the channel was attached, and PRESENCE counts only if it is.
Drain ==
  /\ svc.pc = "loop" /\ ring # << >>
  /\ ring' = Tail(ring)
  /\ LET f == Head(ring) IN
     \/ /\ f.kind = "ATTACH"
        /\ srvAtt' = TRUE
        /\ inbox' = Append(inbox, IF srvAtt THEN "resumed" ELSE "fresh")
        /\ UNCHANGED <<srvOwn, causes>>
     \/ /\ f.kind = "PRESENCE"
        /\ srvOwn' = IF srvAtt THEN f.member ELSE srvOwn
        /\ UNCHANGED <<srvAtt, inbox, causes>>
     \/ f.kind = "JUNK" /\ UNCHANGED <<ownSrvVars, causes>>
  /\ UNCHANGED <<attached, own_pres, own, app, calls, svc, events>>

\* The server detaches the channel, and with it the member.
ServerDetach ==
  /\ svc.pc \notin {"dial", "onDisconnect"} /\ srvAtt /\ events < MaxEvents
  /\ events' = events + 1
  /\ srvAtt' = FALSE /\ srvOwn' = None /\ inbox' = Append(inbox, "detached")
  /\ UNCHANGED <<attached, own_pres, own, ring, app, calls, svc, causes>>

-----------------------------------------------------------------------------
(* Service thread: the frames that concern the channel.                     *)

Handle(a) == svc.pc = "loop" /\ inbox # << >> /\ Head(inbox) = a /\ inbox' = Tail(inbox)

RecvDetached ==
  /\ Handle("detached")
  /\ attached' = FALSE
  /\ UNCHANGED <<own_pres, own, ring, app, calls, svc, srvAtt, srvOwn, events, causes>>

\* ATTACHED: with RESUMED the own entry is left to the server.
RecvAttached(a) ==
  /\ Handle(a)
  /\ attached' = TRUE
  /\ svc' = [pc |-> IF a = "fresh" /\ own_pres # "none" THEN "reenter" ELSE "loop"]
  /\ UNCHANGED <<own_pres, own, ring, app, calls, srvAtt, srvOwn, events, causes>>

\* ably_presence_reenter_own reads the fields and encodes the frame ...
ReenterRead ==
  /\ svc.pc = "reenter"
  /\ svc' \in CASE own_pres = "raw" -> {[pc |-> "loop"], [pc |-> "reenterSend", frame |-> Junk]}
              [] entered -> {[pc |-> "reenterSend", frame |-> Presence(In(data))]}
              [] OTHER -> {[pc |-> "loop"]}
  /\ UNCHANGED <<attached, own_pres, own, ring, app, calls, ownSrvVars, events, causes>>

\* ... and enqueues it, whatever the application has done meanwhile: unless a
\* frame of the application is still to come, an entry read before a leave or
\* an update has the last word.
Overtaken(f) == f # Presence(Own) /\ app.pc \notin {"send", "sendLeave"}

ReenterSend ==
  /\ svc.pc = "reenterSend"
  /\ Enqueue(svc.frame)
  /\ causes' = CASE RingFull -> causes \cup {"full"}
                 [] ~RingFull /\ Overtaken(svc.frame) -> causes \cup {"overtaken"}
                 [] ~RingFull /\ svc.frame = Presence(Own) -> {}
                 [] OTHER -> causes
  /\ svc' = [pc |-> "loop"]
  /\ UNCHANGED <<attached, own_pres, own, app, calls, ownSrvVars, events>>

OwnNext ==
  \/ EnterBegin \/ EnsureAlloc \/ EnsureInit \/ SetData \/ SetEntered \/ EnterSend
  \/ UpdateBegin \/ LeaveBegin \/ LeaveClear \/ LeaveSend
  \/ Connect \/ Lose \/ OnDisconnect \/ AttachSend \/ Drain \/ ServerDetach
  \/ RecvDetached \/ RecvAttached("fresh") \/ RecvAttached("resumed")
  \/ ReenterRead \/ ReenterSend

OwnSpec == OwnInit /\ [][OwnNext]_ownVars

-----------------------------------------------------------------------------
\* What each variable holds.
OwnTypeOK ==
  /\ attached \in BOOLEAN /\ entered \in BOOLEAN /\ srvAtt \in BOOLEAN
  /\ own_pres \in {"none", "raw", "ready"}
  /\ data \in Data /\ srvOwn \in Values
  /\ ring \in Seq(Frame) /\ Len(ring) <= RingSize
  /\ inbox \in Seq({"fresh", "resumed", "detached"})
  /\ calls \in 0 .. MaxCalls /\ events \in 0 .. MaxEvents
  /\ causes \subseteq {"full", "lost", "overtaken"}
  /\ entered => own_pres = "ready"

\* With everything sent and handled, an attached channel's server has the member
\* that the client believes it is, with the data of the last enter or update:
\* through connections lost and resumed or not, detaches, frames of an earlier
\* connection left in the ring, and calls that come before, during and after the
\* re-entry.  Since the last call or attachment, only a frame that found the
\* ring full, a frame or answer lost with its connection, or a re-entry that read the
\* fields before a call and was enqueued after it can have made them differ.
OwnEntryFollows ==
  /\ attached /\ app.pc = "idle" /\ svc.pc = "loop"
  /\ ring = << >> /\ inbox = << >> /\ causes = {}
  => srvOwn = Own
=============================================================================
