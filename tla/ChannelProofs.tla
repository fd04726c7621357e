--------------------------- MODULE ChannelProofs ---------------------------
(***************************************************************************)
(* Proofs about Channel, for every room of the two queues and every bound: *)
(* what its variables hold; that publish() tells the truth when it refuses *)
(* a message and that messages keep their order on each of the two paths;  *)
(* that the client believes a channel attached only when the server agrees *)
(* or the news is on its way; and that ATTACHING is not a dead end, both   *)
(* except where the code makes it otherwise.                               *)
(***************************************************************************)
EXTENDS Channel, TLAPS

(* Part 1: what the variables hold.                                        *)

\* A frame bears the number of a message exactly if it is a message.
Numbered == \A i \in DOMAIN ring : ring[i].kind = "MESSAGE" <=> ring[i].msg # 0

\* The calls of publish() return in order; one that is in the middle of its
\* work has a message to publish.
Called(n) == \A m \in Msg : verdict[m] = "none" <=> m > n
InTurn == /\ \E n \in 0 .. MaxMsg : Called(n)
          /\ pub = "send" => \E m \in Msg : verdict[m] = "none"

TypeInv == TypeOK /\ Numbered /\ InTurn

\* The next message publish() is called with is the one after the last it
\* returned for.
LEMMA NextNumber ==
  ASSUME NEW n \in 0 .. MaxMsg, Called(n), \E m \in Msg : verdict[m] = "none"
  PROVE  n + 1 \in Msg /\ NextMsg = n + 1
<1> USE LimitAssumption DEF Msg
<1>1. n + 1 \in Msg
  BY DEF Called
<1>2. verdict[n + 1] = "none" /\ \A k \in 1 .. n : verdict[k] # "none"
  BY <1>1 DEF Called
<1>3. ASSUME NEW m \in Msg, verdict[m] = "none", 
             \A k \in 1 .. m - 1 : verdict[k] # "none"
      PROVE  m = n + 1
  BY <1>1, <1>2, <1>3
<1>4. QED
  BY <1>1, <1>2, <1>3 DEF NextMsg

\* Returning for it keeps the calls in turn.
LEMMA ReturnInTurn ==
  ASSUME TypeOK, InTurn, \E m \in Msg : verdict[m] = "none",
         NEW code \in {"ok", "capacity", "state"}, Return(NextMsg, code)
  PROVE  /\ NextMsg \in Msg
         /\ verdict[NextMsg] = "none" /\ verdict'[NextMsg] = code
         /\ \A m \in Msg : m # NextMsg => verdict'[m] = verdict[m]
         /\ verdict' \in [Msg -> {"none", "ok", "capacity", "state"}]
         /\ \E n \in 0 .. MaxMsg : Called(n)'
         /\ \A m \in Msg : verdict[m] # "none" => m < NextMsg
<1>1. PICK n \in 0 .. MaxMsg : Called(n)
  BY DEF InTurn
<1>2. n + 1 \in Msg /\ NextMsg = n + 1
  BY <1>1, NextNumber
<1>3. verdict \in [Msg -> {"none", "ok", "capacity", "state"}]
  BY DEF TypeOK
<1>4. verdict' = [verdict EXCEPT ![n + 1] = code]
  BY <1>2 DEF Return
<1>5. Called(n + 1)' /\ n + 1 \in 0 .. MaxMsg
  BY <1>1, <1>2, <1>3, <1>4, LimitAssumption DEF Called, Msg
<1>6. /\ verdict[n + 1] = "none" /\ verdict'[n + 1] = code
      /\ \A m \in Msg : m # n + 1 => verdict'[m] = verdict[m]
      /\ verdict' \in [Msg -> {"none", "ok", "capacity", "state"}]
  BY <1>1, <1>2, <1>3, <1>4 DEF Called
<1>7. \A m \in Msg : verdict[m] # "none" => m < n + 1
  BY <1>1, LimitAssumption DEF Called, Msg
<1>8. QED
  BY <1>2, <1>5, <1>6, <1>7

\* The variables that hold messages, and those that say which are called for.
queueVars == <<pend, ring, srvLog, pub, verdict, queued>>

\* The actions that leave them alone.
Elsewhere ==
  \/ AttachBegin \/ AttachConn \/ AttachSet \/ DetachBegin \/ DetachSet
  \/ Dial \/ SetDisconnected \/ OnDisconnect \/ RecvConnected \/ SetAttaching
  \/ RecvAttached \/ RecvDetached \/ RecvRefused \/ RecvError \/ RecvMild \/ Exit
  \/ Drop \/ ServerEvent

\* The actions that put at most one request into the ring.
Requesting == AttachSend \/ DetachSend \/ ReattachSend

LEMMA ElsewhereKeeps ==
  ASSUME Elsewhere
  PROVE  UNCHANGED queueVars
BY DEF Elsewhere, queueVars, vars, chanVars, appVars, srvVars, AttachBegin,
       AttachConn, AttachSet, DetachBegin, DetachSet, CtlSet, Dial,
       SetDisconnected, OnDisconnect, RecvConnected, SetAttaching, RecvAttached,
       RecvDetached, RecvRefused, RecvError, RecvMild, Exit, Drop, ServerEvent, Handle

LEMMA RequestingAdds ==
  ASSUME Requesting
  PROVE  /\ UNCHANGED <<pend, srvLog, pub, verdict, queued>>
         /\ \/ UNCHANGED ring
            \/ /\ Len(ring) # RingRoom
               /\ \E k \in {"ATTACH", "DETACH"} : ring' = Append(ring, Request(k))
BY DEF Requesting, AttachSend, DetachSend, CtlSend, ReattachSend, RingFull,
       chanVars, appVars, srvVars

\* The flags are flags.
LEMMA FlagsStep ==
  ASSUME TypeOK, [Next]_vars
  PROVE  reattach' \in BOOLEAN /\ lastError' \in BOOLEAN /\ srvAtt' \in BOOLEAN
           /\ unasked' \in BOOLEAN /\ swallowed' \in BOOLEAN
<1> reattach \in BOOLEAN /\ lastError \in BOOLEAN /\ srvAtt \in BOOLEAN
      /\ unasked \in BOOLEAN /\ swallowed \in BOOLEAN
  BY Zenon DEF TypeOK
<1> USE DEF chanVars, appVars, srvVars
<1>1. CASE Control
  BY <1>1, Zenon DEF Control, AttachBegin, AttachConn, AttachSend, AttachSet,
       DetachBegin, DetachSend, DetachSet, CtlSend, CtlSet
<1>2. CASE Publish
  BY <1>2, Zenon DEF Publish, PublishBegin, PublishInto, PublishSend
<1>3. CASE DrainSend
  BY <1>3, Zenon DEF DrainSend
<1>4. CASE Service /\ ~DrainSend
  BY <1>4, Zenon DEF Service, Dial, SetDisconnected, OnDisconnect,
       RecvConnected, ReattachSend, SetAttaching, RecvAttached, FlushPending,
       RecvDetached, RecvRefused, RecvError, RecvMild, Exit, Handle
<1>5. CASE Environment
  BY <1>5, Zenon DEF Environment, Drop, DrainFail, ServerEvent
<1>6. CASE UNCHANGED vars
  BY <1>6, Zenon DEF vars
<1>7. QED
  BY <1>1, <1>2, <1>3, <1>4, <1>5, <1>6, Zenon DEF Next

\* The states and the counters stay in their sets.
LEMMA ControlStep ==
  ASSUME TypeOK, [Next]_vars
  PROVE  /\ cst' \in ChanState
         /\ link' \in {"down", "up", "failed"}
         /\ svc' \in {"dial", "loop", "lost", "onDisconnect", "reattach",
                      "setAttaching", "flush", "exited"}
         /\ ctl' \in {"idle", "attachConn", "attachSend", "attachSet",
                      "detachSend", "detachSet"}
         /\ pub' \in {"idle", "send"}
         /\ calls' \in 0 .. MaxCalls /\ events' \in 0 .. MaxEvents
<1> USE LimitAssumption DEF TypeOK, ChanState, chanVars, appVars, srvVars
<1>1. CASE Control
  BY <1>1 DEF Control, AttachBegin, AttachConn, AttachSend, AttachSet,
       DetachBegin, DetachSend, DetachSet, CtlSend, CtlSet
<1>2. CASE Publish
  BY <1>2 DEF Publish, PublishBegin, PublishInto, PublishSend
<1>3. CASE Service
  BY <1>3 DEF Service, Dial, SetDisconnected, OnDisconnect, DrainSend,
       RecvConnected, ReattachSend, SetAttaching, RecvAttached, FlushPending,
       RecvDetached, RecvRefused, RecvError, RecvMild, Exit, Handle
<1>4. CASE Environment
  BY <1>4 DEF Environment, Drop, DrainFail, ServerEvent
<1>5. CASE UNCHANGED vars
  BY <1>5 DEF vars
<1>6. QED
  BY <1>1, <1>2, <1>3, <1>4, <1>5 DEF Next

\* What arrives are answers.
LEMMA InboxStep ==
  ASSUME TypeOK, [Next]_vars
  PROVE  inbox' \in Seq(Answer)
<1> inbox \in Seq(Answer)
  BY DEF TypeOK
<1> {"ATTACHED", "DETACHED"} \cup Refusal \cup News \subseteq Answer
  BY DEF Answer, News
<1> /\ <<"CONNECTED">> \in Seq(Answer)
    /\ \A a \in Answer : Append(inbox, a) \in Seq(Answer)
  BY DEF Answer
<1> << >> \in Seq(Answer) /\ (inbox # << >> => Tail(inbox) \in Seq(Answer))
  OBVIOUS
<1> HIDE DEF Answer
<1> USE DEF chanVars, appVars, srvVars
<1>1. CASE Control \/ Publish
  BY <1>1 DEF Control, AttachBegin, AttachConn, AttachSend, AttachSet,
       DetachBegin, DetachSend, DetachSet, CtlSend, CtlSet, Publish,
       PublishBegin, PublishInto, PublishSend
<1>2. CASE DrainSend
  BY <1>2, Zenon DEF DrainSend
<1>3. CASE Service /\ ~DrainSend
  BY <1>3, Zenon DEF Service, Dial, SetDisconnected, OnDisconnect, RecvConnected,
       ReattachSend, SetAttaching, RecvAttached, FlushPending, RecvDetached,
       RecvRefused, RecvError, RecvMild, Exit, Handle
<1>4. CASE Environment
  BY <1>4 DEF Environment, Drop, DrainFail, ServerEvent
<1>5. CASE UNCHANGED vars
  BY <1>5 DEF vars
<1>6. QED
  BY <1>1, <1>2, <1>3, <1>4, <1>5 DEF Next

\* What publish() does to the messages: it refuses one, accepts one into a queue
\* with room, or only finds that the next one is to be sent.
LEMMA PublishCases ==
  ASSUME InTurn, Publish
  PROVE  /\ UNCHANGED <<srvLog, lost>>
         /\ \E m \in Msg : verdict[m] = "none"
         /\ \/ /\ \E code \in {"capacity", "state"} : Return(NextMsg, code)
               /\ UNCHANGED <<pend, ring, queued>> /\ pub' = "idle"
            \/ UNCHANGED <<pend, ring, queued, verdict>>
            \/ /\ Return(NextMsg, "ok") /\ pub' = "idle" /\ UNCHANGED ring
               /\ Len(pend) < PendRoom /\ pend' = Append(pend, NextMsg)
               /\ queued' = queued \cup {NextMsg}
            \/ /\ Return(NextMsg, "ok") /\ pub' = "idle"
               /\ UNCHANGED <<pend, queued>>
               /\ Len(ring) # RingRoom /\ ring' = Append(ring, Message(NextMsg))
BY DEF InTurn, Publish, PublishBegin, PublishInto, PublishSend, RingFull,
       chanVars, appVars, srvVars

\* What the service thread does to them: it takes the oldest frame off the ring,
\* for the server or for nobody, or the oldest message off the pending queue,
\* for the ring if there is room.
LEMMA MovingCases ==
  ASSUME DrainSend \/ DrainFail \/ FlushPending
  PROVE  /\ UNCHANGED <<pub, verdict, queued>>
         /\ \/ /\ UNCHANGED pend /\ ring # << >> /\ ring' = Tail(ring)
               /\ \/ /\ Head(ring).kind = "MESSAGE"
                     /\ srvLog' = Append(srvLog, Head(ring).msg)
                  \/ UNCHANGED srvLog
            \/ UNCHANGED <<pend, ring, srvLog>>
            \/ /\ UNCHANGED srvLog /\ pend # << >> /\ pend' = Tail(pend)
               /\ \/ UNCHANGED ring
                  \/ /\ Len(ring) # RingRoom
                     /\ ring' = Append(ring, Message(Head(pend)))
BY DEF DrainSend, DrainFail, FlushPending, RingFull, chanVars, appVars, srvVars

LEMMA NextCases ==
  ASSUME [Next]_vars
  PROVE  \/ UNCHANGED queueVars
         \/ Requesting \/ Publish
         \/ DrainSend \/ DrainFail \/ FlushPending
BY ElsewhereKeeps DEF Next, Control, Service, Environment, Elsewhere,
   Requesting, queueVars, vars

QueuesOK ==
  /\ pend \in Seq(Msg) /\ Len(pend) <= PendRoom
  /\ ring \in Seq(Frame) /\ Len(ring) <= RingRoom
  /\ srvLog \in Seq(Msg) /\ queued \in SUBSET Msg
  /\ verdict \in [Msg -> {"none", "ok", "capacity", "state"}]
  /\ Numbered

LEMMA FrameFields ==
  /\ \A k \in {"ATTACH", "DETACH"} :
       Request(k) \in Frame /\ Request(k).msg = 0 /\ Request(k).kind = k
  /\ \A m \in Msg : /\ Message(m) \in Frame /\ Message(m).msg = m
                    /\ Message(m).kind = "MESSAGE" /\ m \in Nat /\ m # 0
  /\ \A f \in Frame : f.msg \in Nat /\ (f.msg # 0 => f.msg \in Msg)
BY LimitAssumption DEF Request, Message, Frame, Msg

\* A frame joins the ring, or leaves it.
LEMMA RingGains ==
  ASSUME QueuesOK, NEW f \in Frame, f.kind = "MESSAGE" <=> f.msg # 0,
         Len(ring) # RingRoom, ring' = Append(ring, f)
  PROVE  ring' \in Seq(Frame) /\ Len(ring') <= RingRoom /\ Numbered'
<1>1. ring \in Seq(Frame) /\ Len(ring) <= RingRoom
  BY DEF QueuesOK
<1>2. ring' \in Seq(Frame) /\ Len(ring') = Len(ring) + 1
  BY <1>1
<1>3. \A i \in DOMAIN ring' : ring'[i] = f \/ (i \in DOMAIN ring /\ ring'[i] = ring[i])
  BY <1>1
<1>4. Numbered'
  BY <1>3 DEF QueuesOK, Numbered
<1>5. QED
  BY <1>1, <1>2, <1>4, RoomAssumption

LEMMA RingLoses ==
  ASSUME QueuesOK, ring # << >>, ring' = Tail(ring)
  PROVE  /\ ring' \in Seq(Frame) /\ Len(ring') <= RingRoom /\ Numbered'
         /\ Head(ring) \in Frame /\ Head(ring) = ring[1] /\ 1 \in DOMAIN ring
<1>1. ring \in Seq(Frame) /\ Len(ring) <= RingRoom
  BY DEF QueuesOK
<1>2. ring' \in Seq(Frame) /\ Len(ring') = Len(ring) - 1
  BY <1>1
<1>3. \A i \in DOMAIN ring' : i + 1 \in DOMAIN ring /\ ring'[i] = ring[i + 1]
  BY <1>1
<1>4. Numbered'
  BY <1>3 DEF QueuesOK, Numbered
<1>5. Head(ring) \in Frame /\ Head(ring) = ring[1] /\ 1 \in DOMAIN ring
  BY <1>1
<1>6. QED
  BY <1>1, <1>2, <1>4, <1>5, RoomAssumption

LEMMA QueuesStep ==
  ASSUME TypeInv, [Next]_vars
  PROVE  QueuesOK' /\ InTurn'
<1>1. QueuesOK /\ InTurn
  BY DEF TypeInv, TypeOK, QueuesOK
<1>2. CASE UNCHANGED queueVars
  BY <1>1, <1>2 DEF queueVars, QueuesOK, Numbered, InTurn, Called
<1>3. CASE Requesting
  <2>1. InTurn'
    BY <1>1, <1>3, RequestingAdds DEF InTurn, Called
  <2>2. ring' \in Seq(Frame) /\ Len(ring') <= RingRoom /\ Numbered'
    BY <1>1, <1>3, RequestingAdds, RingGains, FrameFields DEF QueuesOK, Numbered
  <2>3. QED
    BY <1>1, <1>3, <2>1, <2>2, RequestingAdds DEF QueuesOK
<1>4. CASE Publish
  <2> DEFINE Returned(code) == Return(NextMsg, code) /\ pub' = "idle"
  <2>1. UNCHANGED srvLog /\ \E m \in Msg : verdict[m] = "none"
    BY <1>1, <1>4, PublishCases
  <2>2. ASSUME NEW code \in {"ok", "capacity", "state"}, Returned(code)
        PROVE  /\ NextMsg \in Msg
               /\ verdict' \in [Msg -> {"none", "ok", "capacity", "state"}]
               /\ InTurn'
    BY <1>1, <2>1, <2>2, ReturnInTurn DEF TypeInv, InTurn
  <2>3. CASE UNCHANGED <<pend, ring, queued, verdict>>
    BY <1>1, <2>1, <2>3 DEF QueuesOK, Numbered, InTurn, Called
  <2>4. CASE /\ \E code \in {"capacity", "state"} : Returned(code)
             /\ UNCHANGED <<pend, ring, queued>>
    BY <1>1, <2>1, <2>2, <2>4 DEF QueuesOK, Numbered
  <2>5. CASE /\ Returned("ok") /\ UNCHANGED ring
             /\ Len(pend) < PendRoom /\ pend' = Append(pend, NextMsg)
             /\ queued' = queued \cup {NextMsg}
    <3>1. NextMsg \in Msg
      BY <2>2, <2>5
    <3>2. pend' \in Seq(Msg) /\ Len(pend') <= PendRoom
      BY <1>1, <2>5, <3>1, RoomAssumption DEF QueuesOK
    <3>3. QED
      BY <1>1, <2>1, <2>2, <2>5, <3>1, <3>2 DEF QueuesOK, Numbered
  <2>6. CASE /\ Returned("ok") /\ UNCHANGED <<pend, queued>>
             /\ Len(ring) # RingRoom /\ ring' = Append(ring, Message(NextMsg))
    <3>1. NextMsg \in Msg
      BY <2>2, <2>6
    <3>2. ring' \in Seq(Frame) /\ Len(ring') <= RingRoom /\ Numbered'
      BY <1>1, <2>6, <3>1, RingGains, FrameFields
    <3>3. QED
      BY <1>1, <2>1, <2>2, <2>6, <3>1, <3>2 DEF QueuesOK
  <2>7. QED
    BY <1>1, <1>4, <2>3, <2>4, <2>5, <2>6, PublishCases
<1>5. CASE DrainSend \/ DrainFail \/ FlushPending
  <2>1. InTurn'
    BY <1>1, <1>5, MovingCases DEF InTurn, Called
  <2>2. CASE ring' = Tail(ring) /\ UNCHANGED <<pend, verdict, queued>> /\ ring # << >>
    <3>1. Head(ring) \in Frame /\ Head(ring) = ring[1] /\ 1 \in DOMAIN ring
      BY <1>1, <2>2, RingLoses
    <3>2. srvLog' = srvLog \/ (Head(ring).msg \in Msg /\ srvLog' = Append(srvLog, Head(ring).msg))
      BY <1>1, <1>5, <2>2, <3>1, MovingCases, FrameFields DEF QueuesOK, Numbered
    <3>3. srvLog' \in Seq(Msg)
      <4>1. \A m \in Msg : Append(srvLog, m) \in Seq(Msg)
        BY <1>1 DEF QueuesOK
      <4>2. QED
        BY <1>1, <3>2, <4>1, Zenon DEF QueuesOK
    <3>4. QED
      BY <1>1, <2>1, <2>2, <3>3, RingLoses DEF QueuesOK
  <2>3. CASE UNCHANGED queueVars
    BY <1>2, <2>3
  <2>4. CASE /\ UNCHANGED <<srvLog, verdict, queued>>
             /\ pend # << >> /\ pend' = Tail(pend)
             /\ \/ UNCHANGED ring
                \/ /\ Len(ring) # RingRoom
                   /\ ring' = Append(ring, Message(Head(pend)))
    <3>1. pend' \in Seq(Msg) /\ Len(pend') <= PendRoom /\ Head(pend) \in Msg
      BY <1>1, <2>4, RoomAssumption DEF QueuesOK
    <3>2. ring' \in Seq(Frame) /\ Len(ring') <= RingRoom /\ Numbered'
      BY <1>1, <2>4, <3>1, RingGains, FrameFields DEF QueuesOK, Numbered
    <3>3. QED
      BY <1>1, <2>1, <2>4, <3>1, <3>2 DEF QueuesOK
  <2>5. QED
    BY <1>5, <2>2, <2>3, <2>4, MovingCases DEF queueVars
<1>6. QED
  BY <1>2, <1>3, <1>4, <1>5, NextCases

LEMMA TypeStep ==
  ASSUME TypeInv, [Next]_vars
  PROVE  TypeInv'
<1>1. TypeOK /\ QueuesOK' /\ InTurn'
  BY QueuesStep DEF TypeInv
<1>2. /\ reattach' \in BOOLEAN /\ lastError' \in BOOLEAN /\ srvAtt' \in BOOLEAN
      /\ unasked' \in BOOLEAN /\ swallowed' \in BOOLEAN
  BY <1>1, FlagsStep, Zenon
<1>3. /\ cst' \in ChanState
      /\ link' \in {"down", "up", "failed"}
      /\ svc' \in {"dial", "loop", "lost", "onDisconnect", "reattach",
                   "setAttaching", "flush", "exited"}
      /\ ctl' \in {"idle", "attachConn", "attachSend", "attachSet",
                   "detachSend", "detachSet"}
      /\ pub' \in {"idle", "send"}
      /\ calls' \in 0 .. MaxCalls /\ events' \in 0 .. MaxEvents
  BY <1>1, ControlStep, Zenon
<1>4. inbox' \in Seq(Answer)
  BY <1>1, InboxStep, Zenon
<1>5. lost' \in SUBSET Msg
  <2>1. UNCHANGED lost \/ lost' = lost \cup ({Head(ring).msg} \cap Msg)
    BY DEF Next, vars, Control, AttachBegin, AttachConn, AttachSend, AttachSet,
       DetachBegin, DetachSend, DetachSet, CtlSend, CtlSet, Publish,
       PublishBegin, PublishInto, PublishSend, Service, Dial, SetDisconnected,
       OnDisconnect, DrainSend, RecvConnected, ReattachSend, SetAttaching,
       RecvAttached, FlushPending, RecvDetached, RecvRefused, RecvError, RecvMild, Exit,
       Environment, Drop, DrainFail, ServerEvent
  <2>2. QED
    BY <1>1, <2>1 DEF TypeOK
<1>6. QED
  BY <1>1, <1>2, <1>3, <1>4, <1>5, Zenon DEF TypeInv, TypeOK, QueuesOK

LEMMA TypeInit == Init => TypeInv
<1> SUFFICES ASSUME Init PROVE TypeInv
  OBVIOUS
<1> USE LimitAssumption, RoomAssumption
<1>1. Called(0) /\ 0 \in 0 .. MaxMsg
  BY DEF Init, Called, Msg
<1>2. InTurn /\ Numbered
  BY <1>1 DEF Init, InTurn, Numbered
<1>3. << >> \in Seq(Frame) /\ << >> \in Seq(Msg) /\ << >> \in Seq(Answer)
        /\ Len(<< >>) = 0
  OBVIOUS
<1>4. verdict \in [Msg -> {"none", "ok", "capacity", "state"}]
  BY DEF Init
<1>5. reattach \in BOOLEAN /\ lastError \in BOOLEAN /\ srvAtt \in BOOLEAN
        /\ unasked \in BOOLEAN
  BY Zenon DEF Init
<1>6. /\ cst \in ChanState
      /\ pend \in Seq(Msg) /\ Len(pend) <= PendRoom
      /\ ring \in Seq(Frame) /\ Len(ring) <= RingRoom
      /\ inbox \in Seq(Answer) /\ srvLog \in Seq(Msg)
      /\ calls \in 0 .. MaxCalls /\ events \in 0 .. MaxEvents
  BY <1>3 DEF Init, ChanState
<1>7. TypeOK
  BY <1>4, <1>5, <1>6, Zenon DEF Init, TypeOK
<1>8. QED
  BY <1>2, <1>7 DEF TypeInv

\* The variables hold what channel.c keeps in them: the pending queue and the
\* ring never hold more than their room.
THEOREM TypeInvariant == Spec => []TypeOK
<1>1. TypeInv /\ [Next]_vars => TypeInv'
  BY TypeStep
<1>2. TypeInv => TypeOK
  BY DEF TypeInv
<1>3. QED
  BY TypeInit, <1>1, <1>2, PTL DEF Spec

(* Part 2: the messages on their way.  The order of Outbound is stated     *)
(* part by part, so that a step that moves one message disturbs two parts. *)

Known(m) == m # 0 => verdict[m] = "ok"

\* Only messages that were accepted are anywhere.
Accepted ==
  /\ \A i \in DOMAIN srvLog : Known(srvLog[i])
  /\ \A i \in DOMAIN ring : Known(ring[i].msg)
  /\ \A i \in DOMAIN pend : pend[i] \in queued
  /\ \A m \in queued : Known(m)

OrderedParts ==
  /\ \A i, j \in DOMAIN srvLog : i < j => InOrder(srvLog[i], srvLog[j])
  /\ \A i, j \in DOMAIN ring : i < j => InOrder(ring[i].msg, ring[j].msg)
  /\ \A i, j \in DOMAIN pend : i < j => InOrder(pend[i], pend[j])

Across ==
  /\ \A i \in DOMAIN srvLog, j \in DOMAIN ring : InOrder(srvLog[i], ring[j].msg)
  /\ \A i \in DOMAIN srvLog, j \in DOMAIN pend : InOrder(srvLog[i], pend[j])
  /\ \A i \in DOMAIN ring, j \in DOMAIN pend : InOrder(ring[i].msg, pend[j])

OutInv == Accepted /\ OrderedParts /\ Across

\* Order does not matter to a request, and depends on the two messages only.
LEMMA RequestInOrder == \A a : InOrder(0, a) /\ InOrder(a, 0)
BY DEF InOrder

\* A position of a queue after a frame has joined it, or left it.
LEMMA AfterAppend ==
  ASSUME NEW S, NEW q \in Seq(S), NEW x \in S, NEW i \in DOMAIN Append(q, x)
  PROVE  \/ i \in DOMAIN q /\ Append(q, x)[i] = q[i]
         \/ /\ i = Len(q) + 1 /\ Append(q, x)[i] = x
            /\ \A j \in DOMAIN Append(q, x) : j # i => j \in DOMAIN q /\ j < i
OBVIOUS

LEMMA AfterTail ==
  ASSUME NEW S, NEW q \in Seq(S), q # << >>
  PROVE  /\ 1 \in DOMAIN q /\ Head(q) = q[1]
         /\ \A i \in DOMAIN Tail(q) :
              i \in Nat \ {0} /\ i + 1 \in DOMAIN q /\ Tail(q)[i] = q[i + 1]
OBVIOUS

\* Which messages are where, and in which order, after a request has joined the
\* ring.
LEMMA OutRequest ==
  ASSUME QueuesOK, OutInv, UNCHANGED <<pend, srvLog, verdict, queued>>,
         NEW f \in Frame, f.msg = 0, ring' = Append(ring, f)
  PROVE  OutInv'
<1>1. ring \in Seq(Frame)
  BY DEF QueuesOK
<1>2. \A i \in DOMAIN ring' :
        \/ i \in DOMAIN ring /\ ring'[i] = ring[i]
        \/ i = Len(ring) + 1 /\ ring'[i].msg = 0
  BY <1>1, AfterAppend
<1>3. \A a, b : InOrder(a, b)' <=> InOrder(a, b)
  BY DEF InOrder
<1>4. Accepted'
  BY <1>2 DEF OutInv, Accepted, Known
<1>5. OrderedParts'
  BY <1>2, <1>3, RequestInOrder DEF OutInv, OrderedParts
<1>6. Across'
  BY <1>2, <1>3, RequestInOrder DEF OutInv, Across
<1>7. QED
  BY <1>4, <1>5, <1>6 DEF OutInv

\* The next message is behind every message there is.
LEMMA NextIsLast ==
  ASSUME QueuesOK, Accepted, 
         \A m \in Msg : verdict[m] # "none" => m < NextMsg
  PROVE  /\ \A i \in DOMAIN srvLog : srvLog[i] # 0 => srvLog[i] < NextMsg
         /\ \A i \in DOMAIN ring : ring[i].msg # 0 => ring[i].msg < NextMsg
         /\ \A i \in DOMAIN pend : pend[i] # 0 => pend[i] < NextMsg
<1>1. /\ \A i \in DOMAIN srvLog : srvLog[i] \in Msg
      /\ \A i \in DOMAIN ring : ring[i] \in Frame
      /\ \A i \in DOMAIN pend : pend[i] \in Msg
  BY DEF QueuesOK
<1>2. \A i \in DOMAIN ring : ring[i].msg # 0 => ring[i].msg \in Msg
  BY <1>1, FrameFields
<1>3. QED
  BY <1>1, <1>2 DEF Accepted, Known

\* ... after the next message has joined the ring.
LEMMA OutDirect ==
  ASSUME QueuesOK, OutInv, UNCHANGED <<pend, srvLog, queued>>,
         NextMsg \in Msg, verdict[NextMsg] = "none", verdict'[NextMsg] = "ok",
         \A m \in Msg : m # NextMsg => verdict'[m] = verdict[m],
         \A m \in Msg : verdict[m] # "none" => m < NextMsg,
         ring' = Append(ring, Message(NextMsg))
  PROVE  OutInv'
<1> DEFINE n == NextMsg
<1>1. ring \in Seq(Frame) /\ Message(n) \in Frame /\ Message(n).msg = n /\ n # 0
  BY FrameFields DEF QueuesOK
<1> HIDE DEF n
<1>2. \A i \in DOMAIN ring' :
        \/ i \in DOMAIN ring /\ ring'[i] = ring[i]
        \/ /\ i = Len(ring) + 1 /\ ring'[i].msg = n
           /\ \A j \in DOMAIN ring' : j # i => j \in DOMAIN ring /\ j < i
  BY <1>1, AfterAppend DEF n
<1>3. \A a, b : InOrder(a, b)' <=> InOrder(a, b)
  BY DEF InOrder
<1>4. /\ n \in Msg /\ n \notin queued
      /\ \A a : a # 0 /\ a < n => InOrder(a, n)
      /\ \A b \in queued : InOrder(n, b)
  BY <1>1 DEF InOrder, OutInv, Accepted, Known, n
<1>5. /\ \A i \in DOMAIN srvLog : InOrder(srvLog[i], n)
      /\ \A i \in DOMAIN ring : InOrder(ring[i].msg, n)
  BY <1>4, NextIsLast, RequestInOrder DEF OutInv, n
<1>6. \A m \in Msg : Known(m) => Known(m)'
  BY DEF Known
<1>7. Accepted'
  BY <1>2, <1>6, FrameFields DEF OutInv, Accepted, Known, QueuesOK, n
<1>8. OrderedParts'
  BY <1>2, <1>3, <1>5 DEF OutInv, OrderedParts
<1>9. Across'
  BY <1>2, <1>3, <1>4, <1>5 DEF OutInv, Across, Accepted
<1>10. QED
  BY <1>7, <1>8, <1>9 DEF OutInv

\* ... after it has joined the pending queue.
LEMMA OutQueued ==
  ASSUME QueuesOK, OutInv, UNCHANGED <<ring, srvLog>>,
         NextMsg \in Msg, verdict[NextMsg] = "none", verdict'[NextMsg] = "ok",
         \A m \in Msg : m # NextMsg => verdict'[m] = verdict[m],
         \A m \in Msg : verdict[m] # "none" => m < NextMsg,
         pend' = Append(pend, NextMsg), queued' = queued \cup {NextMsg}
  PROVE  OutInv'
<1>0. PICK n \in Msg : n = NextMsg
  OBVIOUS
<1>1. /\ n \in Msg /\ n \in Nat /\ n # 0
      /\ pend \in Seq(Msg) /\ srvLog \in Seq(Msg) /\ ring \in Seq(Frame)
  BY FrameFields DEF QueuesOK
<1>2. \A i \in DOMAIN pend' :
        \/ i \in DOMAIN pend /\ pend'[i] = pend[i]
        \/ /\ i = Len(pend) + 1 /\ pend'[i] = n
           /\ \A j \in DOMAIN pend' : j # i => j \in DOMAIN pend /\ j < i
  BY <1>0, <1>1, AfterAppend
<1>3. /\ \A i \in DOMAIN srvLog : srvLog[i] # 0 => srvLog[i] < n
      /\ \A i \in DOMAIN ring : ring[i].msg # 0 => ring[i].msg < n
      /\ \A i \in DOMAIN pend : pend[i] # 0 => pend[i] < n
  BY <1>0, NextIsLast DEF OutInv
<1>4. /\ \A i \in DOMAIN srvLog : srvLog[i] \in Nat
      /\ \A i \in DOMAIN ring : ring[i].msg \in Nat
      /\ \A i \in DOMAIN pend : pend[i] \in Nat
  <2>1. /\ \A i \in DOMAIN srvLog : srvLog[i] \in Msg
        /\ \A i \in DOMAIN ring : ring[i] \in Frame
        /\ \A i \in DOMAIN pend : pend[i] \in Msg
    BY <1>1
  <2>2. QED
    BY <2>1, FrameFields
<1>5. queued' = queued \cup {n} /\ verdict'[n] = "ok"
        /\ \A m \in Msg : m # n => verdict'[m] = verdict[m]
  BY <1>0
<1>6. \A a \in Nat : a # 0 /\ a < n => (a \in queued' <=> a \in queued)
  BY <1>1, <1>5
<1>7. /\ \A a, b \in Nat : (a # 0 => a < n) /\ (b # 0 => b < n) /\ InOrder(a, b)
                              => InOrder(a, b)'
      /\ \A a \in Nat : (a # 0 => a < n) => InOrder(a, n)'
  BY <1>1, <1>6 DEF InOrder
<1>8. \A m \in Nat : (m # 0 => m \in Msg) /\ Known(m) => Known(m)'
  BY <1>5 DEF Known
<1>9. Accepted'
  <2>1. /\ \A i \in DOMAIN srvLog : srvLog[i] \in Msg
        /\ \A i \in DOMAIN ring : ring[i].msg # 0 => ring[i].msg \in Msg
        /\ \A m \in queued : m \in Msg /\ m \in Nat
    BY <1>1, FrameFields DEF QueuesOK
  <2>2. /\ \A i \in DOMAIN srvLog : Known(srvLog[i])'
        /\ \A i \in DOMAIN ring : Known(ring[i].msg)'
    BY <1>4, <1>8, <2>1 DEF OutInv, Accepted
  <2>3. \A m \in queued : Known(m)'
    BY <1>8, <2>1 DEF OutInv, Accepted
  <2>4. Known(n)'
    BY <1>5 DEF Known
  <2>5. \A i \in DOMAIN pend' : pend'[i] \in queued'
    BY <1>2, <1>5 DEF OutInv, Accepted
  <2>6. QED
    BY <1>5, <2>2, <2>3, <2>4, <2>5 DEF Accepted
<1>10. OrderedParts'
  BY <1>2, <1>3, <1>4, <1>7 DEF OutInv, OrderedParts
<1>11. Across'
  BY <1>2, <1>3, <1>4, <1>7 DEF OutInv, Across
<1>12. QED
  BY <1>9, <1>10, <1>11 DEF OutInv

\* ... after the oldest frame has left the ring, for the server or for nobody.
LEMMA OutDrained ==
  ASSUME QueuesOK, OutInv, UNCHANGED <<pend, verdict, queued>>,
         ring # << >>, ring' = Tail(ring),
         \/ Head(ring).msg \in Msg /\ srvLog' = Append(srvLog, Head(ring).msg)
         \/ UNCHANGED srvLog
  PROVE  OutInv'
<1> DEFINE h == ring[1].msg
<1>1. ring \in Seq(Frame) /\ srvLog \in Seq(Msg)
  BY DEF QueuesOK
<1>2. /\ 1 \in DOMAIN ring /\ Head(ring).msg = h
      /\ \A i \in DOMAIN ring' :
           i \in Nat \ {0} /\ i + 1 \in DOMAIN ring /\ ring'[i] = ring[i + 1]
  BY <1>1, AfterTail
<1> HIDE DEF h
<1>3. \A i \in DOMAIN srvLog' :
        \/ i \in DOMAIN srvLog /\ srvLog'[i] = srvLog[i]
        \/ /\ i = Len(srvLog) + 1 /\ srvLog'[i] = h
           /\ \A j \in DOMAIN srvLog' : j # i => j \in DOMAIN srvLog /\ j < i
  BY <1>1, <1>2, AfterAppend
<1>4. \A a, b : InOrder(a, b)' <=> InOrder(a, b)
  BY DEF InOrder
<1>5. /\ \A i \in DOMAIN srvLog : InOrder(srvLog[i], h)
      /\ \A i \in DOMAIN ring' : InOrder(h, ring'[i].msg)
      /\ \A i \in DOMAIN pend : InOrder(h, pend[i])
      /\ Known(h)
  BY <1>2 DEF OutInv, OrderedParts, Across, Accepted, h
<1>6. Accepted'
  BY <1>2, <1>3, <1>5 DEF OutInv, Accepted, Known
<1>7. OrderedParts'
  <2>1. \A i, j \in DOMAIN srvLog' : i < j => InOrder(srvLog'[i], srvLog'[j])
    BY <1>1, <1>3, <1>5 DEF OutInv, OrderedParts
  <2>2. \A i, j \in DOMAIN ring' : i < j => InOrder(ring'[i].msg, ring'[j].msg)
    BY <1>2 DEF OutInv, OrderedParts
  <2>3. QED
    BY <1>4, <2>1, <2>2 DEF OutInv, OrderedParts
<1>8. Across'
  BY <1>2, <1>3, <1>4, <1>5 DEF OutInv, Across
<1>9. QED
  BY <1>6, <1>7, <1>8 DEF OutInv

\* ... after the oldest message has left the pending queue, for the ring or, if
\* that is full, for nowhere.
LEMMA OutFlushed ==
  ASSUME QueuesOK, OutInv, UNCHANGED <<srvLog, verdict, queued>>,
         pend # << >>, pend' = Tail(pend),
         UNCHANGED ring \/ ring' = Append(ring, Message(Head(pend)))
  PROVE  OutInv'
<1> DEFINE h == pend[1]
<1>1. ring \in Seq(Frame) /\ pend \in Seq(Msg)
  BY DEF QueuesOK
<1>2. /\ 1 \in DOMAIN pend /\ Head(pend) = h
      /\ \A i \in DOMAIN pend' :
           i \in Nat \ {0} /\ i + 1 \in DOMAIN pend /\ pend'[i] = pend[i + 1]
  BY <1>1, AfterTail
<1>3. h \in Msg /\ Message(h) \in Frame /\ Message(h).msg = h
  BY <1>1, <1>2, FrameFields
<1>4. /\ \A i \in DOMAIN srvLog : InOrder(srvLog[i], h)
      /\ \A i \in DOMAIN ring : InOrder(ring[i].msg, h)
      /\ \A i \in DOMAIN pend' : InOrder(h, pend'[i])
      /\ Known(h)
  BY <1>2 DEF OutInv, OrderedParts, Across, Accepted
<1> HIDE DEF h
<1>5. \A i \in DOMAIN ring' :
        \/ i \in DOMAIN ring /\ ring'[i] = ring[i]
        \/ /\ i = Len(ring) + 1 /\ ring'[i].msg = h
           /\ \A j \in DOMAIN ring' : j # i => j \in DOMAIN ring /\ j < i
  BY <1>1, <1>2, <1>3, AfterAppend
<1>6. \A a, b : InOrder(a, b)' <=> InOrder(a, b)
  BY DEF InOrder
<1>7. Accepted'
  BY <1>2, <1>4, <1>5 DEF OutInv, Accepted, Known
<1>8. OrderedParts'
  <2>1. \A i, j \in DOMAIN ring' : i < j => InOrder(ring'[i].msg, ring'[j].msg)
    BY <1>1, <1>4, <1>5 DEF OutInv, OrderedParts
  <2>2. \A i, j \in DOMAIN pend' : i < j => InOrder(pend'[i], pend'[j])
    BY <1>2 DEF OutInv, OrderedParts
  <2>3. QED
    BY <1>6, <2>1, <2>2 DEF OutInv, OrderedParts
<1>9. Across'
  BY <1>2, <1>4, <1>5, <1>6 DEF OutInv, Across
<1>10. QED
  BY <1>7, <1>8, <1>9 DEF OutInv

LEMMA OutStep ==
  ASSUME TypeInv, OutInv, [Next]_vars
  PROVE  OutInv'
<1>1. QueuesOK /\ InTurn
  BY DEF TypeInv, TypeOK, QueuesOK
<1>2. CASE UNCHANGED queueVars
  BY <1>2 DEF queueVars, OutInv, Accepted, OrderedParts, Across, Known, InOrder
<1>3. CASE Requesting
  <2>1. CASE UNCHANGED ring
    BY <1>2, <1>3, <2>1, RequestingAdds DEF queueVars
  <2>2. CASE \E k \in {"ATTACH", "DETACH"} : ring' = Append(ring, Request(k))
    BY <1>1, <1>3, <2>2, RequestingAdds, OutRequest, FrameFields
  <2>3. QED
    BY <1>3, <2>1, <2>2, RequestingAdds
<1>4. CASE Publish
  <2>1. UNCHANGED srvLog /\ \E m \in Msg : verdict[m] = "none"
    BY <1>1, <1>4, PublishCases
  <2>2. ASSUME NEW code \in {"ok", "capacity", "state"}, Return(NextMsg, code)
        PROVE  /\ NextMsg \in Msg
               /\ verdict[NextMsg] = "none" /\ verdict'[NextMsg] = code
               /\ \A m \in Msg : m # NextMsg => verdict'[m] = verdict[m]
               /\ \A m \in Msg : verdict[m] # "none" => m < NextMsg
    BY <1>1, <2>1, <2>2, ReturnInTurn DEF TypeInv
  <2>3. CASE UNCHANGED <<pend, ring, queued, verdict>>
    BY <2>1, <2>3 DEF OutInv, Accepted, OrderedParts, Across, Known, InOrder
  <2>4. CASE /\ \E code \in {"capacity", "state"} : Return(NextMsg, code)
             /\ UNCHANGED <<pend, ring, queued>>
    <3>1. /\ \A i \in DOMAIN srvLog : srvLog[i] \in Msg
          /\ \A i \in DOMAIN ring : ring[i] \in Frame
          /\ queued \subseteq Msg
      BY <1>1 DEF QueuesOK
    <3>2. \A m \in Msg : Known(m) => Known(m)'
      BY <2>2, <2>4 DEF Known
    <3>3. \A i \in DOMAIN ring : ring[i].msg = 0 \/ ring[i].msg \in Msg
      BY <3>1, FrameFields
    <3>4. Accepted'
      <4>1. \A i \in DOMAIN ring : Known(ring[i].msg)'
        BY <2>4, <3>2, <3>3 DEF OutInv, Accepted, Known
      <4>2. /\ \A i \in DOMAIN srvLog : Known(srvLog[i])'
            /\ \A m \in queued : Known(m)'
        BY <2>1, <2>4, <3>1, <3>2 DEF OutInv, Accepted
      <4>3. QED
        BY <2>1, <2>4, <4>1, <4>2 DEF OutInv, Accepted
    <3>5. QED
      BY <2>1, <2>4, <3>4 DEF OutInv, OrderedParts, Across, InOrder
  <2>5. CASE /\ Return(NextMsg, "ok") /\ UNCHANGED ring
             /\ Len(pend) < PendRoom /\ pend' = Append(pend, NextMsg)
             /\ queued' = queued \cup {NextMsg}
    BY <1>1, <2>1, <2>2, <2>5, OutQueued
  <2>6. CASE /\ Return(NextMsg, "ok") /\ UNCHANGED <<pend, queued>>
             /\ Len(ring) # RingRoom /\ ring' = Append(ring, Message(NextMsg))
    BY <1>1, <2>1, <2>2, <2>6, OutDirect
  <2>7. QED
    BY <1>1, <1>4, <2>3, <2>4, <2>5, <2>6, PublishCases
<1>5. CASE DrainSend \/ DrainFail \/ FlushPending
  <2>1. CASE /\ UNCHANGED pend /\ ring # << >> /\ ring' = Tail(ring)
             /\ \/ /\ Head(ring).kind = "MESSAGE"
                   /\ srvLog' = Append(srvLog, Head(ring).msg)
                \/ UNCHANGED srvLog
    <3>1. Head(ring) \in Frame /\ Head(ring) = ring[1] /\ 1 \in DOMAIN ring
      BY <1>1, <2>1, RingLoses
    <3>2. Head(ring).kind = "MESSAGE" => Head(ring).msg \in Msg
      BY <1>1, <3>1, FrameFields DEF QueuesOK, Numbered
    <3>3. QED
      BY <1>1, <1>5, <2>1, <3>2, MovingCases, OutDrained
  <2>2. CASE UNCHANGED <<pend, ring, srvLog>>
    BY <1>2, <1>5, <2>2, MovingCases DEF queueVars
  <2>3. CASE /\ UNCHANGED srvLog /\ pend # << >> /\ pend' = Tail(pend)
             /\ \/ UNCHANGED ring
                \/ /\ Len(ring) # RingRoom
                   /\ ring' = Append(ring, Message(Head(pend)))
    BY <1>1, <1>5, <2>3, MovingCases, OutFlushed
  <2>4. QED
    BY <1>5, <2>1, <2>2, <2>3, MovingCases
<1>6. QED
  BY <1>2, <1>3, <1>4, <1>5, NextCases

\* Where the places of three sequences, one behind the other, come from.
LEMMA ThreeParts ==
  ASSUME NEW S, NEW T, NEW a \in Seq(S), NEW b \in Seq(T), NEW c \in Seq(S),
         NEW i \in DOMAIN (a \o b \o c)
  PROVE  \/ i \in DOMAIN a /\ (a \o b \o c)[i] = a[i]
         \/ /\ i > Len(a) /\ i - Len(a) \in DOMAIN b
            /\ (a \o b \o c)[i] = b[i - Len(a)]
         \/ /\ i > Len(a) + Len(b) /\ i - Len(a) - Len(b) \in DOMAIN c
            /\ (a \o b \o c)[i] = c[i - Len(a) - Len(b)]
OBVIOUS

LEMMA OutboundParts ==
  ASSUME QueuesOK, NEW i \in DOMAIN Outbound
  PROVE  \/ i \in DOMAIN srvLog /\ Outbound[i] = srvLog[i]
         \/ /\ i > Len(srvLog) /\ i - Len(srvLog) \in DOMAIN ring
            /\ Outbound[i] = ring[i - Len(srvLog)].msg
         \/ /\ i > Len(srvLog) + Len(ring)
            /\ i - Len(srvLog) - Len(ring) \in DOMAIN pend
            /\ Outbound[i] = pend[i - Len(srvLog) - Len(ring)]
<1> DEFINE nums == [k \in DOMAIN ring |-> ring[k].msg]
<1>1. ring \in Seq(Frame) /\ srvLog \in Seq(Msg) /\ pend \in Seq(Msg)
  BY DEF QueuesOK
<1>2. Msg \subseteq Nat /\ \A k \in DOMAIN ring : ring[k].msg \in Nat
  <2>1. \A k \in DOMAIN ring : ring[k] \in Frame
    BY <1>1
  <2>2. QED
    BY <2>1, FrameFields
<1>3. nums \in Seq(Nat) /\ Len(nums) = Len(ring) /\ DOMAIN nums = DOMAIN ring
  BY <1>1, <1>2
<1>4. \A k \in DOMAIN ring : nums[k] = ring[k].msg
  OBVIOUS
<1>5. Outbound = srvLog \o nums \o pend
  BY DEF Outbound
<1> HIDE DEF nums
<1>6. QED
  BY <1>1, <1>3, <1>4, <1>5, ThreeParts

LEMMA OutInvImplies ==
  ASSUME QueuesOK, OutInv
  PROVE  RefusedNeverSent /\ OrderOnEachPath
<1>1. \A i \in DOMAIN Outbound : Known(Outbound[i])
  BY OutboundParts DEF OutInv, Accepted
<1>2. RefusedNeverSent
  BY <1>1, FrameFields DEF RefusedNeverSent, Range, Known
<1>3. ASSUME NEW i \in DOMAIN Outbound, NEW j \in DOMAIN Outbound, i < j
      PROVE  InOrder(Outbound[i], Outbound[j])
  <2> DEFINE a == Len(srvLog)
             b == Len(ring)
  <2>1. /\ DOMAIN srvLog = 1 .. a /\ DOMAIN ring = 1 .. b
        /\ DOMAIN pend = 1 .. Len(pend)
        /\ a \in Nat /\ b \in Nat /\ Len(pend) \in Nat
    BY DEF QueuesOK
  <2>2. i \in Nat /\ j \in Nat
    BY DEF Outbound
  <2>3. CASE i \in DOMAIN srvLog /\ Outbound[i] = srvLog[i]
    BY <1>3, <2>2, <2>3, OutboundParts DEF OutInv, OrderedParts, Across
  <2>4. CASE /\ i > a /\ i - a \in DOMAIN ring
             /\ Outbound[i] = ring[i - a].msg
    <3>1. j \notin DOMAIN srvLog
      BY <1>3, <2>1, <2>2, <2>4
    <3>2. CASE /\ j - a \in DOMAIN ring /\ Outbound[j] = ring[j - a].msg
      <4>1. i - a < j - a
        BY <1>3, <2>1, <2>2
      <4>2. QED
        BY <2>4, <3>2, <4>1 DEF OutInv, OrderedParts
    <3>3. QED
      BY <2>4, <3>1, <3>2, OutboundParts DEF OutInv, Across
  <2>5. CASE /\ i > a + b /\ i - a - b \in DOMAIN pend
             /\ Outbound[i] = pend[i - a - b]
    <3>1. j \notin DOMAIN srvLog /\ j - a \notin DOMAIN ring
      BY <1>3, <2>1, <2>2, <2>5
    <3>2. i - a - b < j - a - b
      BY <1>3, <2>1, <2>2
    <3>3. QED
      BY <2>5, <3>1, <3>2, OutboundParts DEF OutInv, OrderedParts
  <2>6. QED
    BY <2>3, <2>4, <2>5, OutboundParts
<1>4. QED
  BY <1>2, <1>3 DEF OrderOnEachPath

LEMMA OutInit == Init => OutInv
BY DEF Init, OutInv, Accepted, OrderedParts, Across, Known

\* Nothing publish() refused is ever queued or sent.
THEOREM RefusalIsFinal == Spec => []RefusedNeverSent
<1>1. TypeInv /\ OutInv /\ [Next]_vars => TypeInv' /\ OutInv'
  BY TypeStep, OutStep
<1>2. TypeInv /\ OutInv => RefusedNeverSent
  BY OutInvImplies DEF TypeInv, TypeOK, QueuesOK
<1>3. QED
  BY TypeInit, OutInit, <1>1, <1>2, PTL DEF Spec

\* Messages keep their order on each of the two paths, through full queues,
\* flushes, lost frames and lost connections.
THEOREM PathsKeepOrder == Spec => []OrderOnEachPath
<1>1. TypeInv /\ OutInv /\ [Next]_vars => TypeInv' /\ OutInv'
  BY TypeStep, OutStep
<1>2. TypeInv /\ OutInv => OrderOnEachPath
  BY OutInvImplies DEF TypeInv, TypeOK, QueuesOK
<1>3. QED
  BY TypeInit, OutInit, <1>1, <1>2, PTL DEF Spec

(* Part 3: what the client and the server believe of each other.           *)

Offline == {"dial", "lost", "onDisconnect", "exited"}

\* With no connection nothing arrives.
OfflineIsSilent == svc \in Offline => inbox = << >>

\* A failed client has handled its greeting, and does not dial again.
FailedIsFinal ==
  link = "failed" => /\ svc \notin {"dial", "lost", "onDisconnect"}
                     /\ \A i \in DOMAIN inbox : inbox[i] # "CONNECTED"

\* The greeting is the first frame of a connection.
GreetedFirst == \A i \in DOMAIN inbox : inbox[i] = "CONNECTED" => i = 1

\* An answer ATTACHED that no longer holds is followed by the news.
NewsFollows ==
  ~srvAtt => \A i \in DOMAIN inbox : inbox[i] = "ATTACHED" =>
                \E j \in DOMAIN inbox : i < j /\ inbox[j] \in News

DialNotAttached == svc = "dial" => cst # "ATTACHED"

Requested == \E i \in DOMAIN ring : ring[i].kind = "ATTACH"

\* An attach request or its answer is on the way, or the answer has been swallowed,
\* or the state is about to be changed by the handling of a loss.
AttachingHasCause ==
  /\ cst = "ATTACHING" =>
       \/ unasked \/ swallowed \/ Asked
       \/ svc \in {"lost", "onDisconnect"} \/ link = "failed"
  /\ svc = "setAttaching" => unasked \/ Requested

BeliefInv == /\ OfflineIsSilent /\ FailedIsFinal /\ GreetedFirst
             /\ NewsFollows /\ DialNotAttached
             /\ AttachedIsConfirmed /\ AttachingHasCause

\* What happens to the frames that arrive: they stay, the oldest is handled, an
\* answer of the server joins them, or the connection comes or goes.
LEMMA InboxCases ==
  ASSUME [Next]_vars
  PROVE  \/ UNCHANGED <<inbox, srvAtt>>
         \/ UNCHANGED srvAtt /\ svc = "loop" /\ inbox # << >> /\ inbox' = Tail(inbox)
         \/ srvAtt' = TRUE /\ svc = "loop" /\ inbox' = Append(inbox, "ATTACHED")
         \/ /\ srvAtt' = FALSE /\ svc \notin {"dial", "lost", "onDisconnect", "exited"}
            /\ \E a \in News : inbox' = Append(inbox, a)
         \/ srvAtt' = FALSE /\ inbox' = << >>
         \/ srvAtt' = FALSE /\ inbox' = <<"CONNECTED">> /\ svc = "dial"
<1> USE DEF chanVars, appVars, srvVars
<1>1. CASE Control \/ Publish
  BY <1>1, Zenon DEF Control, AttachBegin, AttachConn, AttachSend, AttachSet,
       DetachBegin, DetachSend, DetachSet, CtlSend, CtlSet, Publish,
       PublishBegin, PublishInto, PublishSend
<1>2. CASE DrainSend
  BY <1>2, Zenon DEF DrainSend, News
<1>3. CASE Service /\ ~DrainSend
  BY <1>3, Zenon DEF Service, Dial, SetDisconnected, OnDisconnect, RecvConnected,
       ReattachSend, SetAttaching, RecvAttached, FlushPending, RecvDetached,
       RecvRefused, RecvError, RecvMild, Exit, Handle
<1>4. CASE Environment
  BY <1>4, Zenon DEF Environment, Drop, DrainFail, ServerEvent, News
<1>5. CASE UNCHANGED vars
  BY <1>5, Zenon DEF vars
<1>6. QED
  BY <1>1, <1>2, <1>3, <1>4, <1>5, Zenon DEF Next

LEMMA InboxOrder ==
  ASSUME TypeInv, GreetedFirst, NewsFollows, OfflineIsSilent, [Next]_vars
  PROVE  GreetedFirst' /\ NewsFollows'
<1>1. inbox \in Seq(Answer)
  BY DEF TypeInv, TypeOK
<1>2. CASE UNCHANGED <<inbox, srvAtt>>
  BY <1>2 DEF GreetedFirst, NewsFollows
<1>3. CASE UNCHANGED srvAtt /\ inbox # << >> /\ inbox' = Tail(inbox)
  <2>1. \A i \in DOMAIN inbox' :
          i \in Nat \ {0} /\ i + 1 \in DOMAIN inbox /\ inbox'[i] = inbox[i + 1]
    BY <1>1, <1>3, AfterTail
  <2>2. \A i \in DOMAIN inbox : 
          i \in Nat /\ (i > 1 => i - 1 \in DOMAIN inbox' /\ inbox'[i - 1] = inbox[i])
    BY <1>1, <1>3
  <2>3. GreetedFirst'
    BY <2>1 DEF GreetedFirst
  <2>4. ASSUME ~srvAtt, NEW i \in DOMAIN inbox', inbox'[i] = "ATTACHED"
        PROVE  \E j \in DOMAIN inbox' : i < j /\ inbox'[j] \in News
    <3>1. PICK j \in DOMAIN inbox : i + 1 < j /\ inbox[j] \in News
      BY <2>1, <2>4 DEF NewsFollows
    <3>2. j - 1 \in DOMAIN inbox' /\ i < j - 1 /\ inbox'[j - 1] \in News
      BY <2>1, <2>2, <3>1
    <3>3. QED
      BY <3>2
  <2>5. QED
    BY <1>3, <2>3, <2>4 DEF NewsFollows
<1>4. CASE \E a \in {"ATTACHED"} \cup News :
             /\ inbox' = Append(inbox, a)
             /\ srvAtt' = TRUE \/ a \in News
  <2>1. PICK a \in {"ATTACHED"} \cup News :
             /\ inbox' = Append(inbox, a)
             /\ srvAtt' = TRUE \/ a \in News
    BY <1>4
  <2>2. a \in Answer /\ a # "CONNECTED" /\ (a \in News => a # "ATTACHED")
    BY DEF Answer, News, Refusal, Errors
  <2>3. \A i \in DOMAIN inbox' :
          \/ i \in DOMAIN inbox /\ inbox'[i] = inbox[i]
          \/ i = Len(inbox) + 1 /\ inbox'[i] = a
    BY <1>1, <2>1, <2>2, AfterAppend
  <2>4. GreetedFirst'
    BY <2>2, <2>3 DEF GreetedFirst
  <2>5. Len(inbox) + 1 \in DOMAIN inbox' /\ inbox'[Len(inbox) + 1] = a
          /\ \A i \in DOMAIN inbox : i < Len(inbox) + 1
    BY <1>1, <2>1
  <2>6. NewsFollows'
    BY <2>1, <2>2, <2>3, <2>5 DEF NewsFollows
  <2>7. QED
    BY <2>4, <2>6
<1>5. CASE inbox' = << >>
  BY <1>5 DEF GreetedFirst, NewsFollows
<1>6. CASE inbox' = <<"CONNECTED">>
  BY <1>6 DEF GreetedFirst, NewsFollows
<1>7. QED
  BY <1>2, <1>3, <1>4, <1>5, <1>6, InboxCases

LEMMA OfflineStep ==
  ASSUME TypeInv, OfflineIsSilent, GreetedFirst, FailedIsFinal, DialNotAttached,
         [Next]_vars
  PROVE  OfflineIsSilent' /\ FailedIsFinal' /\ DialNotAttached'
<1> USE DEF Offline, chanVars, appVars, srvVars
<1>1. inbox \in Seq(Answer)
  BY DEF TypeInv, TypeOK
<1>2. inbox # << >> => \A i \in DOMAIN Tail(inbox) : Tail(inbox)[i] # "CONNECTED"
  BY <1>1, AfterTail DEF GreetedFirst
<1>3. \A a \in Answer : \A i \in DOMAIN Append(inbox, a) :
         (i \in DOMAIN inbox /\ Append(inbox, a)[i] = inbox[i]) \/ Append(inbox, a)[i] = a
  BY <1>1, AfterAppend
<1>4. /\ OfflineIsSilent' /\ DialNotAttached'
      /\ link' = "failed" => svc' \notin {"dial", "lost", "onDisconnect"}
      /\ link' = "failed" =>
           link = "failed" \/ (inbox # << >> /\ inbox' = Tail(inbox))
  BY DEF OfflineIsSilent, DialNotAttached, FailedIsFinal, Next, vars, Control,
     AttachBegin, AttachConn, AttachSend, AttachSet, DetachBegin, DetachSend,
     DetachSet, CtlSend, CtlSet, Publish, PublishBegin, PublishInto,
     PublishSend, Service, Dial, SetDisconnected, OnDisconnect, DrainSend,
     RecvConnected, ReattachSend, SetAttaching, RecvAttached, FlushPending,
     RecvDetached, RecvRefused, RecvError, RecvMild, Exit, Handle, Environment, Drop,
     DrainFail, ServerEvent
<1>5. link = "failed" => \A i \in DOMAIN inbox' : inbox'[i] # "CONNECTED"
  <2> SUFFICES ASSUME link = "failed"
               PROVE  \A i \in DOMAIN inbox' : inbox'[i] # "CONNECTED"
    OBVIOUS
  <2>1. svc # "dial" /\ \A i \in DOMAIN inbox : inbox[i] # "CONNECTED"
    BY DEF FailedIsFinal
  <2>2. ASSUME NEW a \in {"ATTACHED"} \cup News, inbox' = Append(inbox, a)
        PROVE  \A i \in DOMAIN inbox' : inbox'[i] # "CONNECTED"
    <3>1. a \in Answer /\ a # "CONNECTED"
      BY DEF Answer, News, Refusal, Errors
    <3>2. QED
      BY <1>3, <2>1, <2>2, <3>1
  <2>3. CASE inbox' = << >>
    BY <2>3
  <2>4. CASE inbox # << >> /\ inbox' = Tail(inbox)
    BY <1>2, <2>4
  <2>5. CASE UNCHANGED inbox
    BY <2>1, <2>5
  <2>6. \/ UNCHANGED inbox
        \/ inbox # << >> /\ inbox' = Tail(inbox)
        \/ inbox' = << >>
        \/ \E a \in {"ATTACHED"} \cup News : inbox' = Append(inbox, a)
    BY <2>1, InboxCases
  <2>7. QED
    BY <2>2, <2>3, <2>4, <2>5, <2>6
<1>6. FailedIsFinal'
  BY <1>2, <1>4, <1>5 DEF FailedIsFinal
<1>7. QED
  BY <1>4, <1>6

\* A frame that is to come still is after the oldest is handled, or another has
\* joined.
LEMMA ComingAfterTail ==
  ASSUME NEW q \in Seq(Answer), q # << >>, NEW A,
         NEW i \in DOMAIN q, q[i] \in A, i = 1 => q[1] \notin A
  PROVE  \E j \in DOMAIN Tail(q) : Tail(q)[j] \in A
<1>1. i - 1 \in DOMAIN Tail(q) /\ Tail(q)[i - 1] = q[i]
  OBVIOUS
<1>2. QED
  BY <1>1

LEMMA ComingAfterAppend ==
  ASSUME NEW q \in Seq(Answer), NEW a \in Answer, NEW A,
         a \in A \/ \E i \in DOMAIN q : q[i] \in A
  PROVE  \E i \in DOMAIN Append(q, a) : Append(q, a)[i] \in A
<1>1. Len(q) + 1 \in DOMAIN Append(q, a) /\ Append(q, a)[Len(q) + 1] = a
  OBVIOUS
<1>2. \A i \in DOMAIN q : i \in DOMAIN Append(q, a) /\ Append(q, a)[i] = q[i]
  OBVIOUS
<1>3. QED
  BY <1>1, <1>2

LEMMA AttachedStep ==
  ASSUME TypeInv, BeliefInv, [Next]_vars
  PROVE  AttachedIsConfirmed'
<1> USE DEF chanVars, appVars, srvVars
<1> DEFINE Coming == \E i \in DOMAIN inbox : inbox[i] \in News
<1>1. inbox \in Seq(Answer) /\ News \subseteq Answer
  BY DEF TypeInv, TypeOK, Answer
<1>2. /\ FailedIsFinal /\ NewsFollows /\ DialNotAttached
      /\ cst = "ATTACHED" /\ ~srvAtt =>
           \/ Coming \/ svc \in {"lost", "onDisconnect"} \/ link = "failed"
           \/ swallowed
  BY DEF BeliefInv, AttachedIsConfirmed
<1> SUFFICES ASSUME cst' = "ATTACHED", ~srvAtt', ~swallowed'
             PROVE  Coming' \/ svc' \in {"lost", "onDisconnect"} \/ link' = "failed"
  BY DEF AttachedIsConfirmed
<1>3. ASSUME NEW a, Handle(a)
      PROVE  /\ inbox # << >> /\ inbox' = Tail(inbox) /\ inbox[1] = a
             /\ 1 \in DOMAIN inbox /\ svc = "loop"
  BY <1>1, <1>3, AfterTail DEF Handle
<1>4. ASSUME NEW a \in News, inbox' = Append(inbox, a)
      PROVE  Coming'
  BY <1>1, <1>4, ComingAfterAppend
<1>5. CASE RecvAttached
  <2>1. ~srvAtt /\ Handle("ATTACHED")
    BY <1>5 DEF RecvAttached
  <2>2. PICK j \in DOMAIN inbox : 1 < j /\ inbox[j] \in News
    BY <1>2, <1>3, <2>1 DEF NewsFollows
  <2>3. QED
    BY <1>1, <1>3, <2>1, <2>2, ComingAfterTail
<1>6. CASE RecvConnected
  <2>1. ~srvAtt /\ cst = "ATTACHED" /\ ~swallowed /\ Handle("CONNECTED")
    BY <1>6 DEF RecvConnected
  <2>2. link # "failed" /\ Coming
    BY <1>2, <1>3, <2>1 DEF FailedIsFinal
  <2>3. "CONNECTED" \notin News
    BY DEF News, Refusal, Errors
  <2>4. QED
    BY <1>1, <1>3, <2>1, <2>2, <2>3, ComingAfterTail
<1>7. CASE DrainSend \/ ServerEvent
  <2>1. CASE \E a \in News : inbox' = Append(inbox, a)
    BY <1>4, <2>1
  <2>2. CASE UNCHANGED <<inbox, srvAtt>>
    BY <1>2, <1>7, <2>2 DEF DrainSend, ServerEvent
  <2>3. (\E a \in News : inbox' = Append(inbox, a)) \/ UNCHANGED <<inbox, srvAtt>>
    BY <1>7, Zenon DEF DrainSend, ServerEvent, News
  <2>4. QED
    BY <2>1, <2>2, <2>3
<1>8. CASE Drop \/ DrainFail \/ SetDisconnected \/ Dial \/ Exit \/ RecvError
  BY <1>2, <1>8 DEF Drop, DrainFail, SetDisconnected, Dial, Exit, RecvError,
     DialNotAttached
<1>9. CASE OnDisconnect \/ SetAttaching \/ RecvDetached \/ RecvRefused
             \/ RecvMild \/ AttachSet \/ DetachSet
  BY <1>9 DEF OnDisconnect, SetAttaching, RecvDetached, RecvRefused, RecvMild,
     AttachSet, DetachSet, CtlSet
<1>10. CASE \/ AttachBegin \/ AttachConn \/ AttachSend \/ DetachBegin
            \/ DetachSend \/ Publish \/ ReattachSend \/ FlushPending
            \/ UNCHANGED vars
  <2>1. UNCHANGED <<cst, srvAtt, inbox, link, swallowed>>
    BY <1>10 DEF AttachBegin, AttachConn, AttachSend, DetachBegin, DetachSend,
       CtlSend, Publish, PublishBegin, PublishInto, PublishSend, ReattachSend,
       FlushPending, vars
  <2>2. svc \in {"lost", "onDisconnect"} => UNCHANGED svc
    BY <1>10 DEF AttachBegin, AttachConn, AttachSend, DetachBegin, DetachSend,
       CtlSend, Publish, PublishBegin, PublishInto, PublishSend, ReattachSend,
       FlushPending, vars
  <2>3. QED
    BY <1>2, <2>1, <2>2
<1>11. QED
  BY <1>5, <1>6, <1>7, <1>8, <1>9, <1>10
  DEF Next, Control, Service, Environment

\* A request in the ring stays there while frames join it, and is not behind the
\* oldest frame only.
LEMMA RequestedStays ==
  ASSUME NEW q \in Seq(Frame), \E i \in DOMAIN q : q[i].kind = "ATTACH"
  PROVE  /\ \A f \in Frame :
              \E i \in DOMAIN Append(q, f) : Append(q, f)[i].kind = "ATTACH"
         /\ q # << >> /\ Head(q).kind # "ATTACH" =>
              \E i \in DOMAIN Tail(q) : Tail(q)[i].kind = "ATTACH"
<1>1. PICK i \in DOMAIN q : q[i].kind = "ATTACH"
  OBVIOUS
<1>2. \A f \in Frame : i \in DOMAIN Append(q, f) /\ Append(q, f)[i] = q[i]
  OBVIOUS
<1>3. ASSUME q # << >>, Head(q).kind # "ATTACH"
      PROVE  i - 1 \in DOMAIN Tail(q) /\ Tail(q)[i - 1] = q[i]
  <2>1. i # 1
    BY <1>1, <1>3
  <2>2. QED
    BY <1>3, <2>1
<1>4. QED
  BY <1>1, <1>2, <1>3

\* The ring, where no frame is taken off it.
LEMMA RingCases ==
  ASSUME TypeInv, [Next]_vars
  PROVE  \/ DrainSend \/ DrainFail \/ UNCHANGED ring
         \/ \E f \in Frame : ring' = Append(ring, f)
<1>1. QueuesOK /\ InTurn
  BY DEF TypeInv, TypeOK, QueuesOK
<1>2. CASE UNCHANGED queueVars
  BY <1>2 DEF queueVars
<1>3. CASE Requesting
  BY <1>3, RequestingAdds, FrameFields
<1>4. CASE Publish
  <2>1. NextMsg \in Msg
    BY <1>1, <1>4, PublishCases, NextNumber DEF InTurn
  <2>2. QED
    BY <1>1, <1>4, <2>1, PublishCases, FrameFields
<1>5. CASE FlushPending
  <2>1. pend # << >> => Head(pend) \in Msg
    BY <1>1 DEF QueuesOK
  <2>2. QED
    BY <1>5, <2>1, FrameFields DEF FlushPending
<1>6. QED
  BY <1>2, <1>3, <1>4, <1>5, NextCases

\* Whether ATTACHING was set with nothing to come is forgotten only when the
\* state changes.
LEMMA UnaskedCases ==
  ASSUME [Next]_vars, unasked
  PROVE  unasked' \/ OnDisconnect \/ RecvAttached
BY Zenon DEF Next, vars, chanVars, Control, AttachBegin, AttachConn, AttachSend,
   AttachSet, DetachBegin, DetachSend, DetachSet, CtlSend, CtlSet, Publish,
   PublishBegin, PublishInto, PublishSend, Service, Dial, SetDisconnected,
   DrainSend, RecvConnected, ReattachSend, SetAttaching, FlushPending,
   RecvDetached, RecvRefused, RecvError, RecvMild, Exit, Environment, Drop, DrainFail,
   ServerEvent

\* That an ERROR was swallowed is forgotten in the same way.
LEMMA SwallowedCases ==
  ASSUME [Next]_vars, swallowed
  PROVE  swallowed' \/ OnDisconnect \/ RecvAttached \/ RecvDetached \/ RecvRefused
BY Zenon DEF Next, vars, chanVars, Control, AttachBegin, AttachConn, AttachSend,
   AttachSet, DetachBegin, DetachSend, DetachSet, CtlSend, CtlSet, Publish,
   PublishBegin, PublishInto, PublishSend, Service, Dial, SetDisconnected,
   DrainSend, RecvConnected, ReattachSend, SetAttaching, FlushPending,
   RecvError, RecvMild, Exit, Environment, Drop, DrainFail, ServerEvent

\* What is done to the state, by whom.
LEMMA StateCases ==
  ASSUME [Next]_vars
  PROVE  \/ AttachSet \/ DetachSet \/ OnDisconnect \/ SetAttaching
         \/ RecvAttached \/ RecvDetached \/ RecvRefused
         \/ UNCHANGED cst
BY Zenon DEF Next, vars, chanVars, Control, AttachBegin, AttachConn, AttachSend,
   DetachBegin, DetachSend, CtlSend, Publish, PublishBegin, PublishInto,
   PublishSend, Service, Dial, SetDisconnected, DrainSend, RecvConnected,
   ReattachSend, FlushPending, RecvError, RecvMild, Exit, Environment, Drop, DrainFail,
   ServerEvent

\* An attach request on its way, or its answer, is there until it is handled or
\* the connection is gone.
LEMMA AskedStep ==
  ASSUME TypeInv, BeliefInv, [Next]_vars, Asked, ~RecvAttached, ~RecvRefused,
         ~RecvMild
  PROVE  Asked' \/ svc' = "lost" \/ link' = "failed"
<1> DEFINE Replies == {"ATTACHED"} \cup Refusal
           Replied == \E i \in DOMAIN inbox : inbox[i] \in Replies
<1>1. inbox \in Seq(Answer) /\ ring \in Seq(Frame)
  BY DEF TypeInv, TypeOK
<1>2. Asked = (Requested \/ Replied)
  BY DEF Asked, Requested
<1>3. Requested' \/ Replied' => Asked'
  BY DEF Asked, Requested
<1>4. CASE Requested
  <2>1. CASE UNCHANGED ring
    BY <1>3, <1>4, <2>1 DEF Requested
  <2>2. ASSUME NEW f \in Frame, ring' = Append(ring, f)
        PROVE  Asked'
    BY <1>1, <1>3, <1>4, <2>2, RequestedStays DEF Requested
  <2>3. CASE DrainFail
    BY <2>3 DEF DrainFail
  <2>4. CASE DrainSend
    <3>1. CASE Head(ring).kind = "ATTACH"
      <4>1. \E a \in Replies : inbox' = Append(inbox, a)
        BY <2>4, <3>1 DEF DrainSend
      <4>2. Replies \subseteq Answer
        BY DEF Answer, News
      <4>3. Replied'
        BY <1>1, <4>1, <4>2, ComingAfterAppend
      <4>4. QED
        BY <1>3, <4>3
    <3>2. CASE Head(ring).kind # "ATTACH"
      <4>1. ring # << >> /\ ring' = Tail(ring)
        BY <2>4 DEF DrainSend
      <4>2. Requested'
        BY <1>1, <1>4, <3>2, <4>1, RequestedStays DEF Requested
      <4>3. QED
        BY <1>3, <4>2
    <3>3. QED
      BY <3>1, <3>2
  <2>5. QED
    BY <2>1, <2>2, <2>3, <2>4, RingCases
<1>5. CASE Replied
  <2>1. \/ UNCHANGED inbox
        \/ \E a \in {"ATTACHED"} \cup News : inbox' = Append(inbox, a)
        \/ \E a \in {"CONNECTED", "DETACHED"} : Handle(a)
        \/ svc' = "lost" \/ svc = "dial" \/ link' = "failed"
        \/ link = "failed" /\ UNCHANGED link
    BY Zenon DEF Next, vars, chanVars, appVars, srvVars, Control, AttachBegin,
       AttachConn, AttachSend, AttachSet, DetachBegin, DetachSend, DetachSet,
       CtlSend, CtlSet, Publish, PublishBegin, PublishInto, PublishSend,
       Service, Dial, SetDisconnected, OnDisconnect, DrainSend, RecvConnected,
       ReattachSend, SetAttaching, FlushPending, RecvDetached, RecvError, RecvMild, Exit,
       Environment, Drop, DrainFail, ServerEvent, News
  <2>2. CASE UNCHANGED inbox
    BY <1>3, <1>5, <2>2
  <2>3. ASSUME NEW a \in {"ATTACHED"} \cup News, inbox' = Append(inbox, a)
        PROVE  Asked'
    <3>1. a \in Answer
      BY DEF Answer
    <3>2. QED
      BY <1>1, <1>3, <1>5, <2>3, <3>1, ComingAfterAppend
  <2>4. ASSUME NEW a \in {"CONNECTED", "DETACHED"}, Handle(a)
        PROVE  Asked'
    <3>1. /\ inbox # << >> /\ inbox' = Tail(inbox) /\ inbox[1] = a
      BY <1>1, <2>4, AfterTail DEF Handle
    <3>2. a \notin Replies
      BY DEF Refusal, Errors
    <3>3. QED
      BY <1>1, <1>3, <1>5, <3>1, <3>2, ComingAfterTail
  <2>5. svc # "dial"
    BY <1>1, <1>5 DEF BeliefInv, OfflineIsSilent, Offline
  <2>6. QED
    BY <2>1, <2>2, <2>3, <2>4, <2>5
<1>6. QED
  BY <1>2, <1>4, <1>5

LEMMA AttachingStep ==
  ASSUME TypeInv, BeliefInv, [Next]_vars
  PROVE  AttachingHasCause'
<1> USE DEF chanVars, appVars, srvVars
<1>1. /\ ring \in Seq(Frame) /\ AttachingHasCause /\ FailedIsFinal
      /\ inbox \in Seq(Answer)
  BY DEF TypeInv, TypeOK, BeliefInv
<1>2. svc' = "setAttaching" => unasked' \/ Requested'
  <2> SUFFICES ASSUME svc' = "setAttaching"
               PROVE  unasked' \/ Requested'
    OBVIOUS
  <2>1. CASE ReattachSend
    <3>1. CASE RingFull
      BY <2>1, <3>1, Zenon DEF ReattachSend
    <3>2. CASE ~RingFull
      <4>1. ring' = Append(ring, Request("ATTACH")) /\ Request("ATTACH") \in Frame
              /\ Request("ATTACH").kind = "ATTACH"
        BY <2>1, <3>2, FrameFields DEF ReattachSend
      <4>2. Len(ring) + 1 \in DOMAIN ring' /\ ring'[Len(ring) + 1].kind = "ATTACH"
        BY <1>1, <4>1
      <4>3. QED
        BY <4>2 DEF Requested
    <3>3. QED
      BY <3>1, <3>2
  <2>2. CASE ~ReattachSend
    <3>1. svc = "setAttaching" /\ ~DrainSend /\ ~DrainFail
      BY <2>2 DEF Next, vars, Control, AttachBegin, AttachConn, AttachSend,
         AttachSet, DetachBegin, DetachSend, DetachSet, CtlSend, CtlSet,
         Publish, PublishBegin, PublishInto, PublishSend, Service, Dial,
         SetDisconnected, OnDisconnect, DrainSend, RecvConnected, SetAttaching,
         RecvAttached, FlushPending, RecvDetached, RecvRefused, RecvError, RecvMild, Exit,
         Handle, Environment, Drop, DrainFail, ServerEvent
    <3>2. unasked => unasked'
      BY <3>1, UnaskedCases DEF OnDisconnect, RecvAttached, Handle
    <3>3. Requested => Requested'
      BY <1>1, <3>1, RingCases, RequestedStays DEF Requested
    <3>4. QED
      BY <1>1, <3>1, <3>2, <3>3, Zenon DEF AttachingHasCause
  <2>3. QED
    BY <2>1, <2>2
<1>3. cst' = "ATTACHING" =>
        \/ unasked' \/ swallowed' \/ Asked'
        \/ svc' \in {"lost", "onDisconnect"} \/ link' = "failed"
  <2> SUFFICES ASSUME cst' = "ATTACHING", ~unasked', ~swallowed'
               PROVE  Asked' \/ svc' \in {"lost", "onDisconnect"} \/ link' = "failed"
    OBVIOUS
  <2>1. CASE AttachSet
    BY <2>1, Zenon DEF AttachSet, CtlSet, Asked
  <2>2. CASE SetAttaching
    <3>1. Requested /\ UNCHANGED ring
      BY <1>1, <2>2, Zenon DEF SetAttaching, AttachingHasCause
    <3>2. QED
      BY <3>1 DEF Requested, Asked
  <2>3. CASE UNCHANGED cst /\ ~RecvAttached /\ ~RecvRefused
    <3>1. ~unasked /\ ~swallowed /\ ~RecvMild
      BY <2>3, UnaskedCases, SwallowedCases DEF OnDisconnect, RecvDetached, RecvMild
    <3>2. Asked \/ svc \in {"lost", "onDisconnect"} \/ link = "failed"
      BY <1>1, <2>3, <3>1 DEF AttachingHasCause
    <3>3. CASE Asked
      BY <2>3, <3>1, <3>3, AskedStep
    <3>4. CASE svc \in {"lost", "onDisconnect"}
      BY <2>3, <3>4 DEF Next, vars, Control, AttachBegin, AttachConn,
         AttachSend, AttachSet, DetachBegin, DetachSend, DetachSet, CtlSend,
         CtlSet, Publish, PublishBegin, PublishInto, PublishSend, Service, Dial,
         SetDisconnected, OnDisconnect, DrainSend, RecvConnected, ReattachSend,
         SetAttaching, FlushPending, RecvDetached, RecvError, RecvMild, Exit, Handle,
         Environment, Drop, DrainFail, ServerEvent
    <3>5. CASE link = "failed"
      <4>1. ~RecvConnected /\ ~SetDisconnected
        BY <1>1, <3>5, AfterTail DEF FailedIsFinal, RecvConnected, Handle,
           SetDisconnected
      <4>2. QED
        BY <2>3, <3>5, <4>1 DEF Next, vars, Control, AttachBegin, AttachConn,
           AttachSend, AttachSet, DetachBegin, DetachSend, DetachSet, CtlSend,
           CtlSet, Publish, PublishBegin, PublishInto, PublishSend, Service,
           Dial, OnDisconnect, DrainSend, ReattachSend, SetAttaching,
           FlushPending, RecvDetached, RecvError, RecvMild, Exit, Environment, Drop,
           DrainFail, ServerEvent
    <3>6. QED
      BY <3>2, <3>3, <3>4, <3>5
  <2>4. CASE DetachSet \/ OnDisconnect \/ RecvAttached \/ RecvDetached \/ RecvRefused
    BY <2>4 DEF DetachSet, CtlSet, OnDisconnect, RecvAttached, RecvDetached,
       RecvRefused
  <2>5. QED
    BY <2>1, <2>2, <2>3, <2>4, StateCases
<1>4. QED
  BY <1>2, <1>3 DEF AttachingHasCause

LEMMA BeliefStep ==
  ASSUME TypeInv, BeliefInv, [Next]_vars
  PROVE  BeliefInv'
BY InboxOrder, OfflineStep, AttachedStep, AttachingStep DEF BeliefInv

LEMMA BeliefInit == Init => BeliefInv
BY DEF Init, BeliefInv, OfflineIsSilent, FailedIsFinal, GreetedFirst,
   NewsFollows, DialNotAttached, AttachedIsConfirmed, AttachingHasCause

\* The client believes a channel attached only if the server agrees, the news
\* that it does not is on its way, a loss is being handled, or the server's last
\* word was an ERROR that is not fatal, which no channel hears of.
THEOREM AttachedIsTrue == Spec => []AttachedIsConfirmed
<1>1. TypeInv /\ BeliefInv /\ [Next]_vars => TypeInv' /\ BeliefInv'
  BY TypeStep, BeliefStep
<1>2. BeliefInv => AttachedIsConfirmed
  BY DEF BeliefInv
<1>3. QED
  BY TypeInit, BeliefInit, <1>1, <1>2, PTL DEF Spec

\* A channel is left ATTACHING with nothing to come only where the code set that
\* state behind the answer, or found no room for the request, or where the answer
\* was an ERROR that is not fatal, which no channel hears of.
THEOREM AttachingEnds == Spec => []AttachingIsAnswered
<1>1. TypeInv /\ BeliefInv /\ [Next]_vars => TypeInv' /\ BeliefInv'
  BY TypeStep, BeliefStep
<1>2. BeliefInv => AttachingIsAnswered
  BY DEF BeliefInv, AttachingHasCause, AttachingIsAnswered, Quiet, Asked
<1>3. QED
  BY TypeInit, BeliefInit, <1>1, <1>2, PTL DEF Spec

=============================================================================
