------------------------------- MODULE Receive -------------------------------
(***************************************************************************)
(* What a channel does with what it receives: the subscribers, the         *)
(* dispatch of MESSAGE frames with sub_mutex released around every         *)
(* callback, the two alternating buffers of the delta decoder, and the     *)
(* recovery of a gap from the history after a reconnection.                *)
(*                                                                         *)
(* The service thread is one sequence of critical sections; subscribe()    *)
(* and unsubscribe() come between them, from other threads or from the     *)
(* callback that is running.  A message is its number on the channel and a *)
(* payload is the message it is the text of.  The server, the history      *)
(* service and what VCDIFF makes of a wrong base are external.             *)
(***************************************************************************)
EXTENDS Integers, Sequences, FiniteSets, FiniteSetsExt

CONSTANTS
  Slots,      \* ABLY_MAX_SUBSCRIBERS_PER_CHANNEL
  PageSize,   \* messages of a page of the history: 100
  MaxPages,   \* pages of one recovery: 50
  BodiesOf,   \* per message, the kinds of payload it may have, out of AllBodies
  FiltersOf,  \* per token, the name filters it may have; "" is none
  MaxMsg,     \* bound: messages published
  MaxSubs,    \* bound: calls of subscribe()
  MaxWire,    \* bound: frames on their way to the client
  MaxFaults   \* bound: lost connections and failed history requests

\* Text; binary, sent as base64; and text of ABLY_MAX_MESSAGE_DATA_LEN or more.
AllBodies == {"text", "binary", "large"}

ASSUME ReceiveAssumption ==
  /\ Slots \in Nat \ {0} /\ PageSize \in Nat \ {0} /\ MaxPages \in Nat \ {0}
  /\ BodiesOf \in [1 .. MaxMsg -> SUBSET AllBodies]
  /\ FiltersOf \in [1 .. MaxSubs -> SUBSET {"", "a", "b"}]
  /\ MaxMsg \in Nat /\ MaxSubs \in Nat /\ MaxWire \in Nat
  /\ MaxFaults \in Nat

Msg     == 1 .. MaxMsg
Token   == 1 .. MaxSubs
NoSerial == -1                  \* an empty channel_serial or cursor
Serials == NoSerial .. MaxMsg   \* the number of the last message it covers

\* Names alternate along the channel; the filter "" lets everything through.
NameOf(m) == IF m % 2 = 1 THEN "a" ELSE "b"
Passes(filter, m) == filter \in {"", NameOf(m)}

\* What a payload is: the text of a message, base64 that nobody decoded, what a
\* delta made of a wrong base, or nothing.
Payload == [of : 0 .. MaxMsg, form : {"clear", "encoded", "garbled", "none"},
            conn : Nat]
NoPayload == [of |-> 0, form |-> "none", conn |-> 0]

VARIABLES
  published,      \* bodies of the messages of the channel, oldest first
  srvAtt, srvPos, \* the channel is attached; last message sent to the client
  srvFresh,       \* nothing was sent since the ATTACHED
  conn,           \* number of the connection
  wire,           \* frames on their way to the client
  state,          \* channel->state: "DETACHED", "ATTACHING" or "ATTACHED"
  channel_serial,
  delta_enabled,
  delta_bufs, delta_buf_idx,  \* a length of 0 is the buffer with no payload
  subscribers,    \* per slot: token and filter; token 0 is a free slot
  next_token,
  pc,             \* "idle", "frame", "fetch", "page" or "callback"
  work,           \* messages of the frame, or of the page, still to dispatch
  cur,            \* the dispatch that is going on: slot, token, message, data
  cursor, pages,  \* of rt_recover_gap
  live_from,      \* the message behind which the attachment started
  faults,
  since,          \* history: messages published before the token was given
  got,            \* history: per token in use, what its callback was given
  holes,          \* history: messages dropped, cut off by a break or not fetched
  jumped,         \* history: messages the serial of an ATTACHED jumped over
  applied         \* history: [delta, base] connections of the decoded deltas

lostVars == <<holes, jumped>>
srvVars == <<published, srvAtt, srvPos, srvFresh, conn>>
deltaVars == <<delta_enabled, delta_bufs, delta_buf_idx, applied>>
subVars == <<subscribers, next_token, since>>
gapVars == <<cursor, pages, live_from>>
vars == <<srvVars, wire, state, channel_serial, deltaVars, subVars, pc, work, cur,
          gapVars, faults, got, lostVars>>

Free == [token |-> 0, filter |-> ""]
NoDispatch == [slot |-> 0, token |-> 0, msg |-> 0, live |-> FALSE, data |-> NoPayload]

\* ably_channel_create.
Init ==
  /\ published = <<>> /\ srvAtt = FALSE /\ srvPos = 0 /\ srvFresh = TRUE /\ conn = 0
  /\ wire = <<>> /\ state = "DETACHED" /\ channel_serial = NoSerial
  /\ delta_enabled = FALSE /\ delta_bufs = [b \in 0 .. 1 |-> NoPayload]
  /\ delta_buf_idx = 0 /\ applied = {}
  /\ subscribers = [i \in 1 .. Slots |-> Free] /\ next_token = 1
  /\ since = [t \in Token |-> 0]
  /\ pc = "idle" /\ work = <<>> /\ cur = NoDispatch
  /\ cursor = NoSerial /\ pages = 0 /\ live_from = 0 /\ faults = 0
  /\ got = [t \in Token |-> <<>>] /\ holes = {} /\ jumped = {}

-----------------------------------------------------------------------------
(* The server.                                                             *)

Publish ==
  /\ Len(published) < MaxMsg
  /\ \E b \in BodiesOf[Len(published) + 1] : published' = Append(published, b)
  /\ UNCHANGED <<srvAtt, srvPos, srvFresh, conn, wire, state, channel_serial,
                 deltaVars, subVars, pc, work, cur, gapVars, faults, got, lostVars>>

\* The ATTACH is answered.  The server resumes behind the serial it was sent,
\* or starts anew, or resumes with a backlog; ATTACHED may carry a serial.
ServerAttach ==
  /\ state = "ATTACHING" /\ ~srvAtt /\ wire = <<>>
  /\ srvAtt' = TRUE /\ srvFresh' = TRUE
  /\ \E resumed, backlog, named \in BOOLEAN :
       /\ resumed => channel_serial # NoSerial
       /\ backlog => resumed
       /\ LET pos == IF resumed /\ ~backlog THEN channel_serial ELSE Len(published)
          IN /\ srvPos' = pos
             /\ wire' = Append(wire, [kind |-> "ATTACHED",
                                      serial |-> IF named THEN pos ELSE NoSerial,
                                      resumed |-> resumed, backlog |-> backlog,
                                      from |-> pos])
  /\ UNCHANGED <<published, conn, state, channel_serial, deltaVars, subVars, pc,
                 work, cur, gapVars, faults, got, lostVars>>

\* A MESSAGE frame with the next one or two messages.  With delta on, every one
\* but the first of an attachment may be a delta to the message before it.
ServerSend ==
  /\ srvAtt /\ Len(wire) < MaxWire
  /\ \E n \in 1 .. 2 :
       /\ srvPos + n <= Len(published)
       /\ \E deltas \in [1 .. n -> BOOLEAN] :
            /\ ~delta_enabled => \A i \in 1 .. n : ~deltas[i]
            /\ srvFresh => ~deltas[1]
            /\ wire' = Append(wire, [kind |-> "MESSAGE", serial |-> srvPos + n,
                                     msgs |-> [i \in 1 .. n |-> [msg |-> srvPos + i,
                                                                 delta |-> deltas[i]]]])
       /\ srvPos' = srvPos + n
  /\ srvFresh' = FALSE
  /\ UNCHANGED <<published, srvAtt, conn, state, channel_serial, deltaVars, subVars,
                 pc, work, cur, gapVars, faults, got, lostVars>>

\* The connection dies; the client still reads a part of what was on the wire.
Drop ==
  /\ state # "DETACHED" /\ faults < MaxFaults /\ srvAtt
  /\ faults' = faults + 1 /\ srvAtt' = FALSE
  /\ \E n \in 0 .. Len(wire) : wire' = Append(SubSeq(wire, 1, n), [kind |-> "LOST"])
  /\ UNCHANGED <<published, srvPos, srvFresh, conn, state, channel_serial, deltaVars,
                 subVars, pc, work, cur, gapVars, got, lostVars>>

-----------------------------------------------------------------------------
(* subscribe() and unsubscribe(), under sub_mutex.                         *)

FreeSlots == {i \in 1 .. Slots : subscribers[i].token = 0}

\* With no free slot the call returns ABLY_ERR_CAPACITY.
Subscribe ==
  /\ next_token \in Token /\ FreeSlots # {}
  /\ \E f \in FiltersOf[next_token] :
       subscribers' = [subscribers EXCEPT ![Min(FreeSlots)] =
                         [token |-> next_token, filter |-> f]]
  /\ next_token' = next_token + 1
  /\ since' = [since EXCEPT ![next_token] = Len(published)]
  /\ UNCHANGED <<srvVars, wire, state, channel_serial, deltaVars, pc, work, cur,
                 gapVars, faults, got, lostVars>>

Unsubscribe ==
  \E i \in 1 .. Slots :
    /\ subscribers[i].token # 0
    /\ subscribers' = [subscribers EXCEPT ![i] = Free]
    /\ since' = [since EXCEPT ![subscribers[i].token] = 0]
    /\ got' = [got EXCEPT ![subscribers[i].token] = <<>>]
    /\ UNCHANGED <<srvVars, wire, state, channel_serial, deltaVars, next_token, pc,
                   work, cur, gapVars, faults, lostVars>>

\* enable_delta(), refused in the states ATTACHED and ATTACHING.
EnableDelta ==
  /\ state = "DETACHED" /\ ~delta_enabled
  /\ delta_enabled' = TRUE
  /\ delta_bufs' = [b \in 0 .. 1 |-> NoPayload] /\ delta_buf_idx' = 0
  /\ UNCHANGED <<srvVars, wire, state, channel_serial, applied, subVars, pc, work,
                 cur, gapVars, faults, got, lostVars>>

-----------------------------------------------------------------------------
(* Dispatch.  From the lock, or the lock again after a callback, the slots *)
(* are looked through up to the next one whose subscriber wants the        *)
(* message; the mutex is released and the callback called.                 *)

Wanting(m, first) ==
  {i \in first .. Slots : subscribers[i].token # 0 /\ Passes(subscribers[i].filter, m)}

\* Where the service thread goes on when a message is dispatched.
Rest(live) == IF live THEN "frame" ELSE "page"

\* Mutant of DispatchFrom: a filter that does not match ends the loop.
DispatchFrom_FilterEnds(first, m, data, live) ==
  LET want == {i \in Wanting(m, first) :
                 \A k \in first .. i : subscribers[k].token # 0 => k \in Wanting(m, first)}
  IN IF want = {}
     THEN pc' = Rest(live) /\ cur' = NoDispatch /\ UNCHANGED got
     ELSE LET i == Min(want)
              t == subscribers[i].token
          IN /\ pc' = "callback"
             /\ cur' = [slot |-> i, token |-> t, msg |-> m, live |-> live, data |-> data]
             /\ got' = [got EXCEPT ![t] = Append(@, [msg |-> m, data |-> data, live |-> live])]

DispatchFrom(first, m, data, live) ==
  LET want == Wanting(m, first)
  IN IF want = {}
     THEN pc' = Rest(live) /\ cur' = NoDispatch /\ UNCHANGED got
     ELSE LET i == Min(want)
              t == subscribers[i].token
          IN /\ pc' = "callback"
             /\ cur' = [slot |-> i, token |-> t, msg |-> m, live |-> live, data |-> data]
             /\ got' = [got EXCEPT ![t] = Append(@, [msg |-> m, data |-> data, live |-> live])]

\* The callback returns.  If its slot has changed hands, the later slots do not
\* get this message.
CallbackReturn ==
  /\ pc = "callback"
  /\ \/ /\ subscribers[cur.slot].token = cur.token
        /\ DispatchFrom(cur.slot + 1, cur.msg, cur.data, cur.live)
        /\ UNCHANGED holes
     \/ /\ subscribers[cur.slot].token # cur.token
        /\ pc' = Rest(cur.live) /\ cur' = NoDispatch
        /\ holes' = holes \cup {cur.msg}
        /\ UNCHANGED got
  /\ UNCHANGED <<srvVars, wire, state, channel_serial, deltaVars, subVars, work,
                 gapVars, faults, jumped>>

-----------------------------------------------------------------------------
(* MESSAGE.                                                                *)

Arrived(kind) == pc = "idle" /\ wire # <<>> /\ Head(wire).kind = kind /\ wire' = Tail(wire)

\* Mutant of RecvMessage: the serial is not kept.
RecvMessage_NoSerial ==
  /\ Arrived("MESSAGE")
  /\ work' = Head(wire).msgs /\ pc' = "frame"
  /\ UNCHANGED <<srvVars, state, channel_serial, deltaVars, subVars, cur, gapVars,
                 faults, got, lostVars>>

RecvMessage ==
  /\ Arrived("MESSAGE")
  /\ channel_serial' = Head(wire).serial
  /\ work' = Head(wire).msgs /\ pc' = "frame"
  /\ UNCHANGED <<srvVars, state, deltaVars, subVars, cur, gapVars, faults, got, lostVars>>

Clear(m) == [of |-> m, form |-> "clear", conn |-> conn]
Raw(m)   == [of |-> m, form |-> IF published[m] = "binary" THEN "encoded" ELSE "clear",
             conn |-> conn]

\* ably_vcdiff_decode, for a delta to the message before m: what it writes, with
\* NoPayload for an error.  A delta copies from its base, so none is an error; a
\* wrong base is an error or goes unnoticed.  A large target does not fit.
Decoded(m, base) ==
  IF published[m] = "large" \/ base = NoPayload THEN {NoPayload}
  ELSE IF base.of = m - 1 /\ base.form = "clear" THEN {Clear(m)}
  ELSE {NoPayload, [of |-> m, form |-> "garbled", conn |-> conn]}

Other == 1 - delta_buf_idx
Active == delta_bufs[delta_buf_idx]

\* Mutant of Store: the index goes to the second buffer and stays there.
Store_IndexStays(data) ==
  /\ delta_bufs' = [delta_bufs EXCEPT ![Other] = data]
  /\ delta_buf_idx' = 1

\* The other buffer gets the payload and becomes the active one.
Store(data) ==
  /\ delta_bufs' = [delta_bufs EXCEPT ![Other] = data]
  /\ delta_buf_idx' = Other

\* Each message of the frame: the payload is resolved, then dispatched.
NextMessage ==
  /\ pc = "frame" /\ work # <<>>
  /\ work' = Tail(work)
  /\ LET m == Head(work).msg IN
     \/ /\ Head(work).delta                  \* a delta that decodes
        /\ \E data \in Decoded(m, Active) \ {NoPayload} :
             /\ Store(data)
             /\ DispatchFrom(1, m, data, TRUE)
        /\ applied' = applied \cup {<<conn, Active.conn>>}
        /\ UNCHANGED <<delta_enabled, holes>>
     \/ /\ Head(work).delta                  \* one that does not: the message is dropped
        /\ NoPayload \in Decoded(m, Active)
        /\ holes' = holes \cup {m}
        /\ UNCHANGED <<deltaVars, pc, cur, got>>
     \/ /\ delta_enabled /\ ~Head(work).delta      \* the next base, as it came, if it fits
        /\ IF published[m] = "large" THEN UNCHANGED <<delta_bufs, delta_buf_idx>>
                                     ELSE Store(Raw(m))
        /\ DispatchFrom(1, m, Raw(m), TRUE)
        /\ UNCHANGED <<delta_enabled, applied, holes>>
     \/ /\ ~delta_enabled
        /\ DispatchFrom(1, m, Clear(m), TRUE)
        /\ UNCHANGED <<deltaVars, holes>>
  /\ UNCHANGED <<srvVars, wire, state, channel_serial, subVars, gapVars, faults, jumped>>

FrameDone ==
  /\ pc = "frame" /\ work = <<>>
  /\ pc' = "idle"
  /\ UNCHANGED <<srvVars, wire, state, channel_serial, deltaVars, subVars, work, cur,
                 gapVars, faults, got, lostVars>>

-----------------------------------------------------------------------------
(* ATTACHED, and the recovery of the gap before it.                        *)

\* The serial of the frame takes the place of the last known one before the
\* recovery starts from it.
Attach(f, recover) ==
  LET start == IF f.serial # NoSerial THEN f.serial ELSE channel_serial IN
  /\ state' = "ATTACHED" /\ channel_serial' = start /\ live_from' = f.from
  /\ IF recover /\ start # NoSerial
     THEN pc' = "fetch" /\ cursor' = start /\ pages' = 0
     ELSE UNCHANGED <<pc, cursor, pages>>
  /\ IF channel_serial = NoSerial
     THEN holes' = holes \cup 1 .. f.from /\ UNCHANGED jumped
     ELSE jumped' = jumped \cup channel_serial + 1 .. f.serial /\ UNCHANGED holes

\* Mutant of RecvAttached: a backlog behind a resumed session is not fetched.
RecvAttached_NoBacklog ==
  /\ Arrived("ATTACHED")
  /\ Attach(Head(wire), ~Head(wire).resumed)
  /\ UNCHANGED <<srvVars, deltaVars, subVars, work, cur, faults, got>>

RecvAttached ==
  /\ Arrived("ATTACHED")
  /\ Attach(Head(wire), ~Head(wire).resumed \/ Head(wire).backlog)
  /\ UNCHANGED <<srvVars, deltaVars, subVars, work, cur, faults, got>>

\* What the recovery has not fetched when it ends.
GiveUp ==
  /\ pc' = "idle"
  /\ holes' = holes \cup IF cursor = NoSerial THEN {} ELSE cursor + 1 .. live_from
  /\ UNCHANGED <<work, gapVars, jumped>>

\* A page of the history, forwards, is there.  The next cursor leads on, or to
\* the first page again (of a Link header with several entries the first is
\* taken), or is empty.
GotPage ==
  LET last == Min({cursor + PageSize, Len(published)}) IN
  /\ work' = [i \in 1 .. last - cursor |-> [msg |-> cursor + i, delta |-> FALSE]]
  /\ cursor' \in IF last < Len(published) THEN {last, channel_serial} ELSE {NoSerial}
  /\ pc' = "page" /\ UNCHANGED <<live_from, lostVars>>

\* Mutant of RecoverGap: no limit on the pages.
RecoverGap_Endless ==
  /\ pc = "fetch"
  /\ \/ cursor = NoSerial /\ GiveUp
     \/ cursor # NoSerial /\ GotPage /\ UNCHANGED pages
  /\ UNCHANGED <<srvVars, wire, state, channel_serial, deltaVars, subVars, cur, faults,
                 got>>

\* rt_recover_gap, one turn of its loop.
RecoverGap ==
  /\ pc = "fetch"
  /\ \/ (cursor = NoSerial \/ pages = MaxPages) /\ GiveUp
     \/ cursor # NoSerial /\ pages < MaxPages /\ GotPage /\ pages' = pages + 1
  /\ UNCHANGED <<srvVars, wire, state, channel_serial, deltaVars, subVars, cur, faults,
                 got>>

\* The request fails, or gives no page.
RecoverFails ==
  /\ pc = "fetch" /\ cursor # NoSerial /\ pages < MaxPages /\ faults < MaxFaults
  /\ faults' = faults + 1
  /\ GiveUp
  /\ UNCHANGED <<srvVars, wire, state, channel_serial, deltaVars, subVars, cur, got>>

\* Mutant of DeliverHistory: the page is delivered from its end.
DeliverHistory_Backwards ==
  /\ pc = "page"
  /\ IF work = <<>>
     THEN pc' = "fetch" /\ UNCHANGED <<work, cur, got>>
     ELSE /\ work' = SubSeq(work, 1, Len(work) - 1)
          /\ DispatchFrom(1, work[Len(work)].msg, Raw(work[Len(work)].msg), FALSE)
  /\ UNCHANGED <<srvVars, wire, state, channel_serial, deltaVars, subVars, gapVars,
                 faults, lostVars>>

\* ably_channel_deliver_history of each item of the page.
DeliverHistory ==
  /\ pc = "page"
  /\ IF work = <<>>
     THEN pc' = "fetch" /\ UNCHANGED <<work, cur, got>>
     ELSE work' = Tail(work) /\ DispatchFrom(1, Head(work).msg, Raw(Head(work).msg), FALSE)
  /\ UNCHANGED <<srvVars, wire, state, channel_serial, deltaVars, subVars, gapVars,
                 faults, lostVars>>

-----------------------------------------------------------------------------
(* The loss of the connection.                                             *)

\* Mutant of OnDisconnect: the delta state is kept.
OnDisconnect_KeepBase ==
  /\ Arrived("LOST")
  /\ state' = "DETACHED"
  /\ UNCHANGED <<srvVars, channel_serial, deltaVars, subVars, pc, work, cur, gapVars,
                 faults, got, lostVars>>

OnDisconnect ==
  /\ Arrived("LOST")
  /\ state' = "DETACHED"
  /\ delta_bufs' = [b \in 0 .. 1 |-> NoPayload] /\ delta_buf_idx' = 0
  /\ UNCHANGED <<srvVars, channel_serial, delta_enabled, applied,
                 subVars, pc, work, cur, gapVars,
                 faults, got, lostVars>>

\* attach(), and on a new connection rt_reattach_pending_channels, sends ATTACH
\* with the serial.
Attaching ==
  /\ pc = "idle" /\ state = "DETACHED"
  /\ state' = "ATTACHING" /\ conn' = conn + 1
  /\ UNCHANGED <<published, srvAtt, srvPos, srvFresh, wire, channel_serial, deltaVars,
                 subVars, pc, work, cur, gapVars, faults, got, lostVars>>

-----------------------------------------------------------------------------
Service == RecvMessage \/ NextMessage \/ FrameDone \/ CallbackReturn \/ RecvAttached
             \/ RecoverGap \/ DeliverHistory \/ OnDisconnect \/ Attaching
Application == Subscribe \/ Unsubscribe \/ EnableDelta
Environment == Publish \/ ServerAttach \/ ServerSend \/ Drop \/ RecoverFails

Next == Service \/ Application \/ Environment

Spec == Init /\ [][Next]_vars

\* In a recovery the service thread runs and the callbacks return.
FairSpec == Spec /\ WF_vars(RecoverGap \/ DeliverHistory \/ CallbackReturn)

-----------------------------------------------------------------------------
Received(t) == {got[t][k].msg : k \in DOMAIN got[t]}

\* What each variable holds.
TypeOK ==
  /\ published \in Seq(AllBodies) /\ Len(published) <= MaxMsg
  /\ srvAtt \in BOOLEAN /\ srvPos \in 0 .. MaxMsg /\ srvFresh \in BOOLEAN
  /\ conn \in 0 .. MaxFaults + 1
  /\ state \in {"DETACHED", "ATTACHING", "ATTACHED"} /\ channel_serial \in Serials
  /\ delta_enabled \in BOOLEAN
  /\ delta_bufs \in [0 .. 1 -> Payload] /\ delta_buf_idx \in 0 .. 1
  /\ subscribers \in [1 .. Slots -> [token : Token \cup {0}, filter : {"", "a", "b"}]]
  /\ next_token \in 1 .. MaxSubs + 1
  /\ pc \in {"idle", "frame", "fetch", "page", "callback"}
  /\ cursor \in Serials /\ pages \in 0 .. MaxPages /\ live_from \in 0 .. MaxMsg
  /\ faults \in 0 .. MaxFaults
  /\ holes \subseteq Msg /\ jumped \subseteq Msg

\* A subscriber gets the messages of the connection in the order of the channel
\* and each at most once, across connections that are lost and resumed.
LiveInOrder ==
  \A t \in Token : \A i, j \in DOMAIN got[t] :
    i < j /\ got[t][i].live /\ got[t][j].live => got[t][i].msg < got[t][j].msg

\* The messages recovered from the history do not get between: what a subscriber
\* is given for the first time comes after everything it was given before,
\* unless it was published before the subscription or a break kept it back.
FirstTimeInOrder ==
  \A t \in Token : \A j \in DOMAIN got[t] :
    LET m == got[t][j].msg IN
    \/ \E i \in 1 .. j - 1 : got[t][i].msg = m
    \/ \A i \in 1 .. j - 1 : got[t][i].msg < m
    \/ m \in holes \/ m <= since[t]

\* "Reset delta decode state so a stale source buffer is never applied to a fresh
\* delta sequence after reconnect": no delta is decoded against a payload of an
\* earlier connection.
NoStaleBase == \A p \in applied : p[1] = p[2]

\* A payload is delivered garbled only if the server, on the way, sent a message
\* that is binary or too large to be kept as the next base.
GarbledHasCause ==
  \A t \in Token : \A k \in DOMAIN got[t] :
    got[t][k].data.form = "garbled" =>
      \E m \in 1 .. got[t][k].msg - 1 : published[m] # "text"

Settled == pc = "idle" /\ wire = <<>> /\ state = "ATTACHED" /\ srvAtt

Due(t) == {m \in since[t] + 1 .. srvPos :
             \E i \in 1 .. Slots : /\ subscribers[i].token = t
                                   /\ Passes(subscribers[i].filter, m)}

\* With everything the server sent handled, a subscriber has all it wants of
\* what was published since it subscribed, live or recovered, except what the
\* five known causes took: a delta that did not decode, a dispatch broken off, a
\* history request that failed or went past MaxPages, a first ATTACHED after the
\* publication, and a serial in the ATTACHED frame that jumped over the gap.
NothingElseMissed ==
  Settled => \A t \in Token : Due(t) \subseteq Received(t) \cup holes \cup jumped

\* The service thread comes back from the recovery of a gap, also when the
\* cursors of the history lead in a circle.
RecoveryEnds == pc \in {"fetch", "page"} ~> pc = "idle"

-----------------------------------------------------------------------------
(* What the repository says and the code does not do.                      *)

\* realtime_client.h:146, "Fetch history for a channel since its last known
\* channelSerial and deliver recovered messages to subscribers".
GapRecovered ==
  Settled => \A t \in Token : Due(t) \subseteq Received(t) \cup holes
=============================================================================
