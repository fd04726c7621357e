---------------------------- MODULE ReceiveProofs ----------------------------
(***************************************************************************)
(* Proofs about Receive, for every number of slots, messages, pages,       *)
(* frames and losses, any bodies and any filters.                          *)
(*                                                                         *)
(* The invariant follows the position of the service thread in the channel *)
(* through the wire, the frame or page at hand, and the slot the running   *)
(* callback is of.                                                         *)
(***************************************************************************)
EXTENDS Receive, WellFoundedInduction, TLAPS

(* Part 1: the invariant.                                                  *)

WorkItem == [msg : Msg, delta : BOOLEAN]
Frames ==
  [kind : {"ATTACHED"}, serial : Serials, resumed : BOOLEAN, backlog : BOOLEAN,
   from : 0 .. MaxMsg]
    \cup [kind : {"MESSAGE"}, serial : Msg, msgs : Seq(WorkItem)]
    \cup [kind : {"LOST"}]
Given == [msg : Msg, data : Payload, live : BOOLEAN]

TypeInv ==
  /\ TypeOK
  /\ wire \in Seq(Frames) /\ work \in Seq(WorkItem)
  /\ cur \in [slot : 0 .. Slots, token : 0 .. MaxSubs, msg : 0 .. MaxMsg,
              live : BOOLEAN, data : Payload]
  /\ pc = "callback" => cur.slot \in 1 .. Slots /\ cur.msg \in Msg /\ cur.token \in Token
  /\ since \in [Token -> 0 .. MaxMsg]
  /\ got \in [Token -> Seq(Given)]

\* A token is in one slot; one that is in none has nothing.
SlotInv ==
  /\ \A i \in 1 .. Slots : subscribers[i].token < next_token
  /\ \A i, j \in 1 .. Slots :
       subscribers[i].token = subscribers[j].token /\ subscribers[i].token # 0 => i = j
  /\ \A t \in Token : got[t] # <<>> => \E i \in 1 .. Slots : subscribers[i].token = t
  /\ \A t \in Token : since[t] <= Len(published)

\* The service thread is in a frame, or in a page.
Live == pc = "frame" \/ (pc = "callback" /\ cur.live)
Hist == pc = "page" \/ (pc = "callback" /\ ~cur.live)

\* The last message of the channel the client has taken off the wire, or was
\* told it is behind; the last one it has dispatched; and the last one a page leads to.
Reached == IF channel_serial > live_from THEN channel_serial ELSE live_from
Done == channel_serial - Len(work)
Goal == IF cursor = NoSerial THEN live_from ELSE cursor

\* No MESSAGE came since the ATTACHED.
Fresh == channel_serial <= live_from

PlaceInv ==
  /\ channel_serial <= Len(published) /\ live_from <= Len(published)
  /\ srvPos <= Len(published)
  /\ pc # "idle" => state = "ATTACHED"
  /\ pc \in {"idle", "fetch"} => work = <<>>
  /\ Live => /\ live_from <= Done /\ 0 <= Done
             /\ \A k \in 1 .. Len(work) : work[k].msg = Done + k
             /\ pc = "callback" => cur.msg = Done /\ live_from < Done
  /\ pc = "fetch" \/ Hist =>
       /\ channel_serial # NoSerial /\ channel_serial <= live_from
       /\ channel_serial <= Goal /\ Goal <= Len(published)
  /\ Hist => /\ \A k \in 1 .. Len(work) :
                  /\ work[k].msg = work[1].msg + k - 1 /\ work[k].msg > channel_serial
                  /\ work[k].msg <= Len(published)
             /\ work # <<>> => work[Len(work)].msg >= Goal
             /\ pc = "callback" =>
                  /\ cur.msg > channel_serial /\ cur.msg <= Len(published)
                  /\ IF work = <<>> THEN cur.msg >= Goal ELSE work[1].msg = cur.msg + 1

\* The position behind a frame, and before it.
End(f) == IF f.kind = "ATTACHED" THEN f.from ELSE f.serial
Before(i) == IF i = 1 THEN Reached ELSE End(wire[i - 1])
FreshBefore(i) == IF i = 1 THEN Fresh ELSE wire[i - 1].kind = "ATTACHED"

\* An ATTACHED to a client at a serial, and a MESSAGE behind a position, for a
\* channel of n messages.
AttachedOK(f, serial, n) ==
  /\ f.from <= n /\ serial <= f.from /\ f.serial \in {NoSerial, f.from}
  /\ f.resumed /\ ~f.backlog => f.from = serial /\ serial # NoSerial

MessageOK(f, before, fresh, n, enabled) ==
  /\ f.msgs # <<>> /\ f.serial = before + Len(f.msgs) /\ f.serial <= n
  /\ \A k \in 1 .. Len(f.msgs) : /\ f.msgs[k].msg = before + k
                                 /\ f.msgs[k].delta => enabled
  /\ f.msgs[1].delta => ~fresh

WireInv ==
  /\ \A i \in 1 .. Len(wire) :
       /\ wire[i].kind = "ATTACHED" =>
            /\ i = 1 /\ state = "ATTACHING"
            /\ AttachedOK(wire[i], channel_serial, Len(published))
       /\ wire[i].kind = "LOST" => i = Len(wire) /\ ~srvAtt
       /\ wire[i].kind = "MESSAGE" =>
            /\ i = 1 => state = "ATTACHED"
            /\ MessageOK(wire[i], Before(i), FreshBefore(i), Len(published), delta_enabled)
  /\ wire # <<>> \/ srvAtt => state # "DETACHED"
  /\ srvAtt /\ state = "ATTACHING" => wire # <<>>
  /\ srvAtt => srvPos = IF wire = <<>> THEN Reached ELSE End(wire[Len(wire)])
  /\ srvAtt /\ (IF wire = <<>> THEN Fresh ELSE wire[Len(wire)].kind = "ATTACHED") => srvFresh

ConnInv ==
  /\ conn <= faults + 1
  /\ state = "DETACHED" \/ (~srvAtt /\ wire # <<>>) => conn <= faults

AllText(m) == \A k \in 1 .. m : published[k] = "text"

\* The last message whose text is the base, when all were texts.
BaseOf == IF Live THEN Done ELSE channel_serial

DeltaInv ==
  /\ \A b \in 0 .. 1 : delta_bufs[b] # NoPayload => delta_bufs[b].conn = conn
  /\ state = "DETACHED" => \A b \in 0 .. 1 : delta_bufs[b] = NoPayload
  /\ Live => \A k \in 1 .. Len(work) :
               work[k].delta => delta_enabled /\ Done + k - 1 > live_from
  /\ state = "ATTACHED" /\ delta_enabled /\ BaseOf > live_from /\ AllText(BaseOf) =>
       Active.of = BaseOf /\ Active.form = "clear"
  /\ NoStaleBase

GarbledInv ==
  /\ \A t \in Token : \A k \in DOMAIN got[t] : got[t][k].msg <= Len(published)
  /\ GarbledHasCause
  /\ pc = "callback" /\ cur.data.form = "garbled" => ~AllText(cur.msg - 1)

\* How far the subscriber of a slot has been given the live messages.
LiveUpTo(i) ==
  IF Live THEN IF pc = "callback" /\ i > cur.slot THEN Done - 1 ELSE Done
  ELSE channel_serial

LiveInv ==
  /\ LiveInOrder
  /\ \A i \in 1 .. Slots : subscribers[i].token # 0 =>
       \A k \in DOMAIN got[subscribers[i].token] :
         got[subscribers[i].token][k].live => got[subscribers[i].token][k].msg <= LiveUpTo(i)

\* How far it has been given all it wants, and the messages it has up to m.
Front(i) ==
  IF pc = "idle" THEN Reached
  ELSE IF pc = "fetch" THEN Goal
  ELSE IF pc = "frame" THEN Done
  ELSE IF pc = "page" THEN IF work = <<>> THEN Goal ELSE work[1].msg - 1
  ELSE IF i > cur.slot THEN cur.msg - 1 ELSE cur.msg

HasTo(i, m) ==
  LET t == subscribers[i].token IN
  \A x \in since[t] + 1 .. m :
    Passes(subscribers[i].filter, x) => x \in Received(t) \cup holes \cup jumped

FillInv ==
  /\ FirstTimeInOrder
  /\ \A i \in 1 .. Slots : subscribers[i].token # 0 =>
       /\ HasTo(i, Front(i))
       /\ \A k \in DOMAIN got[subscribers[i].token] :
            HasTo(i, got[subscribers[i].token][k].msg)
  /\ \A x \in jumped : /\ x <= channel_serial
                       /\ Live => x <= Done
                       /\ pc = "callback" => x < cur.msg

(* Part 2: dispatch.                                                       *)

LEMMA MinIn ==
  ASSUME NEW S, S \subseteq Nat, S # {}
  PROVE  Min(S) \in S /\ \A y \in S : Min(S) <= y
<1> DEFINE Below == OpToRel(<, Nat)
<1>1. IsWellFoundedOn(Below, Nat)
  BY NatLessThanWellFounded
<1>2. \A x, y \in Nat : x < y => <<x, y>> \in Below
  BY DEF OpToRel
<1> HIDE DEF Below
<1>3. PICK x \in S : \A y \in S : <<y, x>> \notin Below
  BY <1>1, WFMin
<1>4. \A y \in S : x <= y
  <2> TAKE y \in S
  <2>1. x \in Nat /\ y \in Nat
    OBVIOUS
  <2>2. ~(y < x)
    BY <1>2, <1>3, <2>1, Zenon
  <2>3. QED
    BY <2>1, <2>2
<1>5. \E z \in S : \A y \in S : z <= y
  BY <1>4
<1>6. QED
  BY <1>5 DEF Min

Wants(i, m) == subscribers[i].token # 0 /\ Passes(subscribers[i].filter, m)

\* The two outcomes of the loop that looks for the next subscriber.
EndsAfter(first, m, live) ==
  /\ \A i \in first .. Slots : ~Wants(i, m)
  /\ pc' = Rest(live) /\ cur' = NoDispatch /\ got' = got

GivesTo(i, first, m, data, live) ==
  /\ i \in first .. Slots /\ Wants(i, m) /\ \A j \in first .. i - 1 : ~Wants(j, m)
  /\ pc' = "callback"
  /\ cur' = [slot |-> i, token |-> subscribers[i].token, msg |-> m, live |-> live, data |-> data]
  /\ got' = [got EXCEPT ![subscribers[i].token] =
               Append(@, [msg |-> m, data |-> data, live |-> live])]

LEMMA DispatchCases ==
  ASSUME NEW first \in 1 .. Slots + 1, NEW m, NEW data, NEW live,
         DispatchFrom(first, m, data, live)
  PROVE  \/ EndsAfter(first, m, live)
         \/ \E i \in 1 .. Slots : GivesTo(i, first, m, data, live)
<1> DEFINE want == Wanting(m, first)
<1>1. Slots \in Nat
  BY ReceiveAssumption
<1>2. \A i : i \in want <=> i \in first .. Slots /\ Wants(i, m)
  BY DEF Wanting, Wants
<1>3. CASE want = {}
  <2>1. pc' = Rest(live) /\ cur' = NoDispatch /\ got' = got
    BY <1>3 DEF DispatchFrom
  <2>2. QED
    BY <1>2, <1>3, <2>1 DEF EndsAfter
<1>4. CASE want # {}
  <2> DEFINE i == Min(want)
  <2>1. want \subseteq Nat
    BY <1>1, <1>2
  <2>2. i \in want /\ \A y \in want : i <= y
    BY <1>4, <2>1, MinIn
  <2>3. /\ pc' = "callback"
        /\ cur' = [slot |-> i, token |-> subscribers[i].token, msg |-> m,
                   live |-> live, data |-> data]
        /\ got' = [got EXCEPT ![subscribers[i].token] =
                     Append(@, [msg |-> m, data |-> data, live |-> live])]
    BY <1>4 DEF DispatchFrom
  <2> HIDE DEF i, want
  <2>4. i \in first .. Slots /\ Wants(i, m)
    BY <1>2, <2>2
  <2>5. \A j \in first .. i - 1 : ~Wants(j, m)
    <3> SUFFICES ASSUME NEW j \in first .. i - 1, Wants(j, m) PROVE FALSE
      OBVIOUS
    <3>1. j \in first .. Slots
      BY <1>1, <2>4
    <3>2. i <= j
      BY <1>2, <2>2, <3>1
    <3>3. QED
      BY <1>1, <2>4, <3>1, <3>2
  <2>6. i \in 1 .. Slots
    BY <1>1, <2>4
  <2>7. GivesTo(i, first, m, data, live)
    BY <2>3, <2>4, <2>5 DEF GivesTo
  <2>8. QED
    BY <2>6, <2>7
<1>5. QED
  BY <1>3, <1>4

LEMMA GivenTypes ==
  ASSUME TypeInv, NEW i \in 1 .. Slots, NEW first \in 1 .. Slots + 1, NEW m \in Msg,
         NEW data \in Payload, NEW live \in BOOLEAN, GivesTo(i, first, m, data, live)
  PROVE  /\ subscribers[i].token \in Token
         /\ got' \in [Token -> Seq(Given)]
         /\ cur' \in [slot : 0 .. Slots, token : 0 .. MaxSubs, msg : 0 .. MaxMsg,
                      live : BOOLEAN, data : Payload]
         /\ cur'.slot = i /\ cur'.msg = m /\ cur'.token = subscribers[i].token
         /\ cur'.live = live /\ cur'.data = data
<1> DEFINE t == subscribers[i].token
           g == [msg |-> m, data |-> data, live |-> live]
<1>1. Slots \in Nat /\ MaxMsg \in Nat /\ MaxSubs \in Nat
  BY ReceiveAssumption
<1>2. subscribers[i] \in [token : Token \cup {0}, filter : {"", "a", "b"}]
  BY DEF TypeInv, TypeOK
<1>3. t \in Token \cup {0} /\ t # 0
  BY <1>2 DEF GivesTo, Wants
<1>4. t \in Token /\ t \in 0 .. MaxSubs
  BY <1>1, <1>3 DEF Token
<1>5. g \in Given
  BY DEF Given
<1>6. got \in [Token -> Seq(Given)]
  BY DEF TypeInv
<1>7. got' = [got EXCEPT ![t] = Append(@, g)]
  BY DEF GivesTo
<1>10. cur' = [slot |-> i, token |-> t, msg |-> m, live |-> live, data |-> data]
  BY DEF GivesTo
<1> HIDE DEF t, g, Given
<1>8. got' \in [Token -> Seq(Given)]
  <2>1. got[t] \in Seq(Given)
    BY <1>4, <1>6
  <2>2. Append(got[t], g) \in Seq(Given)
    BY <1>5, <2>1
  <2>3. QED
    BY <1>4, <1>6, <1>7, <2>2
<1>9. i \in 0 .. Slots /\ m \in 0 .. MaxMsg
  BY <1>1 DEF Msg
<1>11. cur' \in [slot : 0 .. Slots, token : 0 .. MaxSubs, msg : 0 .. MaxMsg,
                live : BOOLEAN, data : Payload]
  BY <1>4, <1>9, <1>10
<1>12. QED
  BY <1>4, <1>8, <1>10, <1>11 DEF t

(* Part 3: types.                                                          *)

LEMMA Bounds ==
  /\ Slots \in Nat /\ PageSize \in Nat \ {0} /\ MaxPages \in Nat /\ MaxMsg \in Nat
  /\ MaxSubs \in Nat /\ MaxWire \in Nat /\ MaxFaults \in Nat
BY ReceiveAssumption

LEMMA PayloadTypes ==
  ASSUME TypeInv, NEW m \in Msg
  PROVE  /\ NoPayload \in Payload /\ Clear(m) \in Payload /\ Raw(m) \in Payload
         /\ \A b : Decoded(m, b) \subseteq Payload
<1>0. conn \in 0 .. MaxFaults + 1
  BY DEF TypeInv, TypeOK
<1>1. m \in 0 .. MaxMsg /\ conn \in Nat /\ 0 \in 0 .. MaxMsg
  BY <1>0, Bounds DEF Msg
<1>2. NoPayload \in Payload /\ Clear(m) \in Payload /\ Raw(m) \in Payload
  BY <1>1 DEF Payload, NoPayload, Clear, Raw
<1>3. [of |-> m, form |-> "garbled", conn |-> conn] \in Payload
  BY <1>1 DEF Payload
<1>4. QED
  BY <1>2, <1>3 DEF Decoded

\* What becomes of the base when the message m of a frame is delivered as data.
BaseStep(m, data) ==
  \/ /\ Head(work).delta /\ data \in Decoded(m, Active) \ {NoPayload}
     /\ Store(data) /\ applied' = applied \cup {<<conn, Active.conn>>}
  \/ /\ delta_enabled /\ ~Head(work).delta /\ data = Raw(m) /\ applied' = applied
     /\ IF published[m] = "large" THEN UNCHANGED <<delta_bufs, delta_buf_idx>>
                                  ELSE Store(Raw(m))
  \/ ~delta_enabled /\ data = Clear(m) /\ UNCHANGED <<delta_bufs, delta_buf_idx, applied>>

DropsMessage ==
  /\ Head(work).delta /\ NoPayload \in Decoded(Head(work).msg, Active)
  /\ holes' = holes \cup {Head(work).msg}
  /\ UNCHANGED <<delta_bufs, delta_buf_idx, applied, pc, cur, got>>

DeliversMessage(data) ==
  /\ DispatchFrom(1, Head(work).msg, data, TRUE)
  /\ BaseStep(Head(work).msg, data) /\ holes' = holes

LEMMA NextMessageCases ==
  ASSUME TypeInv, NextMessage
  PROVE  /\ pc = "frame" /\ work # <<>> /\ work' = Tail(work) /\ Head(work).msg \in Msg
         /\ UNCHANGED <<srvVars, wire, state, channel_serial, subVars, gapVars, faults,
                        jumped, delta_enabled>>
         /\ DropsMessage \/ \E data \in Payload : DeliversMessage(data)
<1> DEFINE m == Head(work).msg
<1>1. /\ pc = "frame" /\ work # <<>> /\ work' = Tail(work)
      /\ UNCHANGED <<srvVars, wire, state, channel_serial, subVars, gapVars, faults, jumped>>
  BY DEF NextMessage
<1>2. m \in Msg
  <2>1. work \in Seq(WorkItem) /\ work # <<>>
    BY <1>1 DEF TypeInv
  <2>2. Head(work) \in WorkItem
    BY <2>1
  <2>3. QED
    BY <2>2 DEF WorkItem
<1>3. Raw(m) \in Payload /\ Clear(m) \in Payload /\ \A b : Decoded(m, b) \subseteq Payload
  BY <1>2, PayloadTypes
<1>4. \/ /\ Head(work).delta
         /\ \E data \in Decoded(m, Active) \ {NoPayload} :
              Store(data) /\ DispatchFrom(1, m, data, TRUE)
         /\ applied' = applied \cup {<<conn, Active.conn>>}
         /\ UNCHANGED <<delta_enabled, holes>>
      \/ /\ Head(work).delta /\ NoPayload \in Decoded(m, Active)
         /\ holes' = holes \cup {m} /\ UNCHANGED <<deltaVars, pc, cur, got>>
      \/ /\ delta_enabled /\ ~Head(work).delta
         /\ IF published[m] = "large" THEN UNCHANGED <<delta_bufs, delta_buf_idx>>
                                      ELSE Store(Raw(m))
         /\ DispatchFrom(1, m, Raw(m), TRUE)
         /\ UNCHANGED <<delta_enabled, applied, holes>>
      \/ /\ ~delta_enabled /\ DispatchFrom(1, m, Clear(m), TRUE)
         /\ UNCHANGED <<deltaVars, holes>>
  BY DEF NextMessage
<1>5. delta_enabled' = delta_enabled
  BY <1>4 DEF deltaVars
<1>6. DropsMessage \/ \E data \in Payload : DeliversMessage(data)
  <2>1. CASE /\ Head(work).delta
             /\ \E data \in Decoded(m, Active) \ {NoPayload} :
                  Store(data) /\ DispatchFrom(1, m, data, TRUE)
             /\ applied' = applied \cup {<<conn, Active.conn>>}
             /\ UNCHANGED <<delta_enabled, holes>>
    <3>1. PICK data \in Decoded(m, Active) \ {NoPayload} :
            Store(data) /\ DispatchFrom(1, m, data, TRUE)
      BY <2>1
    <3>2. data \in Payload
      BY <1>3
    <3>3. BaseStep(m, data) /\ holes' = holes
      BY <2>1, <3>1 DEF BaseStep
    <3>4. QED
      BY <3>1, <3>2, <3>3 DEF DeliversMessage
  <2>2. CASE /\ Head(work).delta /\ NoPayload \in Decoded(m, Active)
             /\ holes' = holes \cup {m} /\ UNCHANGED <<deltaVars, pc, cur, got>>
    BY <2>2 DEF DropsMessage, deltaVars
  <2>3. CASE /\ delta_enabled /\ ~Head(work).delta
             /\ IF published[m] = "large" THEN UNCHANGED <<delta_bufs, delta_buf_idx>>
                                          ELSE Store(Raw(m))
             /\ DispatchFrom(1, m, Raw(m), TRUE)
             /\ UNCHANGED <<delta_enabled, applied, holes>>
    <3>1. BaseStep(m, Raw(m)) /\ holes' = holes
      BY <2>3 DEF BaseStep
    <3>2. QED
      BY <1>3, <2>3, <3>1 DEF DeliversMessage
  <2>4. CASE /\ ~delta_enabled /\ DispatchFrom(1, m, Clear(m), TRUE)
             /\ UNCHANGED <<deltaVars, holes>>
    <3>1. BaseStep(m, Clear(m)) /\ holes' = holes
      BY <2>4 DEF BaseStep, deltaVars
    <3>2. QED
      BY <1>3, <2>4, <3>1 DEF DeliversMessage
  <2>5. QED
    BY <1>4, <2>1, <2>2, <2>3, <2>4
<1>7. QED
  BY <1>1, <1>2, <1>5, <1>6

\* Where the callbacks and the wire leave their types.
LEMMA DispatchTypes ==
  ASSUME TypeInv, NEW first \in 1 .. Slots + 1, NEW m \in Msg, NEW data \in Payload,
         NEW live \in BOOLEAN, DispatchFrom(first, m, data, live)
  PROVE  /\ pc' \in {"idle", "frame", "fetch", "page", "callback"}
         /\ got' \in [Token -> Seq(Given)]
         /\ cur' \in [slot : 0 .. Slots, token : 0 .. MaxSubs, msg : 0 .. MaxMsg,
                      live : BOOLEAN, data : Payload]
         /\ pc' = "callback" =>
              cur'.slot \in 1 .. Slots /\ cur'.msg \in Msg /\ cur'.token \in Token
<1>1. CASE EndsAfter(first, m, live)
  <2>1. NoDispatch \in [slot : 0 .. Slots, token : 0 .. MaxSubs, msg : 0 .. MaxMsg,
                        live : BOOLEAN, data : Payload]
    <3>1. 0 \in 0 .. Slots /\ 0 \in 0 .. MaxSubs /\ 0 \in 0 .. MaxMsg
      BY Bounds
    <3>2. NoPayload \in Payload
      BY PayloadTypes
    <3>3. QED
      BY <3>1, <3>2 DEF NoDispatch
  <2>2. pc' \in {"frame", "page"} /\ cur' = NoDispatch /\ got' = got
    BY <1>1 DEF EndsAfter, Rest
  <2>3. QED
    BY <2>1, <2>2 DEF TypeInv
<1>2. CASE \E i \in 1 .. Slots : GivesTo(i, first, m, data, live)
  <2>1. PICK i \in 1 .. Slots : GivesTo(i, first, m, data, live)
    BY <1>2
  <2>2. pc' = "callback"
    BY <2>1 DEF GivesTo
  <2>3. QED
    BY <2>1, <2>2, GivenTypes
<1>3. QED
  BY <1>1, <1>2, DispatchCases

LEMMA ArrivedTypes ==
  ASSUME TypeInv, NEW kind, Arrived(kind)
  PROVE  /\ pc = "idle" /\ wire # <<>> /\ Head(wire) \in Frames /\ Head(wire).kind = kind
         /\ wire' = Tail(wire) /\ wire' \in Seq(Frames)
BY DEF TypeInv, Arrived

LEMMA FrameTypes ==
  ASSUME NEW f \in Frames
  PROVE  /\ f.kind \in {"ATTACHED", "MESSAGE", "LOST"}
         /\ f.kind = "ATTACHED" => /\ f.serial \in Serials /\ f.resumed \in BOOLEAN
                                   /\ f.backlog \in BOOLEAN /\ f.from \in 0 .. MaxMsg
         /\ f.kind = "MESSAGE" => f.serial \in Msg /\ f.msgs \in Seq(WorkItem)
BY DEF Frames

LEMMA PublishedType ==
  ASSUME TypeInv
  PROVE  /\ published \in Seq(AllBodies) /\ Len(published) \in Nat
         /\ Len(published) <= MaxMsg /\ Len(published) \in 0 .. MaxMsg
<1>1. published \in Seq(AllBodies) /\ Len(published) <= MaxMsg
  BY DEF TypeInv, TypeOK
<1>2. Len(published) \in Nat
  BY <1>1
<1>3. QED
  BY <1>1, <1>2, Bounds

\* The environment.
LEMMA ServerTypes ==
  ASSUME TypeInv, Publish \/ ServerAttach \/ ServerSend \/ Drop,
         conn' \in 0 .. MaxFaults + 1
  PROVE  TypeInv'
<1>1. CASE Publish
  <2>1. PICK b \in BodiesOf[Len(published) + 1] : published' = Append(published, b)
    BY <1>1 DEF Publish
  <2>2. Len(published) < MaxMsg /\ published \in Seq(AllBodies) /\ Len(published) \in Nat
    BY <1>1, PublishedType DEF Publish
  <2>3. Len(published) + 1 \in 1 .. MaxMsg
    BY <2>2, Bounds
  <2>4. b \in AllBodies
    BY <2>3, ReceiveAssumption
  <2>5. published' \in Seq(AllBodies) /\ Len(published') <= MaxMsg
    BY <2>1, <2>2, <2>4, Bounds
  <2>6. UNCHANGED <<srvAtt, srvPos, srvFresh, conn, wire, state, channel_serial,
                    deltaVars, subVars, pc, work, cur, gapVars, faults, got, lostVars>>
    BY <1>1 DEF Publish
  <2>7. QED
    BY <2>5, <2>6 DEF TypeInv, TypeOK, deltaVars, subVars, gapVars, lostVars
<1>2. CASE ServerAttach
  <2>1. PICK resumed \in BOOLEAN, backlog \in BOOLEAN, named \in BOOLEAN :
          /\ resumed => channel_serial # NoSerial
          /\ backlog => resumed
          /\ LET pos == IF resumed /\ ~backlog THEN channel_serial ELSE Len(published)
             IN /\ srvPos' = pos
                /\ wire' = Append(wire, [kind |-> "ATTACHED",
                                         serial |-> IF named THEN pos ELSE NoSerial,
                                         resumed |-> resumed, backlog |-> backlog,
                                         from |-> pos])
    BY <1>2 DEF ServerAttach
  <2> DEFINE pos == IF resumed /\ ~backlog THEN channel_serial ELSE Len(published)
             ser == IF named THEN pos ELSE NoSerial
             f == [kind |-> "ATTACHED", serial |-> ser, resumed |-> resumed,
                   backlog |-> backlog, from |-> pos]
  <2>2. channel_serial \in Serials /\ Len(published) \in 0 .. MaxMsg
    <3>1. channel_serial \in Serials
      BY DEF TypeInv, TypeOK
    <3>2. QED
      BY <3>1, PublishedType
  <2>3. pos \in 0 .. MaxMsg /\ ser \in Serials
    BY <2>1, <2>2, Bounds DEF Serials, NoSerial
  <2>4. wire' = Append(wire, f) /\ srvPos' = pos
    BY <2>1
  <2> HIDE DEF pos, ser
  <2>5. f \in Frames
    BY <2>3 DEF Frames
  <2>6. wire' \in Seq(Frames)
    BY <2>4, <2>5 DEF TypeInv
  <2>7. /\ srvAtt' = TRUE /\ srvFresh' = TRUE
        /\ UNCHANGED <<published, conn, state, channel_serial, deltaVars, subVars, pc,
                       work, cur, gapVars, faults, got, lostVars>>
    BY <1>2 DEF ServerAttach
  <2>8. QED
    BY <2>3, <2>4, <2>6, <2>7 DEF TypeInv, TypeOK, deltaVars, subVars, gapVars, lostVars
<1>3. CASE ServerSend
  <2>1. PICK n \in 1 .. 2 :
          /\ srvPos + n <= Len(published)
          /\ \E deltas \in [1 .. n -> BOOLEAN] :
               wire' = Append(wire, [kind |-> "MESSAGE", serial |-> srvPos + n,
                         msgs |-> [i \in 1 .. n |-> [msg |-> srvPos + i, delta |-> deltas[i]]]])
          /\ srvPos' = srvPos + n
    BY <1>3 DEF ServerSend
  <2>2. PICK deltas \in [1 .. n -> BOOLEAN] :
          wire' = Append(wire, [kind |-> "MESSAGE", serial |-> srvPos + n,
                    msgs |-> [i \in 1 .. n |-> [msg |-> srvPos + i, delta |-> deltas[i]]]])
    BY <2>1
  <2> DEFINE msgs == [i \in 1 .. n |-> [msg |-> srvPos + i, delta |-> deltas[i]]]
             f == [kind |-> "MESSAGE", serial |-> srvPos + n, msgs |-> msgs]
  <2>12. srvPos \in 0 .. MaxMsg
    BY DEF TypeInv, TypeOK
  <2>3. srvPos \in 0 .. MaxMsg /\ Len(published) <= MaxMsg /\ Len(published) \in Nat
    BY <2>12, PublishedType
  <2>4. srvPos + n \in Msg /\ srvPos + n \in 0 .. MaxMsg
        /\ \A i \in 1 .. n : srvPos + i \in Msg
    BY <2>1, <2>3, Bounds DEF Msg
  <2>5. \A i \in 1 .. n : [msg |-> srvPos + i, delta |-> deltas[i]] \in WorkItem
    BY <2>2, <2>4 DEF WorkItem
  <2>6. msgs \in Seq(WorkItem)
    BY <2>1, <2>5
  <2>7. wire' = Append(wire, f)
    BY <2>2
  <2> HIDE DEF msgs
  <2>8. f \in Frames
    BY <2>4, <2>6 DEF Frames
  <2>9. wire' \in Seq(Frames)
    BY <2>7, <2>8 DEF TypeInv
  <2>10. /\ srvFresh' = FALSE
         /\ UNCHANGED <<published, srvAtt, conn, state, channel_serial, deltaVars, subVars,
                        pc, work, cur, gapVars, faults, got, lostVars>>
    BY <1>3 DEF ServerSend
  <2>11. QED
    BY <2>1, <2>4, <2>9, <2>10 DEF TypeInv, TypeOK, deltaVars, subVars, gapVars, lostVars
<1>4. CASE Drop
  <2>1. PICK n \in 0 .. Len(wire) : wire' = Append(SubSeq(wire, 1, n), [kind |-> "LOST"])
    BY <1>4 DEF Drop
  <2>2. wire \in Seq(Frames) /\ [kind |-> "LOST"] \in Frames
    BY DEF TypeInv, Frames
  <2>3. SubSeq(wire, 1, n) \in Seq(Frames)
    BY <2>2
  <2>4. wire' \in Seq(Frames)
    BY <2>1, <2>2, <2>3
  <2>5. faults' \in 0 .. MaxFaults
    <3>1. faults \in 0 .. MaxFaults /\ faults < MaxFaults /\ faults' = faults + 1
      BY <1>4 DEF Drop, TypeInv, TypeOK
    <3>2. QED
      BY <3>1, Bounds
  <2>6. /\ srvAtt' = FALSE
        /\ UNCHANGED <<published, srvPos, srvFresh, conn, state, channel_serial, deltaVars,
                       subVars, pc, work, cur, gapVars, got, lostVars>>
    BY <1>4 DEF Drop
  <2>7. QED
    BY <2>4, <2>5, <2>6 DEF TypeInv, TypeOK, deltaVars, subVars, gapVars, lostVars
<1>5. QED
  BY <1>1, <1>2, <1>3, <1>4

\* The application, and the handlers that call nobody back.
LEMMA ClientTypes ==
  ASSUME TypeInv, Subscribe \/ Unsubscribe \/ EnableDelta \/ RecvMessage \/ FrameDone
                    \/ RecvAttached \/ OnDisconnect \/ Attaching,
         conn' \in 0 .. MaxFaults + 1
  PROVE  TypeInv'
<1>1. CASE Subscribe
  <2>1. next_token \in Token /\ FreeSlots # {} /\ FreeSlots \subseteq 1 .. Slots
    BY <1>1 DEF Subscribe, FreeSlots
  <2>2. PICK f \in FiltersOf[next_token] :
          subscribers' = [subscribers EXCEPT ![Min(FreeSlots)] =
                            [token |-> next_token, filter |-> f]]
    BY <1>1 DEF Subscribe
  <2>3. f \in {"", "a", "b"}
    BY <2>1, <2>2, ReceiveAssumption DEF Token
  <2>4. [token |-> next_token, filter |-> f]
          \in [token : Token \cup {0}, filter : {"", "a", "b"}]
    BY <2>1, <2>3
  <2>5. subscribers' \in [1 .. Slots -> [token : Token \cup {0}, filter : {"", "a", "b"}]]
    BY <2>2, <2>4 DEF TypeInv, TypeOK
  <2>6. next_token' = next_token + 1 /\ since' = [since EXCEPT ![next_token] = Len(published)]
    BY <1>1 DEF Subscribe
  <2>7. next_token' \in 1 .. MaxSubs + 1
    BY <2>1, <2>6, Bounds DEF Token
  <2>8. since' \in [Token -> 0 .. MaxMsg]
    BY <2>6, PublishedType DEF TypeInv
  <2>9. UNCHANGED <<srvVars, wire, state, channel_serial, deltaVars, pc, work, cur,
                    gapVars, faults, got, lostVars>>
    BY <1>1 DEF Subscribe
  <2>10. QED
    BY <2>5, <2>7, <2>8, <2>9 DEF TypeInv, TypeOK, srvVars, deltaVars, gapVars, lostVars
<1>2. CASE Unsubscribe
  <2>1. PICK i \in 1 .. Slots :
          /\ subscribers[i].token # 0
          /\ subscribers' = [subscribers EXCEPT ![i] = Free]
          /\ since' = [since EXCEPT ![subscribers[i].token] = 0]
          /\ got' = [got EXCEPT ![subscribers[i].token] = <<>>]
          /\ UNCHANGED <<srvVars, wire, state, channel_serial, deltaVars, next_token, pc,
                         work, cur, gapVars, faults, lostVars>>
    BY <1>2 DEF Unsubscribe
  <2>2. Free \in [token : Token \cup {0}, filter : {"", "a", "b"}]
    BY DEF Free
  <2>3. subscribers' \in [1 .. Slots -> [token : Token \cup {0}, filter : {"", "a", "b"}]]
    BY <2>1, <2>2 DEF TypeInv, TypeOK
  <2>7. since \in [Token -> 0 .. MaxMsg] /\ 0 \in 0 .. MaxMsg
    BY Bounds DEF TypeInv
  <2>4. since' \in [Token -> 0 .. MaxMsg]
    BY <2>1, <2>7
  <2>5. got' \in [Token -> Seq(Given)]
    <3>1. <<>> \in Seq(Given) /\ got \in [Token -> Seq(Given)]
      BY DEF TypeInv
    <3>2. QED
      BY <2>1, <3>1
  <2>6. QED
    BY <2>1, <2>3, <2>4, <2>5
    DEF TypeInv, TypeOK, srvVars, deltaVars, gapVars, lostVars
<1>3. CASE EnableDelta \/ OnDisconnect
  <2>0. 0 \in 0 .. MaxMsg /\ 0 \in Nat
    BY Bounds
  <2>1. NoPayload \in Payload
    BY <2>0 DEF NoPayload, Payload
  <2>2. [b \in 0 .. 1 |-> NoPayload] \in [0 .. 1 -> Payload]
    BY <2>1
  <2>7. delta_bufs' \in [0 .. 1 -> Payload] /\ delta_buf_idx' \in 0 .. 1
    BY <1>3, <2>2 DEF EnableDelta, OnDisconnect
  <2>8. delta_enabled' = TRUE \/ delta_enabled' = delta_enabled
    BY <1>3 DEF EnableDelta, OnDisconnect
  <2>9. state' = "DETACHED"
    BY <1>3 DEF EnableDelta, OnDisconnect
  <2>10. delta_enabled \in BOOLEAN
    BY DEF TypeInv, TypeOK
  <2>3. delta_enabled' \in BOOLEAN /\ state' \in {"DETACHED", "ATTACHING", "ATTACHED"}
    BY <2>8, <2>9, <2>10
  <2>4. wire' \in Seq(Frames)
    BY <1>3, ArrivedTypes DEF EnableDelta, OnDisconnect, TypeInv
  <2>5. UNCHANGED <<srvVars, channel_serial, applied, subVars, pc, work,
                    cur, gapVars, faults, got, lostVars>>
    BY <1>3 DEF EnableDelta, OnDisconnect
  <2>6. QED
    BY <2>3, <2>4, <2>5, <2>7 DEF TypeInv, TypeOK, srvVars, subVars, gapVars, lostVars
<1>4. CASE RecvMessage
  <2>1. /\ Head(wire) \in Frames /\ Head(wire).kind = "MESSAGE" /\ wire' \in Seq(Frames)
    BY <1>4, ArrivedTypes DEF RecvMessage
  <2>2. Head(wire).serial \in Msg /\ Head(wire).msgs \in Seq(WorkItem)
    BY <2>1, FrameTypes
  <2>3. channel_serial' \in Serials
    BY <1>4, <2>2, Bounds DEF RecvMessage, Serials, Msg, NoSerial
  <2>4. work' \in Seq(WorkItem) /\ pc' = "frame"
    BY <1>4, <2>2 DEF RecvMessage
  <2>5. UNCHANGED <<srvVars, state, deltaVars, subVars, cur, gapVars, faults, got, lostVars>>
    BY <1>4 DEF RecvMessage
  <2>6. QED
    BY <2>1, <2>3, <2>4, <2>5
    DEF TypeInv, TypeOK, srvVars, deltaVars, subVars, gapVars, lostVars
<1>5. CASE FrameDone
  <2>1. pc' = "idle"
        /\ UNCHANGED <<srvVars, wire, state, channel_serial, deltaVars, subVars, work, cur,
                       gapVars, faults, got, lostVars>>
    BY <1>5 DEF FrameDone
  <2>2. QED
    BY <2>1 DEF TypeInv, TypeOK, srvVars, deltaVars, subVars, gapVars, lostVars
<1>6. CASE Attaching
  <2>1. /\ state' = "ATTACHING"
        /\ UNCHANGED <<published, srvAtt, srvPos, srvFresh, wire, channel_serial, deltaVars,
                       subVars, pc, work, cur, gapVars, faults, got, lostVars>>
    BY <1>6 DEF Attaching
  <2>2. QED
    BY <2>1 DEF TypeInv, TypeOK, deltaVars, subVars, gapVars, lostVars
<1>7. CASE RecvAttached
  <2> DEFINE f == Head(wire)
             start == IF f.serial # NoSerial THEN f.serial ELSE channel_serial
  <2>1. /\ pc = "idle" /\ f \in Frames /\ f.kind = "ATTACHED" /\ wire' \in Seq(Frames)
    BY <1>7, ArrivedTypes DEF RecvAttached
  <2>2. f.serial \in Serials /\ f.from \in 0 .. MaxMsg
    BY <2>1, FrameTypes
  <2>3. channel_serial \in Serials /\ cursor \in Serials /\ pages \in 0 .. MaxPages
        /\ holes \subseteq Msg /\ jumped \subseteq Msg
    BY DEF TypeInv, TypeOK
  <2>4. Attach(f, ~f.resumed \/ f.backlog)
    BY <1>7 DEF RecvAttached
  <2>5. start \in Serials
    BY <2>2, <2>3
  <2>6. /\ state' = "ATTACHED" /\ channel_serial' = start /\ live_from' = f.from
        /\ \/ pc' = "fetch" /\ cursor' = start /\ pages' = 0
           \/ UNCHANGED <<pc, cursor, pages>>
        /\ \/ holes' = holes \cup 1 .. f.from /\ UNCHANGED jumped
           \/ /\ channel_serial # NoSerial /\ UNCHANGED holes
              /\ jumped' = jumped \cup channel_serial + 1 .. f.serial
    BY <2>4 DEF Attach
  <2> HIDE DEF f, start
  <2>7. pages' \in 0 .. MaxPages /\ cursor' \in Serials /\ pc' \in {"idle", "fetch"}
    BY <2>1, <2>3, <2>5, <2>6, Bounds
  <2>8. 1 .. f.from \subseteq Msg
    BY <2>2, Bounds DEF Msg
  <2>9. channel_serial # NoSerial => channel_serial + 1 .. f.serial \subseteq Msg
    BY <2>2, <2>3, Bounds DEF Msg, Serials, NoSerial
  <2>10. holes' \subseteq Msg /\ jumped' \subseteq Msg
    BY <2>3, <2>6, <2>8, <2>9
  <2>11. UNCHANGED <<srvVars, deltaVars, subVars, work, cur, faults, got>>
    BY <1>7 DEF RecvAttached
  <2>12. QED
    BY <2>1, <2>2, <2>5, <2>6, <2>7, <2>10, <2>11
    DEF TypeInv, TypeOK, srvVars, deltaVars, subVars
<1>8. QED
  BY <1>1, <1>2, <1>3, <1>4, <1>5, <1>6, <1>7

LEMMA TailTypes ==
  ASSUME TypeInv, work # <<>>
  PROVE  Tail(work) \in Seq(WorkItem) /\ Head(work).msg \in Msg /\ Head(work).delta \in BOOLEAN
<1>1. work \in Seq(WorkItem)
  BY DEF TypeInv
<1>2. Head(work) \in WorkItem /\ Tail(work) \in Seq(WorkItem)
  BY <1>1
<1>3. QED
  BY <1>2 DEF WorkItem

\* The dispatch.
LEMMA DeliveryTypes ==
  ASSUME TypeInv, NextMessage \/ DeliverHistory \/ CallbackReturn,
         conn' \in 0 .. MaxFaults + 1
  PROVE  TypeInv'
<1>0. 1 \in 1 .. Slots + 1
  BY Bounds
<1>1. CASE NextMessage
  <2>1. /\ pc = "frame" /\ work # <<>> /\ work' = Tail(work) /\ Head(work).msg \in Msg
        /\ UNCHANGED <<srvVars, wire, state, channel_serial, subVars, gapVars, faults,
                       jumped, delta_enabled>>
        /\ DropsMessage \/ \E data \in Payload : DeliversMessage(data)
    BY <1>1, NextMessageCases
  <2>2. work' \in Seq(WorkItem)
    BY <2>1, TailTypes
  <2>3. CASE DropsMessage
    <3>1. holes' \subseteq Msg
      BY <2>1, <2>3 DEF DropsMessage, TypeInv, TypeOK
    <3>2. UNCHANGED <<delta_bufs, delta_buf_idx, pc, cur, got>>
      BY <2>3 DEF DropsMessage
    <3>3. QED
      BY <2>1, <2>2, <3>1, <3>2 DEF TypeInv, TypeOK, srvVars, subVars, gapVars
  <2>4. CASE \E data \in Payload : DeliversMessage(data)
    <3>1. PICK data \in Payload : DeliversMessage(data)
      BY <2>4
    <3>2. DispatchFrom(1, Head(work).msg, data, TRUE) /\ holes' = holes
      BY <3>1 DEF DeliversMessage
    <3>3. delta_bufs \in [0 .. 1 -> Payload] /\ delta_buf_idx \in 0 .. 1
      BY DEF TypeInv, TypeOK
    <3>4. Raw(Head(work).msg) \in Payload
      BY <2>1, PayloadTypes
    <3>5. delta_bufs' \in [0 .. 1 -> Payload] /\ delta_buf_idx' \in 0 .. 1
      BY <3>1, <3>3, <3>4 DEF DeliversMessage, BaseStep, Store, Other
    <3>6. /\ pc' \in {"idle", "frame", "fetch", "page", "callback"}
          /\ got' \in [Token -> Seq(Given)]
          /\ cur' \in [slot : 0 .. Slots, token : 0 .. MaxSubs, msg : 0 .. MaxMsg,
                       live : BOOLEAN, data : Payload]
          /\ pc' = "callback" =>
               cur'.slot \in 1 .. Slots /\ cur'.msg \in Msg /\ cur'.token \in Token
      BY <1>0, <2>1, <3>2, DispatchTypes
    <3>7. QED
      BY <2>1, <2>2, <3>2, <3>5, <3>6 DEF TypeInv, TypeOK, srvVars, subVars, gapVars
  <2>5. QED
    BY <2>1, <2>3, <2>4
<1>2. CASE DeliverHistory
  <2>1. UNCHANGED <<srvVars, wire, state, channel_serial, deltaVars, subVars, gapVars,
                    faults, lostVars>>
    BY <1>2 DEF DeliverHistory
  <2>2. CASE work = <<>>
    <3>1. pc' = "fetch" /\ UNCHANGED <<work, cur, got>>
      BY <1>2, <2>2 DEF DeliverHistory
    <3>2. QED
      BY <2>1, <3>1 DEF TypeInv, TypeOK, srvVars, deltaVars, subVars, gapVars, lostVars
  <2>3. CASE work # <<>>
    <3>1. /\ work' = Tail(work)
          /\ DispatchFrom(1, Head(work).msg, Raw(Head(work).msg), FALSE)
      BY <1>2, <2>3 DEF DeliverHistory
    <3>2. work' \in Seq(WorkItem) /\ Head(work).msg \in Msg
      BY <2>3, <3>1, TailTypes
    <3>3. Raw(Head(work).msg) \in Payload
      BY <3>2, PayloadTypes
    <3>4. /\ pc' \in {"idle", "frame", "fetch", "page", "callback"}
          /\ got' \in [Token -> Seq(Given)]
          /\ cur' \in [slot : 0 .. Slots, token : 0 .. MaxSubs, msg : 0 .. MaxMsg,
                       live : BOOLEAN, data : Payload]
          /\ pc' = "callback" =>
               cur'.slot \in 1 .. Slots /\ cur'.msg \in Msg /\ cur'.token \in Token
      BY <1>0, <3>1, <3>2, <3>3, DispatchTypes
    <3>5. QED
      BY <2>1, <3>2, <3>4 DEF TypeInv, TypeOK, srvVars, deltaVars, subVars, gapVars, lostVars
  <2>4. QED
    BY <2>2, <2>3
<1>3. CASE CallbackReturn
  <2>1. /\ pc = "callback" /\ cur.slot \in 1 .. Slots /\ cur.msg \in Msg
        /\ cur.live \in BOOLEAN /\ cur.data \in Payload
    BY <1>3 DEF CallbackReturn, TypeInv
  <2>2. UNCHANGED <<srvVars, wire, state, channel_serial, deltaVars, subVars, work,
                    gapVars, faults, jumped>>
    BY <1>3 DEF CallbackReturn
  <2>3. CASE /\ DispatchFrom(cur.slot + 1, cur.msg, cur.data, cur.live)
             /\ UNCHANGED holes
    <3>1. cur.slot + 1 \in 1 .. Slots + 1
      BY <2>1, Bounds
    <3>2. /\ pc' \in {"idle", "frame", "fetch", "page", "callback"}
          /\ got' \in [Token -> Seq(Given)]
          /\ cur' \in [slot : 0 .. Slots, token : 0 .. MaxSubs, msg : 0 .. MaxMsg,
                       live : BOOLEAN, data : Payload]
          /\ pc' = "callback" =>
               cur'.slot \in 1 .. Slots /\ cur'.msg \in Msg /\ cur'.token \in Token
      BY <2>1, <2>3, <3>1, DispatchTypes
    <3>3. QED
      BY <2>2, <2>3, <3>2 DEF TypeInv, TypeOK, srvVars, deltaVars, subVars, gapVars
  <2>4. CASE /\ pc' = Rest(cur.live) /\ cur' = NoDispatch
             /\ holes' = holes \cup {cur.msg} /\ UNCHANGED got
    <3>1. 0 \in 0 .. Slots /\ 0 \in 0 .. MaxSubs /\ 0 \in 0 .. MaxMsg
      BY Bounds
    <3>2. NoPayload \in Payload
      BY <2>1, PayloadTypes
    <3>3. cur' \in [slot : 0 .. Slots, token : 0 .. MaxSubs, msg : 0 .. MaxMsg,
                    live : BOOLEAN, data : Payload]
      BY <2>4, <3>1, <3>2 DEF NoDispatch
    <3>4. pc' \in {"frame", "page"}
      BY <2>4 DEF Rest
    <3>5. holes' \subseteq Msg
      BY <2>1, <2>4 DEF TypeInv, TypeOK
    <3>6. QED
      BY <2>2, <2>4, <3>3, <3>4, <3>5 DEF TypeInv, TypeOK, srvVars, deltaVars, subVars, gapVars
  <2>5. QED
    BY <1>3, <2>3, <2>4 DEF CallbackReturn
<1>4. QED
  BY <1>1, <1>2, <1>3

LEMMA MinOfTwo ==
  ASSUME NEW a \in Nat, NEW b \in Nat
  PROVE  Min({a, b}) = IF a <= b THEN a ELSE b
<1>1. {a, b} \subseteq Nat /\ {a, b} # {}
  OBVIOUS
<1>2. Min({a, b}) \in {a, b} /\ \A y \in {a, b} : Min({a, b}) <= y
  BY <1>1, MinIn
<1>3. QED
  BY <1>2

\* A page: the messages behind the cursor, up to last.
PageTo(last) ==
  /\ last = IF cursor + PageSize <= Len(published) THEN cursor + PageSize ELSE Len(published)
  /\ work' = [i \in 1 .. last - cursor |-> [msg |-> cursor + i, delta |-> FALSE]]
  /\ cursor' \in IF last < Len(published) THEN {last, channel_serial} ELSE {NoSerial}
  /\ pc' = "page" /\ UNCHANGED <<live_from, lostVars>>

LEMMA PageCases ==
  ASSUME TypeInv, cursor # NoSerial, GotPage
  PROVE  cursor \in 0 .. MaxMsg /\ \E last \in 0 .. MaxMsg : PageTo(last)
<1> DEFINE last == Min({cursor + PageSize, Len(published)})
<1>1. cursor \in 0 .. MaxMsg
  <2>1. cursor \in Serials
    BY DEF TypeInv, TypeOK
  <2>2. QED
    BY <2>1, Bounds DEF Serials, NoSerial
<1>2. Len(published) \in 0 .. MaxMsg
  BY PublishedType
<1>3. last = IF cursor + PageSize <= Len(published) THEN cursor + PageSize ELSE Len(published)
  BY <1>1, <1>2, MinOfTwo, Bounds
<1>4. last \in 0 .. MaxMsg
  BY <1>1, <1>2, <1>3, Bounds
<1>5. /\ work' = [i \in 1 .. last - cursor |-> [msg |-> cursor + i, delta |-> FALSE]]
      /\ cursor' \in IF last < Len(published) THEN {last, channel_serial} ELSE {NoSerial}
      /\ pc' = "page" /\ UNCHANGED <<live_from, lostVars>>
  BY DEF GotPage
<1> HIDE DEF last
<1>6. PageTo(last)
  BY <1>3, <1>5 DEF PageTo
<1>7. QED
  BY <1>1, <1>4, <1>6

\* What the recovery does, whichever way it goes.
LEMMA RecoveryCases ==
  ASSUME RecoverGap \/ RecoverFails
  PROVE  /\ pc = "fetch"
         /\ UNCHANGED <<srvVars, wire, state, channel_serial, deltaVars, subVars, cur, got>>
         /\ \/ GiveUp /\ (faults' = faults \/ (faults < MaxFaults /\ faults' = faults + 1))
            \/ /\ cursor # NoSerial /\ pages < MaxPages /\ GotPage /\ pages' = pages + 1
               /\ faults' = faults
BY DEF RecoverGap, RecoverFails

LEMMA RecoveryTypes ==
  ASSUME TypeInv, RecoverGap \/ RecoverFails, conn' \in 0 .. MaxFaults + 1
  PROVE  TypeInv'
<1>1. /\ pc = "fetch"
      /\ UNCHANGED <<srvVars, wire, state, channel_serial, deltaVars, subVars, cur, got>>
      /\ \/ GiveUp /\ (faults' = faults \/ (faults < MaxFaults /\ faults' = faults + 1))
         \/ /\ cursor # NoSerial /\ pages < MaxPages /\ GotPage /\ pages' = pages + 1
            /\ faults' = faults
  BY RecoveryCases
<1>2. /\ cursor \in Serials /\ channel_serial \in Serials /\ live_from \in 0 .. MaxMsg
      /\ holes \subseteq Msg /\ faults \in 0 .. MaxFaults /\ pages \in 0 .. MaxPages
  BY DEF TypeInv, TypeOK
<1>3. CASE GiveUp /\ (faults' = faults \/ (faults < MaxFaults /\ faults' = faults + 1))
  <2>1. faults' \in 0 .. MaxFaults
    BY <1>2, <1>3, Bounds
  <2>2. cursor # NoSerial => cursor + 1 .. live_from \subseteq Msg
    BY <1>2, Bounds DEF Serials, NoSerial, Msg
  <2>3. holes' = holes \cup IF cursor = NoSerial THEN {} ELSE cursor + 1 .. live_from
    BY <1>3 DEF GiveUp
  <2>4. holes' \subseteq Msg
    BY <1>2, <2>2, <2>3
  <2>5. pc' = "idle" /\ UNCHANGED <<work, gapVars, jumped>>
    BY <1>3 DEF GiveUp
  <2>6. QED
    BY <1>1, <2>1, <2>4, <2>5 DEF TypeInv, TypeOK, srvVars, deltaVars, subVars, gapVars
<1>4. CASE /\ cursor # NoSerial /\ pages < MaxPages /\ GotPage /\ pages' = pages + 1
           /\ faults' = faults
  <2>1. PICK last \in 0 .. MaxMsg : PageTo(last)
    BY <1>4, PageCases
  <2>2. cursor \in 0 .. MaxMsg
    BY <1>4, PageCases
  <2>3. cursor' \in Serials
    BY <1>2, <2>1, Bounds DEF PageTo, Serials, NoSerial
  <2>4. work' = [i \in 1 .. last - cursor |-> [msg |-> cursor + i, delta |-> FALSE]]
        /\ pc' = "page" /\ UNCHANGED <<live_from, lostVars>>
    BY <2>1 DEF PageTo
  <2>5. \A i \in 1 .. last - cursor : [msg |-> cursor + i, delta |-> FALSE] \in WorkItem
    BY <2>2, Bounds DEF WorkItem, Msg
  <2>6. work' \in Seq(WorkItem)
    <3>1. CASE cursor <= last
      <4>1. last - cursor \in Nat
        BY <2>2, <3>1
      <4>2. QED
        BY <2>4, <2>5, <4>1
    <3>2. CASE ~(cursor <= last)
      <4>1. 1 .. last - cursor = 1 .. 0
        BY <2>2, <3>2
      <4>2. work' = [i \in 1 .. 0 |-> [msg |-> cursor + i, delta |-> FALSE]]
        BY <2>4, <4>1
      <4>3. QED
        BY <2>5, <4>1, <4>2
    <3>3. QED
      BY <3>1, <3>2
  <2>7. pages' \in 0 .. MaxPages
    BY <1>2, <1>4, Bounds
  <2>8. QED
    BY <1>1, <1>4, <2>3, <2>4, <2>6, <2>7
    DEF TypeInv, TypeOK, srvVars, deltaVars, subVars, lostVars
<1>5. QED
  BY <1>1, <1>3, <1>4

LEMMA TypeStep ==
  ASSUME TypeInv, [Next]_vars, conn' \in 0 .. MaxFaults + 1
  PROVE  TypeInv'
<1>1. UNCHANGED vars => TypeInv'
  BY DEF vars, TypeInv, TypeOK, srvVars, deltaVars, subVars, gapVars, lostVars
<1>2. QED
  BY <1>1, ServerTypes, ClientTypes, DeliveryTypes, RecoveryTypes
  DEF Next, Service, Application, Environment

(* Part 4: the wire.                                                       *)

\* The steps that leave the wire and the client's place on it alone.
Apart ==
  \/ NextMessage \/ FrameDone \/ CallbackReturn \/ RecoverGap \/ DeliverHistory
  \/ RecoverFails \/ Subscribe \/ Unsubscribe \/ Publish \/ UNCHANGED vars

LEMMA ApartStep ==
  ASSUME TypeInv, Apart
  PROVE  /\ UNCHANGED <<srvAtt, srvPos, srvFresh, conn, wire, state, channel_serial,
                        delta_enabled, live_from>>
         /\ faults' = faults \/ faults' = faults + 1
         /\ Len(published) <= Len(published')
         /\ \A k \in 1 .. Len(published) : published'[k] = published[k]
<1> DEFINE Same == /\ UNCHANGED <<srvAtt, srvPos, srvFresh, conn, wire, state, channel_serial,
                                  delta_enabled, live_from>>
                   /\ faults' = faults \/ faults' = faults + 1
<1>1. NextMessage => Same /\ published' = published
  BY NextMessageCases DEF srvVars, gapVars
<1>2. FrameDone \/ CallbackReturn \/ DeliverHistory \/ Subscribe \/ Unsubscribe
        => Same /\ published' = published
  BY DEF FrameDone, CallbackReturn, DeliverHistory, Subscribe, Unsubscribe, srvVars,
         gapVars, deltaVars
<1>3. RecoverGap \/ RecoverFails => Same /\ published' = published
  BY RecoveryCases DEF srvVars, deltaVars, gapVars, GiveUp, GotPage
<1>4. UNCHANGED vars => Same /\ published' = published
  BY DEF vars, srvVars, deltaVars, gapVars
<1>5. Publish => Same /\ \E b : published' = Append(published, b)
  BY DEF Publish, deltaVars, gapVars
<1>6. published \in Seq(AllBodies) /\ Len(published) \in Nat
  BY PublishedType
<1>7. published' = published \/ \E b : published' = Append(published, b) =>
        /\ Len(published) <= Len(published')
        /\ \A k \in 1 .. Len(published) : published'[k] = published[k]
  BY <1>6
<1> HIDE DEF Same
<1>8. Same /\ (published' = published \/ \E b : published' = Append(published, b))
  BY <1>1, <1>2, <1>3, <1>4, <1>5 DEF Apart
<1>9. QED
  BY <1>6, <1>7, <1>8 DEF Same

LEMMA WireTypes ==
  ASSUME TypeInv
  PROVE  /\ wire \in Seq(Frames) /\ Len(wire) \in Nat
         /\ wire = <<>> <=> Len(wire) = 0
         /\ \A i \in 1 .. Len(wire) : wire[i] \in Frames
         /\ channel_serial \in Int /\ live_from \in Nat /\ Reached \in Int
         /\ channel_serial >= -1 /\ channel_serial <= MaxMsg /\ srvPos \in Nat
<1>1. /\ wire \in Seq(Frames) /\ channel_serial \in Serials /\ live_from \in 0 .. MaxMsg
      /\ srvPos \in 0 .. MaxMsg
  BY DEF TypeInv, TypeOK
<1>2. /\ channel_serial \in Int /\ live_from \in Nat
      /\ channel_serial >= -1 /\ channel_serial <= MaxMsg /\ srvPos \in Nat
  BY <1>1, Bounds DEF Serials, NoSerial
<1>3. QED
  BY <1>1, <1>2 DEF Reached

LEMMA AfterTail ==
  ASSUME TypeInv, wire # <<>>
  PROVE  /\ Head(wire) = wire[1] /\ Len(Tail(wire)) = Len(wire) - 1 /\ Len(wire) >= 1
         /\ \A i \in 1 .. Len(wire) - 1 : Tail(wire)[i] = wire[i + 1]
BY WireTypes

LEMMA ApartWire ==
  ASSUME TypeInv, WireInv, Apart
  PROVE  WireInv'
<1>1. /\ UNCHANGED <<srvAtt, srvPos, srvFresh, conn, wire, state, channel_serial,
                     delta_enabled, live_from>>
      /\ Len(published) <= Len(published') /\ Len(published') \in Int /\ Len(published) \in Nat
  <2>1. published' \in Seq(AllBodies)
    <3>1. conn' = conn
      BY ApartStep
    <3>2. [Next]_vars
      BY DEF Apart, Next, Service, Application, Environment
    <3>3. conn' \in 0 .. MaxFaults + 1
      BY <3>1 DEF TypeInv, TypeOK
    <3>4. TypeInv'
      BY <3>2, <3>3, TypeStep
    <3>5. QED
      BY <3>4 DEF TypeInv, TypeOK
  <2>2. QED
    BY <2>1, ApartStep, PublishedType
<1>2. \A i \in 1 .. Len(wire) : wire[i] \in Frames
  BY WireTypes
<1>3. ASSUME NEW f \in Frames, f.kind = "ATTACHED",
             AttachedOK(f, channel_serial, Len(published))
      PROVE  AttachedOK(f, channel_serial, Len(published'))
  <2>1. f.from \in 0 .. MaxMsg
    BY <1>3, FrameTypes
  <2>2. f.from \in Int
    BY <2>1, Bounds
  <2>3. QED
    BY <1>1, <1>3, <2>2 DEF AttachedOK
<1>4. ASSUME NEW f \in Frames, f.kind = "MESSAGE", NEW b, NEW fresh,
             MessageOK(f, b, fresh, Len(published), delta_enabled)
      PROVE  MessageOK(f, b, fresh, Len(published'), delta_enabled)
  <2>1. f.serial \in Msg
    BY <1>4, FrameTypes
  <2>2. f.serial \in Int
    BY <2>1 DEF Msg
  <2>3. QED
    BY <1>1, <1>4, <2>2 DEF MessageOK
<1>5. Reached' = Reached /\ Fresh' = Fresh
  BY <1>1 DEF Reached, Fresh
<1>6. \A i : Before(i)' = Before(i) /\ FreshBefore(i)' = FreshBefore(i)
  BY <1>1, <1>5 DEF Before, FreshBefore
<1>7. QED
  BY <1>1, <1>2, <1>3, <1>4, <1>5, <1>6 DEF WireInv

LEMMA ConnStep ==
  ASSUME TypeInv, WireInv, ConnInv, [Next]_vars
  PROVE  ConnInv' /\ conn' \in 0 .. MaxFaults + 1
<1>1. conn \in 0 .. MaxFaults + 1 /\ faults \in 0 .. MaxFaults
  BY DEF TypeInv, TypeOK
<1>2. CASE Apart
  BY <1>1, <1>2, ApartStep, Bounds DEF ConnInv
<1>3. CASE ServerAttach \/ ServerSend \/ EnableDelta
  <2>1. UNCHANGED <<conn, faults, state>>
    BY <1>3 DEF ServerAttach, ServerSend, EnableDelta
  <2>2. (srvAtt' /\ state # "DETACHED") \/ (srvAtt' = srvAtt /\ state = "DETACHED")
    BY <1>3 DEF ServerAttach, ServerSend, EnableDelta, srvVars, WireInv
  <2>3. QED
    BY <1>1, <2>1, <2>2 DEF ConnInv
<1>4. CASE Drop
  BY <1>1, <1>4, Bounds DEF Drop, ConnInv
<1>5. CASE RecvMessage \/ RecvAttached
  <2>1. /\ UNCHANGED <<conn, faults, srvAtt>> /\ wire # <<>>
        /\ state' = "ATTACHED" \/ state' = state
    BY <1>5 DEF RecvMessage, RecvAttached, Attach, Arrived, srvVars
  <2>2. QED
    BY <1>1, <2>1 DEF ConnInv
<1>6. CASE OnDisconnect
  <2>1. wire # <<>> /\ Head(wire).kind = "LOST" /\ UNCHANGED <<conn, faults>>
    BY <1>6 DEF OnDisconnect, Arrived, srvVars
  <2>2. 1 \in 1 .. Len(wire) /\ wire[1].kind = "LOST"
    BY <2>1, AfterTail, WireTypes
  <2>3. ~srvAtt
    BY <2>2 DEF WireInv
  <2>4. QED
    BY <1>1, <2>1, <2>3 DEF ConnInv
<1>7. CASE Attaching
  <2>1. state = "DETACHED" /\ state' = "ATTACHING" /\ conn' = conn + 1
        /\ UNCHANGED <<faults, wire>>
    BY <1>7 DEF Attaching
  <2>2. wire = <<>>
    BY <2>1 DEF WireInv
  <2>3. QED
    BY <1>1, <2>1, <2>2, Bounds DEF ConnInv
<1>8. ConnInv' /\ conn' \in Nat /\ faults' \in 0 .. MaxFaults
  <2>1. ConnInv'
    BY <1>2, <1>3, <1>4, <1>5, <1>6, <1>7 DEF Next, Service, Application, Environment, Apart
  <2>2. conn' = conn \/ conn' = conn + 1
    <3>1. Apart => conn' = conn
      BY ApartStep
    <3>2. ServerAttach \/ ServerSend \/ EnableDelta \/ Drop \/ RecvMessage \/ RecvAttached
            \/ OnDisconnect => conn' = conn
      BY DEF ServerAttach, ServerSend, EnableDelta, Drop, RecvMessage, RecvAttached,
             OnDisconnect, srvVars
    <3>3. Attaching => conn' = conn + 1
      BY DEF Attaching
    <3>4. QED
      BY <3>1, <3>2, <3>3 DEF Next, Service, Application, Environment, Apart
  <2>3. faults' = faults \/ (faults < MaxFaults /\ faults' = faults + 1)
    <3>1. RecoverGap \/ RecoverFails =>
            faults' = faults \/ (faults < MaxFaults /\ faults' = faults + 1)
      BY RecoveryCases
    <3>2. NextMessage => faults' = faults
      BY NextMessageCases
    <3>3. Service \/ Application \/ Environment \/ UNCHANGED vars =>
            \/ RecoverGap \/ RecoverFails \/ NextMessage \/ faults' = faults
            \/ (faults < MaxFaults /\ faults' = faults + 1)
      BY DEF Service, Application, Environment, vars, RecvMessage, FrameDone, CallbackReturn,
             RecvAttached, DeliverHistory, OnDisconnect, Attaching, Subscribe, Unsubscribe,
             EnableDelta, Publish, ServerAttach, ServerSend, Drop
    <3>4. QED
      BY <3>1, <3>2, <3>3 DEF Next
  <2>4. QED
    BY <1>1, <2>1, <2>2, <2>3, Bounds
<1>9. conn' <= faults' + 1
  BY <1>8 DEF ConnInv
<1>10. conn' \in 0 .. MaxFaults + 1
  <2>1. conn' \in Nat /\ faults' \in 0 .. MaxFaults
    BY <1>8
  <2>2. MaxFaults \in Nat
    BY Bounds
  <2>3. \A c \in Nat, g \in 0 .. MaxFaults : c <= g + 1 => c \in 0 .. MaxFaults + 1
    BY <2>2
  <2>4. QED
    BY <1>9, <2>1, <2>3, Zenon
<1>11. QED
  BY <1>8, <1>10

\* The server's steps.
LEMMA ServerWire ==
  ASSUME TypeInv, PlaceInv, WireInv, ServerAttach \/ ServerSend \/ Drop \/ EnableDelta \/ Attaching
  PROVE  WireInv'
<1>1. CASE ServerAttach
  <2>1. PICK resumed \in BOOLEAN, backlog \in BOOLEAN, named \in BOOLEAN :
          /\ resumed => channel_serial # NoSerial
          /\ backlog => resumed
          /\ LET pos == IF resumed /\ ~backlog THEN channel_serial ELSE Len(published)
             IN /\ srvPos' = pos
                /\ wire' = Append(wire, [kind |-> "ATTACHED",
                                         serial |-> IF named THEN pos ELSE NoSerial,
                                         resumed |-> resumed, backlog |-> backlog,
                                         from |-> pos])
    BY <1>1 DEF ServerAttach
  <2> DEFINE pos == IF resumed /\ ~backlog THEN channel_serial ELSE Len(published)
             ser == IF named THEN pos ELSE NoSerial
             f == [kind |-> "ATTACHED", serial |-> ser, resumed |-> resumed,
                   backlog |-> backlog, from |-> pos]
  <2>2. /\ state = "ATTACHING" /\ state' = state /\ wire = <<>>
        /\ srvAtt' = TRUE /\ srvFresh' = TRUE
        /\ UNCHANGED <<published, channel_serial>>
    BY <1>1 DEF ServerAttach
  <2>3. channel_serial <= Len(published) /\ channel_serial \in Int /\ Len(published) \in Nat
    BY WireTypes, PublishedType DEF PlaceInv
  <2>4. AttachedOK(f, channel_serial, Len(published))
    BY <2>1, <2>3 DEF AttachedOK
  <2>5. srvPos' = pos /\ wire' = <<f>>
    BY <2>1, <2>2
  <2>6. f.kind = "ATTACHED" /\ f.from = pos
    OBVIOUS
  <2> HIDE DEF f
  <2>7. Len(wire') = 1 /\ wire'[1] = f /\ wire' # <<>>
    BY <2>5
  <2>8. End(f) = pos
    BY <2>6 DEF End
  <2> HIDE DEF pos
  <2>9. \A i \in 1 .. Len(wire') : i = 1
    BY <2>7
  <2>10. QED
    BY <2>2, <2>4, <2>5, <2>6, <2>7, <2>8, <2>9 DEF WireInv
<1>2. CASE ServerSend
  <2>1. PICK n \in 1 .. 2 :
          /\ srvPos + n <= Len(published)
          /\ \E deltas \in [1 .. n -> BOOLEAN] :
               /\ ~delta_enabled => \A i \in 1 .. n : ~deltas[i]
               /\ srvFresh => ~deltas[1]
               /\ wire' = Append(wire, [kind |-> "MESSAGE", serial |-> srvPos + n,
                            msgs |-> [i \in 1 .. n |-> [msg |-> srvPos + i, delta |-> deltas[i]]]])
          /\ srvPos' = srvPos + n
    BY <1>2 DEF ServerSend
  <2>2. PICK deltas \in [1 .. n -> BOOLEAN] :
          /\ ~delta_enabled => \A i \in 1 .. n : ~deltas[i]
          /\ srvFresh => ~deltas[1]
          /\ wire' = Append(wire, [kind |-> "MESSAGE", serial |-> srvPos + n,
                       msgs |-> [i \in 1 .. n |-> [msg |-> srvPos + i, delta |-> deltas[i]]]])
    BY <2>1
  <2> DEFINE msgs == [i \in 1 .. n |-> [msg |-> srvPos + i, delta |-> deltas[i]]]
             f == [kind |-> "MESSAGE", serial |-> srvPos + n, msgs |-> msgs]
             last == Len(wire) + 1
  <2>3. /\ srvAtt /\ srvAtt' = srvAtt /\ srvFresh' = FALSE
        /\ UNCHANGED <<published, state, channel_serial, delta_enabled, live_from>>
    BY <1>2 DEF ServerSend, deltaVars, gapVars
  <2>4. wire' = Append(wire, f)
    BY <2>2
  <2>5. /\ Len(wire') = last /\ wire'[last] = f /\ wire' # <<>> /\ last >= 1
        /\ \A i \in 1 .. Len(wire) : wire'[i] = wire[i]
        /\ \A i \in 1 .. last : i \in 1 .. Len(wire) \/ i = last
        /\ last > 1 => last - 1 \in 1 .. Len(wire)
        /\ (last = 1 <=> wire = <<>>)
    <3>1. Len(wire) \in Nat /\ wire \in Seq(Frames) /\ (wire = <<>> <=> Len(wire) = 0)
      BY WireTypes
    <3> HIDE DEF f
    <3>2. Len(wire') = last /\ wire'[last] = f
      BY <2>4, <3>1
    <3>3. \A i \in 1 .. Len(wire) : wire'[i] = wire[i]
      BY <2>4, <3>1
    <3>4. wire' # <<>>
      BY <3>1, <3>2
    <3>5. QED
      BY <3>1, <3>2, <3>3, <3>4
  <2>6. Len(msgs) = n /\ msgs # <<>> /\ msgs[1].delta = deltas[1]
        /\ \A k \in 1 .. n : msgs[k].msg = srvPos + k /\ msgs[k].delta = deltas[k]
    <3>1. n \in Nat /\ 1 \in 1 .. n
      BY <2>1
    <3>2. QED
      BY <3>1
  <2>7. f.kind = "MESSAGE" /\ f.serial = srvPos + n /\ f.msgs = msgs
    OBVIOUS
  <2> HIDE DEF f, msgs
  <2>8. Before(last) = srvPos /\ (FreshBefore(last) => srvFresh)
    BY <2>3, <2>5 DEF WireInv, Before, FreshBefore
  <2>9. Reached' = Reached /\ Fresh' = Fresh
    BY <2>3 DEF Reached, Fresh
  <2>10. \A i \in 1 .. last : Before(i)' = Before(i) /\ FreshBefore(i)' = FreshBefore(i)
    <3> TAKE i \in 1 .. last
    <3>1. i # 1 => i - 1 \in 1 .. Len(wire)
      BY <2>5, WireTypes
    <3>2. i # 1 => wire'[i - 1] = wire[i - 1]
      BY <2>5, <3>1
    <3>3. QED
      BY <2>9, <3>2 DEF Before, FreshBefore
  <2>11. MessageOK(f, srvPos, FreshBefore(last), Len(published), delta_enabled)
    BY <2>1, <2>2, <2>6, <2>7, <2>8 DEF MessageOK
  <2>12. last = 1 => state = "ATTACHED"
    <3>1. state \in {"DETACHED", "ATTACHING", "ATTACHED"}
      BY DEF TypeInv, TypeOK
    <3>2. QED
      BY <2>3, <2>5, <3>1 DEF WireInv
  <2>13. End(f) = srvPos + n
    BY <2>7 DEF End
  <2> HIDE DEF last
  <2>14. ASSUME NEW i \in 1 .. Len(wire')
         PROVE  /\ wire'[i].kind = "ATTACHED" =>
                     /\ i = 1 /\ state' = "ATTACHING"
                     /\ AttachedOK(wire'[i], channel_serial', Len(published'))
                /\ wire'[i].kind = "LOST" => i = Len(wire') /\ ~srvAtt'
                /\ wire'[i].kind = "MESSAGE" =>
                     /\ i = 1 => state' = "ATTACHED"
                     /\ MessageOK(wire'[i], Before(i)', FreshBefore(i)', Len(published'),
                                  delta_enabled')
    <3>1. CASE i = last
      BY <2>3, <2>5, <2>7, <2>8, <2>10, <2>11, <2>12, <3>1
    <3>2. CASE i \in 1 .. Len(wire)
      <4>1. wire'[i] = wire[i] /\ Before(i)' = Before(i) /\ FreshBefore(i)' = FreshBefore(i)
        BY <2>5, <2>10, <3>2
      <4>2. QED
        BY <2>3, <3>2, <4>1 DEF WireInv
    <3>3. QED
      BY <2>5, <3>1, <3>2
  <2>15. QED
    BY <2>1, <2>3, <2>5, <2>7, <2>13, <2>14 DEF WireInv
<1>3. CASE Drop
  <2>1. PICK n \in 0 .. Len(wire) : wire' = Append(SubSeq(wire, 1, n), [kind |-> "LOST"])
    BY <1>3 DEF Drop
  <2> DEFINE l == [kind |-> "LOST"]
  <2>2. /\ state # "DETACHED" /\ srvAtt /\ ~srvAtt'
        /\ UNCHANGED <<published, state, channel_serial, delta_enabled, live_from>>
    BY <1>3 DEF Drop, deltaVars, gapVars
  <2>3. /\ Len(wire') = n + 1 /\ wire'[n + 1] = l /\ n \in Nat
        /\ \A i \in 1 .. n : wire'[i] = wire[i] /\ i \in 1 .. Len(wire)
        /\ \A i \in 1 .. n + 1 : i \in 1 .. n \/ i = n + 1
    BY <2>1, WireTypes
  <2>4. l.kind = "LOST"
    OBVIOUS
  <2> HIDE DEF l
  <2>5. Reached' = Reached /\ Fresh' = Fresh
    BY <2>2 DEF Reached, Fresh
  <2>6. \A i \in 1 .. n : Before(i)' = Before(i) /\ FreshBefore(i)' = FreshBefore(i)
    <3> TAKE i \in 1 .. n
    <3>1. i # 1 => i - 1 \in 1 .. n
      BY <2>3
    <3>2. QED
      BY <2>3, <2>5, <3>1 DEF Before, FreshBefore
  <2>7. ASSUME NEW i \in 1 .. Len(wire')
        PROVE  /\ wire'[i].kind = "ATTACHED" =>
                    /\ i = 1 /\ state' = "ATTACHING"
                    /\ AttachedOK(wire'[i], channel_serial', Len(published'))
               /\ wire'[i].kind = "LOST" => i = Len(wire') /\ ~srvAtt'
               /\ wire'[i].kind = "MESSAGE" =>
                    /\ i = 1 => state' = "ATTACHED"
                    /\ MessageOK(wire'[i], Before(i)', FreshBefore(i)', Len(published'),
                                 delta_enabled')
    <3>1. CASE i = n + 1
      BY <2>2, <2>3, <2>4, <3>1
    <3>2. CASE i \in 1 .. n
      <4>1. wire'[i] = wire[i] /\ Before(i)' = Before(i) /\ FreshBefore(i)' = FreshBefore(i)
            /\ i \in 1 .. Len(wire)
        BY <2>3, <2>6, <3>2
      <4>2. QED
        BY <2>2, <4>1 DEF WireInv
    <3>3. QED
      BY <2>3, <3>1, <3>2
  <2>8. QED
    BY <2>2, <2>7 DEF WireInv
<1>4. CASE EnableDelta \/ Attaching
  <2>1. state = "DETACHED" /\ UNCHANGED <<wire, srvAtt>>
    BY <1>4 DEF EnableDelta, Attaching, srvVars
  <2>2. wire = <<>> /\ ~srvAtt
    BY <2>1 DEF WireInv
  <2>3. \A i \in 1 .. Len(wire) : FALSE
    BY <2>2
  <2>4. QED
    BY <2>1, <2>2, <2>3 DEF WireInv
<1>5. QED
  BY <1>1, <1>2, <1>3, <1>4

\* The client takes a frame that is not the last of the connection off the wire.
LEMMA TakesFrame ==
  ASSUME TypeInv, WireInv, wire # <<>>, wire' = Tail(wire), wire[1].kind # "LOST",
         Reached' = End(wire[1]), Fresh' <=> wire[1].kind = "ATTACHED",
         state' = "ATTACHED",
         UNCHANGED <<published, srvAtt, srvPos, srvFresh, delta_enabled>>
  PROVE  WireInv'
<1> DEFINE n == Len(wire) - 1
<1>1. /\ Len(wire') = n /\ n \in Nat /\ Len(wire) = n + 1 /\ (wire' = <<>> <=> n = 0)
      /\ \A i \in 1 .. n : wire'[i] = wire[i + 1] /\ i + 1 \in 1 .. Len(wire) /\ i + 1 # 1
  <2>1. Len(wire') = n /\ n \in Nat /\ Len(wire) = n + 1
    BY AfterTail, WireTypes
  <2>2. \A i \in 1 .. n : wire'[i] = wire[i + 1]
    BY AfterTail
  <2>3. wire' \in Seq(Frames)
    BY WireTypes
  <2>4. wire' = <<>> <=> n = 0
    <3>1. \A s \in Seq(Frames) : s = <<>> <=> Len(s) = 0
      OBVIOUS
    <3>2. wire' = <<>> <=> Len(wire') = 0
      BY <2>3, <3>1
    <3>3. QED
      BY <2>1, <3>2
  <2>5. QED
    BY <2>1, <2>2, <2>4
<1>2. \A i \in 1 .. n : Before(i)' = Before(i + 1) /\ (FreshBefore(i)' <=> FreshBefore(i + 1))
  <2> TAKE i \in 1 .. n
  <2>1. Before(i + 1) = End(wire[i]) /\ FreshBefore(i + 1) = (wire[i].kind = "ATTACHED")
    <3>1. i + 1 # 1 /\ (i + 1) - 1 = i
      BY <1>1
    <3>2. QED
      BY <3>1 DEF Before, FreshBefore
  <2>2. CASE i = 1
    BY <2>1, <2>2 DEF Before, FreshBefore
  <2>3. CASE i # 1
    <3>1. i - 1 \in 1 .. n /\ (i - 1) + 1 = i
      BY <1>1, <2>3
    <3>2. wire'[i - 1] = wire[i]
      BY <1>1, <3>1
    <3>3. Before(i)' = End(wire[i]) /\ FreshBefore(i)' = (wire[i].kind = "ATTACHED")
      BY <2>3, <3>2 DEF Before, FreshBefore, End
    <3>4. QED
      BY <2>1, <3>3
  <2>4. QED
    BY <2>2, <2>3
<1> HIDE DEF n
<1>3. ASSUME NEW i \in 1 .. Len(wire')
      PROVE  /\ wire'[i].kind = "ATTACHED" =>
                  /\ i = 1 /\ state' = "ATTACHING"
                  /\ AttachedOK(wire'[i], channel_serial', Len(published'))
             /\ wire'[i].kind = "LOST" => i = Len(wire') /\ ~srvAtt'
             /\ wire'[i].kind = "MESSAGE" =>
                  /\ i = 1 => state' = "ATTACHED"
                  /\ MessageOK(wire'[i], Before(i)', FreshBefore(i)', Len(published'),
                               delta_enabled')
  <2>1. i \in 1 .. n /\ wire'[i] = wire[i + 1] /\ i + 1 \in 1 .. Len(wire) /\ i + 1 # 1
    BY <1>1
  <2>2. wire'[i].kind # "ATTACHED"
    BY <2>1 DEF WireInv
  <2>3. wire'[i].kind = "LOST" => i = Len(wire') /\ ~srvAtt'
    <3>1. wire[i + 1].kind = "LOST" => i + 1 = Len(wire) /\ ~srvAtt
      BY <2>1 DEF WireInv
    <3>2. QED
      BY <1>1, <2>1, <3>1
  <2>4. wire[i + 1].kind = "MESSAGE" =>
          MessageOK(wire[i + 1], Before(i + 1), FreshBefore(i + 1), Len(published), delta_enabled)
    BY <2>1 DEF WireInv
  <2>5. wire[i + 1].kind = "MESSAGE" =>
          MessageOK(wire[i + 1], Before(i)', FreshBefore(i)', Len(published), delta_enabled)
    BY <1>2, <2>1, <2>4 DEF MessageOK
  <2>6. QED
    BY <2>1, <2>2, <2>3, <2>5
<1>4. srvAtt => srvPos = IF wire' = <<>> THEN Reached' ELSE End(wire'[Len(wire')])
  <2>1. srvAtt => srvPos = End(wire[Len(wire)])
    BY DEF WireInv
  <2>2. CASE n = 0
    BY <1>1, <2>1, <2>2
  <2>3. CASE n # 0
    <3>1. n \in 1 .. n
      BY <1>1, <2>3
    <3>2. wire'[Len(wire')] = wire[Len(wire)]
      BY <1>1, <3>1
    <3>3. QED
      BY <1>1, <2>1, <2>3, <3>2
  <2>4. QED
    BY <2>2, <2>3
<1>5. srvAtt /\ (IF wire' = <<>> THEN Fresh' ELSE wire'[Len(wire')].kind = "ATTACHED") => srvFresh
  <2>1. srvAtt /\ wire[Len(wire)].kind = "ATTACHED" => srvFresh
    BY DEF WireInv
  <2>2. CASE n = 0
    BY <1>1, <2>1, <2>2
  <2>3. CASE n # 0
    <3>1. n \in 1 .. n
      BY <1>1, <2>3
    <3>2. wire'[Len(wire')] = wire[Len(wire)]
      BY <1>1, <3>1
    <3>3. QED
      BY <1>1, <2>1, <2>3, <3>2
  <2>4. QED
    BY <2>2, <2>3
<1>6. End(wire[Len(wire)])' = End(wire'[Len(wire')])
  BY DEF End
<1>7. QED
  BY <1>3, <1>4, <1>5, <1>6 DEF WireInv

\* The first frame, as the client finds it.
LEMMA FirstFrame ==
  ASSUME TypeInv, WireInv, wire # <<>>
  PROVE  /\ Head(wire) = wire[1] /\ wire[1] \in Frames
         /\ wire[1].kind = "MESSAGE" =>
              /\ state = "ATTACHED"
              /\ MessageOK(wire[1], Reached, Fresh, Len(published), delta_enabled)
         /\ wire[1].kind = "ATTACHED" =>
              state = "ATTACHING" /\ AttachedOK(wire[1], channel_serial, Len(published))
         /\ wire[1].kind = "LOST" => Len(wire) = 1 /\ ~srvAtt /\ Tail(wire) = <<>>
<1>1. Head(wire) = wire[1] /\ 1 \in 1 .. Len(wire)
  BY AfterTail, WireTypes
<1>2. wire[1] \in Frames
  BY <1>1, WireTypes
<1>3. Before(1) = Reached /\ FreshBefore(1) = Fresh
  BY DEF Before, FreshBefore
<1>4. wire[1].kind = "LOST" => Len(wire) = 1 /\ ~srvAtt
  BY <1>1, AfterTail DEF WireInv
<1>5. Len(wire) = 1 => Tail(wire) = <<>>
  <2>1. \A s \in Seq(Frames) : Len(s) = 0 => s = <<>>
    OBVIOUS
  <2>2. Tail(wire) \in Seq(Frames) /\ Len(Tail(wire)) = Len(wire) - 1
    BY WireTypes
  <2>3. Len(wire) = 1 => Len(Tail(wire)) = 0
    BY <2>2
  <2>4. QED
    BY <2>1, <2>2, <2>3
<1>6. wire[1].kind = "MESSAGE" =>
        /\ state = "ATTACHED"
        /\ MessageOK(wire[1], Reached, Fresh, Len(published), delta_enabled)
  BY <1>1, <1>3 DEF WireInv
<1>7. wire[1].kind = "ATTACHED" =>
        state = "ATTACHING" /\ AttachedOK(wire[1], channel_serial, Len(published))
  BY <1>1 DEF WireInv
<1>8. QED
  BY <1>1, <1>2, <1>4, <1>5, <1>6, <1>7

\* Where a MESSAGE and an ATTACHED take the client.
LEMMA RecvMessagePlace ==
  ASSUME TypeInv, WireInv, RecvMessage
  PROVE  /\ wire # <<>> /\ wire[1].kind = "MESSAGE" /\ wire' = Tail(wire)
         /\ state = "ATTACHED" /\ state' = state /\ pc = "idle"
         /\ channel_serial' = wire[1].serial /\ work' = wire[1].msgs
         /\ MessageOK(wire[1], Reached, Fresh, Len(published), delta_enabled)
         /\ channel_serial' \in Nat /\ Reached \in Int /\ Len(work') \in Nat
         /\ channel_serial' - Len(work') = Reached /\ channel_serial' > Reached
         /\ Reached >= live_from /\ live_from' = live_from
         /\ Reached' = End(wire[1]) /\ ~Fresh'
<1>1. /\ wire # <<>> /\ Head(wire).kind = "MESSAGE" /\ wire' = Tail(wire) /\ pc = "idle"
      /\ channel_serial' = Head(wire).serial /\ work' = Head(wire).msgs
      /\ state' = state /\ live_from' = live_from
  BY DEF RecvMessage, Arrived, gapVars
<1>2. /\ Head(wire) = wire[1] /\ wire[1] \in Frames /\ state = "ATTACHED"
      /\ MessageOK(wire[1], Reached, Fresh, Len(published), delta_enabled)
  BY <1>1, FirstFrame
<1>3. wire[1].serial \in Msg /\ wire[1].msgs \in Seq(WorkItem)
  BY <1>1, <1>2, FrameTypes
<1>4. Len(wire[1].msgs) \in Nat /\ Len(wire[1].msgs) # 0
  BY <1>2, <1>3 DEF MessageOK
<1>5. wire[1].serial = Reached + Len(wire[1].msgs) /\ wire[1].serial \in Nat
  BY <1>2, <1>3 DEF MessageOK, Msg
<1>6. Reached \in Int /\ Reached >= live_from /\ live_from \in Nat
  BY WireTypes DEF Reached
<1>7. channel_serial' > live_from
  BY <1>1, <1>2, <1>4, <1>5, <1>6
<1>8. Reached' = channel_serial' /\ ~Fresh'
  BY <1>1, <1>2, <1>5, <1>6, <1>7 DEF Reached, Fresh
<1>9. End(wire[1]) = wire[1].serial
  BY <1>1, <1>2 DEF End
<1>10. QED
  BY <1>1, <1>2, <1>4, <1>5, <1>6, <1>8, <1>9

LEMMA RecvAttachedPlace ==
  ASSUME TypeInv, WireInv, RecvAttached
  PROVE  /\ wire # <<>> /\ wire[1].kind = "ATTACHED" /\ wire' = Tail(wire)
         /\ state = "ATTACHING" /\ state' = "ATTACHED" /\ pc = "idle"
         /\ AttachedOK(wire[1], channel_serial, Len(published))
         /\ Attach(wire[1], ~wire[1].resumed \/ wire[1].backlog)
         /\ wire[1].from \in Nat /\ wire[1].serial \in Serials /\ live_from' = wire[1].from
         /\ channel_serial' \in Int /\ channel_serial \in Int
         /\ channel_serial' = IF wire[1].serial = NoSerial THEN channel_serial ELSE wire[1].from
         /\ channel_serial <= channel_serial' /\ channel_serial' <= live_from'
         /\ Reached' = live_from' /\ Reached' = End(wire[1]) /\ Fresh'
<1>1. /\ wire # <<>> /\ Head(wire).kind = "ATTACHED" /\ wire' = Tail(wire) /\ pc = "idle"
      /\ Attach(Head(wire), ~Head(wire).resumed \/ Head(wire).backlog)
  BY DEF RecvAttached, Arrived
<1>2. /\ Head(wire) = wire[1] /\ wire[1] \in Frames /\ state = "ATTACHING"
      /\ AttachedOK(wire[1], channel_serial, Len(published))
  BY <1>1, FirstFrame
<1>3. wire[1].serial \in Serials /\ wire[1].from \in 0 .. MaxMsg
  BY <1>1, <1>2, FrameTypes
<1>4. wire[1].from \in Nat /\ channel_serial \in Int
  BY <1>3, WireTypes, Bounds
<1>5. /\ state' = "ATTACHED" /\ live_from' = wire[1].from
      /\ channel_serial' = IF wire[1].serial # NoSerial THEN wire[1].serial ELSE channel_serial
  BY <1>1, <1>2 DEF Attach
<1>6. /\ channel_serial <= wire[1].from
      /\ wire[1].serial = NoSerial \/ wire[1].serial = wire[1].from
  BY <1>2 DEF AttachedOK
<1>7. /\ channel_serial' = IF wire[1].serial = NoSerial THEN channel_serial ELSE wire[1].from
      /\ channel_serial' \in Int
      /\ channel_serial <= channel_serial' /\ channel_serial' <= live_from'
  BY <1>4, <1>5, <1>6
<1>8. Reached' = live_from' /\ Fresh'
  BY <1>4, <1>5, <1>7 DEF Reached, Fresh
<1>9. End(wire[1]) = wire[1].from
  BY <1>1, <1>2 DEF End
<1>10. QED
  BY <1>1, <1>2, <1>3, <1>4, <1>5, <1>7, <1>8, <1>9

LEMMA WireStep ==
  ASSUME TypeInv, PlaceInv, WireInv, [Next]_vars
  PROVE  WireInv'
<1>1. CASE RecvMessage
  <2>1. UNCHANGED <<published, srvAtt, srvPos, srvFresh, delta_enabled>>
    BY <1>1 DEF RecvMessage, srvVars, deltaVars
  <2>2. QED
    BY <1>1, <2>1, RecvMessagePlace, TakesFrame
<1>2. CASE RecvAttached
  <2>1. UNCHANGED <<published, srvAtt, srvPos, srvFresh, delta_enabled>>
    BY <1>2 DEF RecvAttached, srvVars, deltaVars
  <2>2. QED
    BY <1>2, <2>1, RecvAttachedPlace, TakesFrame
<1>3. CASE OnDisconnect
  <2>1. /\ wire # <<>> /\ Head(wire).kind = "LOST" /\ wire' = Tail(wire)
        /\ UNCHANGED srvAtt
    BY <1>3 DEF OnDisconnect, Arrived, srvVars
  <2>2. wire' = <<>> /\ ~srvAtt'
    BY <2>1, FirstFrame
  <2>3. \A i \in 1 .. Len(wire') : FALSE
    BY <2>2
  <2>4. QED
    BY <2>2, <2>3 DEF WireInv
<1>4. QED
  BY <1>1, <1>2, <1>3, ApartWire, ServerWire
  DEF Next, Service, Application, Environment, Apart

(* Part 5: the steps, as the subscribers see them.                         *)

\* The steps that move nothing of the service thread's place but its state.
Quiet ==
  /\ UNCHANGED <<channel_serial, subVars, pc, work, cur, gapVars, got, lostVars>>
  /\ Len(published) <= Len(published') /\ Len(published') \in Nat
  /\ \A k \in 1 .. Len(published) : published'[k] = published[k]
  /\ pc # "idle" => state' = state /\ conn' = conn

LEMMA QuietStep ==
  ASSUME TypeInv, \/ Publish \/ ServerAttach \/ ServerSend \/ Drop \/ EnableDelta
                  \/ OnDisconnect \/ Attaching \/ UNCHANGED vars,
         PlaceInv
  PROVE  Quiet
<1>1. published \in Seq(AllBodies) /\ Len(published) \in Nat
  BY PublishedType
<1>2. UNCHANGED <<channel_serial, subVars, pc, work, cur, gapVars, got, lostVars>>
  BY DEF Publish, ServerAttach, ServerSend, Drop, EnableDelta, OnDisconnect, Attaching, vars
<1>3. Publish => \E b : published' = Append(published, b)
  BY DEF Publish
<1>4. ServerAttach \/ ServerSend \/ Drop \/ EnableDelta \/ OnDisconnect \/ Attaching
        \/ UNCHANGED vars => published' = published
  BY DEF ServerAttach, ServerSend, Drop, EnableDelta, OnDisconnect, Attaching, vars, srvVars
<1>5. published' = published \/ \E b : published' = Append(published, b) =>
        /\ Len(published) <= Len(published') /\ Len(published') \in Nat
        /\ \A k \in 1 .. Len(published) : published'[k] = published[k]
  <2>1. ASSUME NEW b, published' = Append(published, b)
        PROVE  /\ Len(published') = Len(published) + 1
               /\ \A k \in 1 .. Len(published) : published'[k] = published[k]
    BY <1>1, <2>1
  <2>2. QED
    BY <1>1, <2>1
<1>6. pc # "idle" => state' = state /\ conn' = conn
  <2>1. EnableDelta => state' = state /\ conn' = conn
    BY DEF EnableDelta, srvVars
  <2>2. OnDisconnect \/ Attaching => pc = "idle"
    BY DEF OnDisconnect, Attaching, Arrived
  <2>3. Publish \/ ServerAttach \/ ServerSend \/ Drop \/ UNCHANGED vars
          => state' = state /\ conn' = conn
    BY DEF Publish, ServerAttach, ServerSend, Drop, vars, srvVars
  <2>4. QED
    BY <2>1, <2>2, <2>3
<1>7. QED
  BY <1>2, <1>3, <1>4, <1>5, <1>6 DEF Quiet

\* The message m is the next of the frame or page, or the one whose callback
\* returns, and the slots are looked through from first on.
Takes(first, m, live) ==
  \/ pc = Rest(live) /\ work # <<>> /\ first = 1 /\ m = Head(work).msg /\ work' = Tail(work)
  \/ pc = "callback" /\ first = cur.slot + 1 /\ m = cur.msg /\ live = cur.live /\ work' = work

Skips(m, live) == pc' = Rest(live) /\ got' = got /\ holes' = holes \cup {m}

\* A garbled payload is that of the callback that returns, or decoded just now.
DataFrom(m, data) ==
  \/ pc = "callback" /\ data = cur.data
  \/ pc = "frame" /\ BaseStep(m, data)
  \/ pc = "page" /\ data = Raw(m)

Handles(first, m, live) ==
  /\ Takes(first, m, live)
  /\ UNCHANGED <<srvVars, wire, state, channel_serial, subVars, gapVars, jumped, delta_enabled>>
  /\ \/ Skips(m, live)
     \/ EndsAfter(first, m, live) /\ holes' = holes
     \/ \E i \in 1 .. Slots, data \in Payload :
          GivesTo(i, first, m, data, live) /\ DataFrom(m, data) /\ holes' = holes

LEMMA HandlesNext ==
  ASSUME TypeInv, NextMessage
  PROVE  Head(work).msg \in Msg /\ Handles(1, Head(work).msg, TRUE)
<1> DEFINE m == Head(work).msg
<1>1. /\ pc = "frame" /\ work # <<>> /\ work' = Tail(work) /\ m \in Msg
      /\ UNCHANGED <<srvVars, wire, state, channel_serial, subVars, gapVars, faults,
                     jumped, delta_enabled>>
      /\ DropsMessage \/ \E data \in Payload : DeliversMessage(data)
  BY NextMessageCases
<1>2. Takes(1, m, TRUE)
  BY <1>1 DEF Takes, Rest
<1>3. DropsMessage => Skips(m, TRUE)
  BY <1>1 DEF DropsMessage, Skips, Rest
<1>4. ASSUME NEW data \in Payload, DeliversMessage(data)
      PROVE  \/ EndsAfter(1, m, TRUE) /\ holes' = holes
             \/ \E i \in 1 .. Slots :
                  GivesTo(i, 1, m, data, TRUE) /\ DataFrom(m, data) /\ holes' = holes
  <2>1. DispatchFrom(1, m, data, TRUE) /\ BaseStep(m, data) /\ holes' = holes
    BY <1>4 DEF DeliversMessage
  <2>2. 1 \in 1 .. Slots + 1
    BY Bounds
  <2>3. EndsAfter(1, m, TRUE) \/ \E i \in 1 .. Slots : GivesTo(i, 1, m, data, TRUE)
    BY <2>1, <2>2, DispatchCases
  <2>4. DataFrom(m, data)
    BY <1>1, <2>1 DEF DataFrom
  <2>5. QED
    BY <2>1, <2>3, <2>4
<1> HIDE DEF m
<1>5. \/ Skips(m, TRUE)
      \/ EndsAfter(1, m, TRUE) /\ holes' = holes
      \/ \E i \in 1 .. Slots, data \in Payload :
           GivesTo(i, 1, m, data, TRUE) /\ DataFrom(m, data) /\ holes' = holes
  BY <1>1, <1>3, <1>4
<1>6. Handles(1, m, TRUE)
  BY <1>1, <1>2, <1>5 DEF Handles
<1>7. QED
  BY <1>1, <1>6 DEF m

LEMMA HandlesHistory ==
  ASSUME TypeInv, DeliverHistory, work # <<>>
  PROVE  Head(work).msg \in Msg /\ Handles(1, Head(work).msg, FALSE)
<1> DEFINE m == Head(work).msg
<1>1. /\ pc = "page" /\ work' = Tail(work) /\ DispatchFrom(1, m, Raw(m), FALSE)
      /\ UNCHANGED <<srvVars, wire, state, channel_serial, deltaVars, subVars, gapVars,
                     faults, lostVars>>
  BY DEF DeliverHistory
<1>2. m \in Msg
  BY TailTypes
<1>3. Takes(1, m, FALSE)
  BY <1>1 DEF Takes, Rest
<1>4. 1 \in 1 .. Slots + 1
  BY Bounds
<1>5. Raw(m) \in Payload
  BY <1>2, PayloadTypes
<1>6. EndsAfter(1, m, FALSE) \/ \E i \in 1 .. Slots : GivesTo(i, 1, m, Raw(m), FALSE)
  BY <1>1, <1>4, DispatchCases
<1>7. DataFrom(m, Raw(m)) /\ holes' = holes /\ jumped' = jumped /\ delta_enabled' = delta_enabled
  BY <1>1 DEF DataFrom, lostVars, deltaVars
<1> HIDE DEF m
<1>8. Handles(1, m, FALSE)
  BY <1>1, <1>3, <1>5, <1>6, <1>7 DEF Handles
<1>9. QED
  BY <1>2, <1>8 DEF m

LEMMA HandlesReturn ==
  ASSUME TypeInv, CallbackReturn
  PROVE  /\ cur.slot + 1 \in 1 .. Slots + 1 /\ cur.msg \in Msg /\ cur.live \in BOOLEAN
         /\ Handles(cur.slot + 1, cur.msg, cur.live)
<1>1. /\ pc = "callback" /\ work' = work /\ jumped' = jumped
      /\ UNCHANGED <<srvVars, wire, state, channel_serial, deltaVars, subVars, gapVars>>
  BY DEF CallbackReturn
<1>2. \/ DispatchFrom(cur.slot + 1, cur.msg, cur.data, cur.live) /\ holes' = holes
      \/ Skips(cur.msg, cur.live)
  BY DEF CallbackReturn, Skips
<1>3. cur.slot \in 1 .. Slots /\ cur.msg \in Msg
  BY <1>1 DEF TypeInv
<1>4. cur.live \in BOOLEAN /\ cur.data \in Payload
  BY DEF TypeInv
<1>5. cur.slot + 1 \in 1 .. Slots + 1
  BY <1>3, Bounds
<1>6. Takes(cur.slot + 1, cur.msg, cur.live) /\ DataFrom(cur.msg, cur.data)
  BY <1>1 DEF Takes, DataFrom
<1>7. DispatchFrom(cur.slot + 1, cur.msg, cur.data, cur.live) =>
        \/ EndsAfter(cur.slot + 1, cur.msg, cur.live)
        \/ \E i \in 1 .. Slots : GivesTo(i, cur.slot + 1, cur.msg, cur.data, cur.live)
  BY <1>5, DispatchCases
<1>8. delta_enabled' = delta_enabled
  BY <1>1 DEF deltaVars
<1>9. Handles(cur.slot + 1, cur.msg, cur.live)
  BY <1>1, <1>2, <1>4, <1>6, <1>7, <1>8 DEF Handles
<1>10. QED
  BY <1>3, <1>4, <1>5, <1>9

PageEmpty == pc = "page" /\ work = <<>> /\ pc' = "fetch"
               /\ UNCHANGED <<srvVars, wire, state, channel_serial, deltaVars, subVars, work,
                              cur, gapVars, faults, got, lostVars>>

LEMMA StepCases ==
  ASSUME TypeInv, PlaceInv, [Next]_vars
  PROVE  \/ Quiet \/ Subscribe \/ Unsubscribe \/ RecvMessage \/ RecvAttached \/ FrameDone
         \/ RecoverGap \/ RecoverFails \/ PageEmpty
         \/ \E first \in 1 .. Slots + 1, m \in Msg, live \in BOOLEAN : Handles(first, m, live)
<1>1. 1 \in 1 .. Slots + 1
  BY Bounds
<1>2. DeliverHistory /\ work = <<>> => PageEmpty
  BY DEF DeliverHistory, PageEmpty
<1>3. QED
  BY <1>1, <1>2, QuietStep, HandlesNext, HandlesHistory, HandlesReturn
  DEF Next, Service, Application, Environment

(* Part 6: the slots.                                                      *)

\* All a step of subscribe or unsubscribe leaves alone.
Untouched == UNCHANGED <<published, srvPos, conn, wire, state, channel_serial, deltaVars, pc,
                         work, cur, gapVars, holes, jumped>>

TakesSlot(i) ==
  /\ subscribers[i].token = 0 /\ next_token \in Token
  /\ subscribers'[i].token = next_token /\ next_token' = next_token + 1
  /\ \A j \in 1 .. Slots : /\ j # i => subscribers'[j] = subscribers[j]
                           /\ subscribers[j].token # next_token
                           /\ subscribers[j].token < next_token
  /\ got[next_token] = <<>> /\ got' = got
  /\ since'[next_token] = Len(published)
  /\ \A t \in Token : t # next_token => since'[t] = since[t]

LeavesSlot(i, t) ==
  /\ t = subscribers[i].token /\ subscribers'[i].token = 0 /\ next_token' = next_token
  /\ \A j \in 1 .. Slots : j # i =>
       subscribers'[j] = subscribers[j] /\ subscribers[j].token # t
  /\ got'[t] = <<>> /\ since'[t] = 0
  /\ \A u \in Token : u # t => got'[u] = got[u] /\ since'[u] = since[u]

LEMMA SlotTypes ==
  ASSUME TypeInv
  PROVE  /\ \A i \in 1 .. Slots : /\ subscribers[i].token \in Token \cup {0}
                                  /\ subscribers[i].token # 0 => subscribers[i].token \in Token
         /\ \A t \in Token : /\ got[t] \in Seq(Given) /\ Len(got[t]) \in Nat
                             /\ DOMAIN got[t] = 1 .. Len(got[t])
                             /\ \A k \in DOMAIN got[t] : got[t][k] \in Given
                             /\ since[t] \in 0 .. MaxMsg
         /\ next_token \in Nat /\ next_token \in 1 .. MaxSubs + 1
<1>1. \A i \in 1 .. Slots : subscribers[i] \in [token : Token \cup {0}, filter : {"", "a", "b"}]
  BY DEF TypeInv, TypeOK
<1>2. \A i \in 1 .. Slots : /\ subscribers[i].token \in Token \cup {0}
                            /\ subscribers[i].token # 0 => subscribers[i].token \in Token
  BY <1>1
<1>3. \A t \in Token : got[t] \in Seq(Given) /\ since[t] \in 0 .. MaxMsg
  BY DEF TypeInv
<1>4. \A s \in Seq(Given) : /\ Len(s) \in Nat /\ DOMAIN s = 1 .. Len(s)
                            /\ \A k \in DOMAIN s : s[k] \in Given
  OBVIOUS
<1>5. next_token \in 1 .. MaxSubs + 1 /\ next_token \in Nat
  <2>1. next_token \in 1 .. MaxSubs + 1
    BY DEF TypeInv, TypeOK
  <2>2. QED
    BY <2>1, Bounds
<1>6. QED
  BY <1>2, <1>3, <1>4, <1>5

LEMMA SubscribeCases ==
  ASSUME TypeInv, SlotInv, Subscribe
  PROVE  Untouched /\ \E i \in 1 .. Slots : TakesSlot(i)
<1> DEFINE i == Min(FreeSlots)
<1>1. i \in FreeSlots
  <2>1. FreeSlots \subseteq Nat /\ FreeSlots # {}
    BY Bounds DEF FreeSlots, Subscribe
  <2>2. QED
    BY <2>1, MinIn
<1>2. i \in 1 .. Slots /\ subscribers[i].token = 0
  BY <1>1 DEF FreeSlots
<1>3. PICK f \in FiltersOf[next_token] :
        subscribers' = [subscribers EXCEPT ![i] = [token |-> next_token, filter |-> f]]
  BY DEF Subscribe
<1>4. /\ next_token \in Token /\ next_token' = next_token + 1 /\ got' = got
      /\ since' = [since EXCEPT ![next_token] = Len(published)]
      /\ Untouched
  BY DEF Subscribe, Untouched, srvVars, lostVars
<1> HIDE DEF i
<1>5. subscribers \in [1 .. Slots -> [token : Token \cup {0}, filter : {"", "a", "b"}]]
      /\ since \in [Token -> 0 .. MaxMsg]
  BY DEF TypeInv, TypeOK
<1>6. \A j \in 1 .. Slots : subscribers[j].token < next_token /\ subscribers[j].token # next_token
  <2> TAKE j \in 1 .. Slots
  <2>1. subscribers[j].token < next_token
    BY DEF SlotInv
  <2>2. subscribers[j].token \in Int /\ next_token \in Int
    BY SlotTypes DEF Token
  <2>3. QED
    BY <2>1, <2>2
<1>7. subscribers'[i].token = next_token /\ \A j \in 1 .. Slots : j # i => subscribers'[j] = subscribers[j]
  BY <1>2, <1>3, <1>5
<1>8. got[next_token] = <<>>
  BY <1>4, <1>6 DEF SlotInv
<1>9. since'[next_token] = Len(published) /\ \A t \in Token : t # next_token => since'[t] = since[t]
  BY <1>4, <1>5
<1>10. TakesSlot(i)
  BY <1>2, <1>4, <1>6, <1>7, <1>8, <1>9 DEF TakesSlot
<1>11. QED
  BY <1>2, <1>4, <1>10

LEMMA UnsubscribeCases ==
  ASSUME TypeInv, SlotInv, Unsubscribe
  PROVE  Untouched /\ \E i \in 1 .. Slots, t \in Token : LeavesSlot(i, t)
<1>1. PICK i \in 1 .. Slots :
        /\ subscribers[i].token # 0
        /\ subscribers' = [subscribers EXCEPT ![i] = Free]
        /\ since' = [since EXCEPT ![subscribers[i].token] = 0]
        /\ got' = [got EXCEPT ![subscribers[i].token] = <<>>]
        /\ next_token' = next_token
        /\ Untouched
  BY DEF Unsubscribe, Untouched, srvVars, lostVars
<1>2. PICK t : t = subscribers[i].token
  OBVIOUS
<1>3. t \in Token
  BY <1>1, <1>2, SlotTypes
<1>4. subscribers \in [1 .. Slots -> [token : Token \cup {0}, filter : {"", "a", "b"}]]
      /\ since \in [Token -> 0 .. MaxMsg] /\ got \in [Token -> Seq(Given)]
  BY DEF TypeInv, TypeOK
<1>5. subscribers'[i].token = 0 /\ \A j \in 1 .. Slots : j # i => subscribers'[j] = subscribers[j]
  BY <1>1, <1>4 DEF Free
<1>6. \A j \in 1 .. Slots : j # i => subscribers[j].token # t
  BY <1>1, <1>2 DEF SlotInv
<1>7. got'[t] = <<>> /\ since'[t] = 0
      /\ \A u \in Token : u # t => got'[u] = got[u] /\ since'[u] = since[u]
  BY <1>1, <1>2, <1>3, <1>4
<1>8. LeavesSlot(i, t)
  BY <1>1, <1>2, <1>5, <1>6, <1>7 DEF LeavesSlot
<1>9. QED
  BY <1>1, <1>3, <1>8

\* What a dispatch adds to what a subscriber was given.
Adds(t, m, data, live) ==
  /\ t \in Token /\ t # 0
  /\ \A u \in Token : u # t => got'[u] = got[u]
  /\ Len(got'[t]) = Len(got[t]) + 1 /\ DOMAIN got'[t] = 1 .. Len(got[t]) + 1
  /\ \A k \in 1 .. Len(got[t]) : got'[t][k] = got[t][k]
  /\ got'[t][Len(got[t]) + 1] = [msg |-> m, data |-> data, live |-> live]

LEMMA GivenOne ==
  ASSUME TypeInv, NEW i \in 1 .. Slots, NEW first \in 1 .. Slots + 1, NEW m \in Msg,
         NEW data \in Payload, NEW live \in BOOLEAN, GivesTo(i, first, m, data, live)
  PROVE  Adds(subscribers[i].token, m, data, live)
<1>0. PICK t : t = subscribers[i].token
  OBVIOUS
<1>1. t # 0 /\ t \in Token
  BY <1>0, SlotTypes DEF GivesTo, Wants
<1>2. got \in [Token -> Seq(Given)]
  BY DEF TypeInv
<1>3. got' = [got EXCEPT ![t] = Append(@, [msg |-> m, data |-> data, live |-> live])]
  BY <1>0 DEF GivesTo
<1>4. got[t] \in Seq(Given)
  BY <1>1, <1>2
<1>5. \A u \in Token : u # t => got'[u] = got[u]
  BY <1>1, <1>2, <1>3
<1>6. got'[t] = Append(got[t], [msg |-> m, data |-> data, live |-> live])
  BY <1>1, <1>2, <1>3
<1>7. [msg |-> m, data |-> data, live |-> live] \in Given
  BY DEF Given
<1>8. PICK g \in Given : g = [msg |-> m, data |-> data, live |-> live]
  BY <1>7
<1>9. got'[t] = Append(got[t], g) /\ Append(got[t], g) \in Seq(Given)
  BY <1>4, <1>6, <1>8
<1>10. /\ Len(got'[t]) = Len(got[t]) + 1
       /\ \A k \in 1 .. Len(got[t]) : got'[t][k] = got[t][k]
       /\ got'[t][Len(got[t]) + 1] = g
  BY <1>4, <1>9
<1>11. DOMAIN got'[t] = 1 .. Len(got[t]) + 1
  BY <1>4, <1>9, <1>10
<1>12. QED
  BY <1>0, <1>1, <1>5, <1>8, <1>10, <1>11 DEF Adds

LEMMA SlotStep ==
  ASSUME TypeInv, SlotInv, PlaceInv, [Next]_vars
  PROVE  SlotInv'
<1>1. Len(published) \in Nat
  BY PublishedType
<1>2. CASE Quiet
  <2>1. UNCHANGED <<subscribers, next_token, since, got>> /\ Len(published) <= Len(published')
        /\ Len(published') \in Nat
    BY <1>2 DEF Quiet, subVars
  <2>2. \A t \in Token : since[t] <= Len(published')
    BY <1>1, <2>1, SlotTypes, Bounds DEF SlotInv
  <2>3. QED
    BY <2>1, <2>2 DEF SlotInv
<1>3. CASE Subscribe
  <2>1. PICK i \in 1 .. Slots : TakesSlot(i)
    BY <1>3, SubscribeCases
  <2>2. Untouched
    BY <1>3, SubscribeCases
  <2>3. next_token \in Nat /\ next_token # 0
    BY SlotTypes
  <2>4. \A j \in 1 .. Slots : subscribers'[j].token < next_token'
    <3> TAKE j \in 1 .. Slots
    <3>1. subscribers[j].token \in Int /\ next_token \in Int
      BY SlotTypes DEF Token
    <3>2. QED
      BY <2>1, <3>1 DEF TakesSlot
  <2>5. \A j, k \in 1 .. Slots : subscribers'[j].token = subscribers'[k].token
                                   /\ subscribers'[j].token # 0 => j = k
    BY <2>1 DEF TakesSlot, SlotInv
  <2>6. \A t \in Token : got'[t] # <<>> => \E j \in 1 .. Slots : subscribers'[j].token = t
    <3> TAKE t \in Token
    <3> HAVE got'[t] # <<>>
    <3>1. PICK j \in 1 .. Slots : subscribers[j].token = t
      BY <2>1 DEF TakesSlot, SlotInv
    <3>2. t # 0
      BY DEF Token
    <3>3. j # i
      BY <2>1, <3>1, <3>2 DEF TakesSlot
    <3>4. QED
      BY <2>1, <3>1, <3>3 DEF TakesSlot
  <2>7. \A t \in Token : since'[t] <= Len(published')
    BY <1>1, <2>1, <2>2 DEF TakesSlot, SlotInv, Untouched
  <2>8. QED
    BY <2>4, <2>5, <2>6, <2>7 DEF SlotInv
<1>4. CASE Unsubscribe
  <2>1. PICK i \in 1 .. Slots, t \in Token : LeavesSlot(i, t)
    BY <1>4, UnsubscribeCases
  <2>2. Untouched
    BY <1>4, UnsubscribeCases
  <2>3. \A j \in 1 .. Slots : subscribers'[j].token < next_token'
    BY <2>1, SlotTypes DEF LeavesSlot, SlotInv
  <2>4. \A j, k \in 1 .. Slots : subscribers'[j].token = subscribers'[k].token
                                   /\ subscribers'[j].token # 0 => j = k
    BY <2>1 DEF LeavesSlot, SlotInv
  <2>5. \A u \in Token : got'[u] # <<>> => \E j \in 1 .. Slots : subscribers'[j].token = u
    BY <2>1 DEF LeavesSlot, SlotInv
  <2>6. \A u \in Token : since'[u] <= Len(published')
    BY <1>1, <2>1, <2>2 DEF LeavesSlot, SlotInv, Untouched
  <2>7. QED
    BY <2>3, <2>4, <2>5, <2>6 DEF SlotInv
<1>5. CASE RecvMessage \/ RecvAttached \/ FrameDone \/ RecoverGap \/ RecoverFails \/ PageEmpty
  <2>1. UNCHANGED <<subscribers, next_token, since, got, published>>
    <3>1. RecvMessage \/ RecvAttached \/ FrameDone \/ PageEmpty
            => UNCHANGED <<subscribers, next_token, since, got, published>>
      BY DEF RecvMessage, RecvAttached, FrameDone, PageEmpty, subVars, srvVars
    <3>2. RecoverGap \/ RecoverFails
            => UNCHANGED <<subscribers, next_token, since, got, published>>
      BY RecoveryCases DEF subVars, srvVars
    <3>3. QED
      BY <1>5, <3>1, <3>2
  <2>2. QED
    BY <2>1 DEF SlotInv
<1>6. ASSUME NEW first \in 1 .. Slots + 1, NEW m \in Msg, NEW live \in BOOLEAN,
             Handles(first, m, live)
      PROVE  SlotInv'
  <2>1. UNCHANGED <<subscribers, next_token, since, published>>
    BY <1>6 DEF Handles, subVars, srvVars
  <2>2. CASE got' = got
    BY <2>1, <2>2 DEF SlotInv
  <2>3. CASE \E i \in 1 .. Slots, data \in Payload : GivesTo(i, first, m, data, live)
    <3>1. PICK i \in 1 .. Slots, data \in Payload : GivesTo(i, first, m, data, live)
      BY <2>3
    <3>2. \A u \in Token : u # subscribers[i].token => got'[u] = got[u]
      <4>1. Adds(subscribers[i].token, m, data, live)
        BY <3>1, GivenOne
      <4>2. QED
        BY <4>1 DEF Adds
    <3>3. \A u \in Token : got'[u] # <<>> => \E j \in 1 .. Slots : subscribers[j].token = u
      BY <3>2 DEF SlotInv
    <3>4. QED
      BY <2>1, <3>3 DEF SlotInv
  <2>4. QED
    BY <1>6, <2>2, <2>3 DEF Handles, Skips, EndsAfter
<1>7. QED
  BY <1>2, <1>3, <1>4, <1>5, <1>6, StepCases

(* Part 7: the place of the service thread.                                *)

LEMMA PlaceTypes ==
  ASSUME TypeInv
  PROVE  /\ channel_serial \in Int /\ live_from \in Nat /\ cursor \in Int /\ srvPos \in Nat
         /\ channel_serial >= -1 /\ cursor >= -1 /\ Goal \in Int /\ Reached \in Int
         /\ Len(work) \in Nat /\ Done \in Int /\ Len(published) \in Nat
         /\ work \in Seq(WorkItem) /\ (work = <<>> <=> Len(work) = 0)
         /\ \A k \in 1 .. Len(work) : work[k].msg \in Nat /\ work[k].msg >= 1
<1>1. /\ channel_serial \in Serials /\ live_from \in 0 .. MaxMsg /\ cursor \in Serials
      /\ srvPos \in 0 .. MaxMsg
  BY DEF TypeInv, TypeOK
<1>2. /\ channel_serial \in Int /\ live_from \in Nat /\ cursor \in Int /\ srvPos \in Nat
      /\ channel_serial >= -1 /\ cursor >= -1
  BY <1>1, Bounds DEF Serials, NoSerial
<1>3. work \in Seq(WorkItem)
  BY DEF TypeInv
<1>4. Len(work) \in Nat /\ (work = <<>> <=> Len(work) = 0)
      /\ \A k \in 1 .. Len(work) : work[k] \in WorkItem
  BY <1>3
<1>5. \A k \in 1 .. Len(work) : work[k].msg \in Nat /\ work[k].msg >= 1
  BY <1>4 DEF WorkItem, Msg
<1>6. Goal \in Int /\ Reached \in Int /\ Done \in Int
  BY <1>2, <1>4 DEF Goal, Reached, Done
<1>7. QED
  BY <1>2, <1>3, <1>4, <1>5, <1>6, PublishedType

\* The message taken, and the place before it and after it.
TakenLive(m) ==
  /\ channel_serial - Len(work') = m /\ live_from < m /\ m <= Len(published)
  /\ \A k \in 1 .. Len(work') : work'[k].msg = m + k
  /\ pc = "callback" => Done = m
  /\ pc # "callback" => Done = m - 1

TakenHist(m) ==
  /\ channel_serial # NoSerial /\ channel_serial <= live_from
  /\ channel_serial <= Goal /\ Goal <= Len(published)
  /\ channel_serial < m /\ m <= Len(published)
  /\ \A k \in 1 .. Len(work') : work'[k].msg = m + k /\ work'[k].msg <= Len(published)
  /\ IF work' = <<>> THEN m >= Goal ELSE work'[Len(work')].msg >= Goal /\ work'[1].msg = m + 1

LEMMA TailWork ==
  ASSUME TypeInv, work # <<>>, work' = Tail(work)
  PROVE  /\ Len(work') = Len(work) - 1 /\ Len(work) >= 1 /\ Head(work) = work[1]
         /\ Len(work') \in Nat /\ (work' = <<>> <=> Len(work') = 0)
         /\ \A k \in 1 .. Len(work') : work'[k] = work[k + 1] /\ k + 1 \in 1 .. Len(work)
<1>1. work \in Seq(WorkItem) /\ Len(work) \in Nat /\ Len(work) # 0
  BY PlaceTypes
<1>2. work' \in Seq(WorkItem) /\ Len(work') = Len(work) - 1 /\ Head(work) = work[1]
  BY <1>1
<1>3. \A s \in Seq(WorkItem) : s = <<>> <=> Len(s) = 0
  OBVIOUS
<1>4. \A k \in 1 .. Len(work) - 1 : Tail(work)[k] = work[k + 1]
  BY <1>1
<1>5. \A k \in 1 .. Len(work') : work'[k] = work[k + 1] /\ k + 1 \in 1 .. Len(work)
  <2> TAKE k \in 1 .. Len(work')
  <2>1. k \in 1 .. Len(work) - 1
    BY <1>2
  <2>2. k + 1 \in 1 .. Len(work)
    BY <1>1, <2>1
  <2>3. QED
    BY <1>4, <2>1, <2>2
<1>6. QED
  BY <1>1, <1>2, <1>3, <1>5

LEMMA TakesPlace ==
  ASSUME TypeInv, PlaceInv, NEW first \in 1 .. Slots + 1, NEW m \in Msg, NEW live \in BOOLEAN,
         Takes(first, m, live)
  PROVE  /\ state = "ATTACHED" /\ pc \notin {"idle", "fetch"}
         /\ Len(work') \in Nat /\ (work' = <<>> <=> Len(work') = 0)
         /\ live => Live /\ TakenLive(m)
         /\ ~live => Hist /\ TakenHist(m)
<1>0. /\ channel_serial \in Int /\ live_from \in Nat /\ Goal \in Int /\ Done \in Int
      /\ Len(work) \in Nat /\ Len(published) \in Nat /\ m \in Nat
  BY PlaceTypes DEF Msg
<1>1. CASE pc = Rest(live) /\ work # <<>> /\ first = 1 /\ m = Head(work).msg /\ work' = Tail(work)
  <2>1. /\ Len(work') = Len(work) - 1 /\ Len(work) >= 1 /\ Head(work) = work[1]
        /\ Len(work') \in Nat /\ (work' = <<>> <=> Len(work') = 0)
        /\ \A k \in 1 .. Len(work') : work'[k] = work[k + 1] /\ k + 1 \in 1 .. Len(work)
    BY <1>1, TailWork
  <2>2. m = work[1].msg /\ 1 \in 1 .. Len(work)
    BY <1>0, <1>1, <2>1
  <2>3. ASSUME live PROVE Live /\ TakenLive(m)
    <3>1. pc = "frame" /\ Live
      BY <1>1, <2>3 DEF Rest, Live
    <3>2. /\ live_from <= Done /\ channel_serial <= Len(published)
          /\ \A k \in 1 .. Len(work) : work[k].msg = Done + k
      BY <3>1 DEF PlaceInv
    <3>3. m = Done + 1
      BY <2>2, <3>2
    <3>4. channel_serial - Len(work') = m
      BY <1>0, <2>1, <3>3 DEF Done
    <3>5. \A k \in 1 .. Len(work') : work'[k].msg = m + k
      <4> TAKE k \in 1 .. Len(work')
      <4>1. work'[k] = work[k + 1] /\ k + 1 \in 1 .. Len(work)
        BY <2>1
      <4>2. work'[k].msg = Done + (k + 1)
        BY <3>2, <4>1
      <4>3. QED
        BY <1>0, <3>3, <4>2
    <3>6. live_from < m /\ m <= Len(published) /\ Done = m - 1
      BY <1>0, <2>1, <3>2, <3>3, <3>4
    <3>7. QED
      BY <3>1, <3>4, <3>5, <3>6 DEF TakenLive
  <2>4. ASSUME ~live PROVE Hist /\ TakenHist(m)
    <3>1. pc = "page" /\ Hist
      BY <1>1, <2>4 DEF Rest, Hist
    <3>2. /\ channel_serial # NoSerial /\ channel_serial <= live_from
          /\ channel_serial <= Goal /\ Goal <= Len(published)
          /\ \A k \in 1 .. Len(work) : /\ work[k].msg = work[1].msg + k - 1
                                       /\ work[k].msg > channel_serial
                                       /\ work[k].msg <= Len(published)
          /\ work[Len(work)].msg >= Goal
      BY <1>1, <3>1 DEF PlaceInv
    <3>3. channel_serial < m /\ m <= Len(published)
      BY <2>2, <3>2
    <3>4. \A k \in 1 .. Len(work') : work'[k].msg = m + k /\ work'[k].msg <= Len(published)
      <4> TAKE k \in 1 .. Len(work')
      <4>1. work'[k] = work[k + 1] /\ k + 1 \in 1 .. Len(work)
        BY <2>1
      <4>2. work'[k].msg = m + (k + 1) - 1 /\ work'[k].msg <= Len(published)
        BY <2>2, <3>2, <4>1
      <4>3. QED
        BY <1>0, <4>2
    <3>5. CASE work' = <<>>
      <4>1. Len(work) = 1
        BY <1>0, <2>1, <3>5
      <4>2. m >= Goal
        BY <2>2, <3>2, <4>1
      <4>3. QED
        BY <3>1, <3>2, <3>3, <3>4, <3>5, <4>2 DEF TakenHist
    <3>6. CASE work' # <<>>
      <4>1. Len(work') \in 1 .. Len(work') /\ 1 \in 1 .. Len(work')
        BY <2>1, <3>6
      <4>2. work'[Len(work')] = work[Len(work)]
        BY <1>0, <2>1, <4>1
      <4>3. work'[Len(work')].msg >= Goal /\ work'[1].msg = m + 1
        BY <3>2, <3>4, <4>1, <4>2
      <4>4. QED
        BY <3>1, <3>2, <3>3, <3>4, <3>6, <4>3 DEF TakenHist
    <3>7. QED
      BY <3>5, <3>6
  <2>5. pc # "idle" /\ pc # "fetch"
    BY <1>1 DEF Rest
  <2>6. QED
    BY <2>1, <2>3, <2>4, <2>5 DEF PlaceInv
<1>2. CASE pc = "callback" /\ first = cur.slot + 1 /\ m = cur.msg /\ live = cur.live /\ work' = work
  <2>1. Len(work') \in Nat /\ (work' = <<>> <=> Len(work') = 0)
    BY <1>2, PlaceTypes
  <2>2. ASSUME live PROVE Live /\ TakenLive(m)
    <3>1. Live
      BY <1>2, <2>2 DEF Live
    <3>2. /\ live_from < Done /\ channel_serial <= Len(published) /\ m = Done
          /\ \A k \in 1 .. Len(work) : work[k].msg = Done + k
      BY <1>2, <3>1 DEF PlaceInv
    <3>3. channel_serial - Len(work') = m /\ m <= Len(published)
      BY <1>0, <1>2, <3>2 DEF Done
    <3>4. QED
      BY <1>0, <1>2, <3>1, <3>2, <3>3 DEF TakenLive
  <2>3. ASSUME ~live PROVE Hist /\ TakenHist(m)
    <3>1. Hist
      BY <1>2, <2>3 DEF Hist
    <3>2. /\ channel_serial # NoSerial /\ channel_serial <= live_from
          /\ channel_serial <= Goal /\ Goal <= Len(published)
          /\ \A k \in 1 .. Len(work) : /\ work[k].msg = work[1].msg + k - 1
                                       /\ work[k].msg > channel_serial
                                       /\ work[k].msg <= Len(published)
          /\ work # <<>> => work[Len(work)].msg >= Goal
          /\ m > channel_serial /\ m <= Len(published)
          /\ IF work = <<>> THEN m >= Goal ELSE work[1].msg = m + 1
      BY <1>2, <3>1 DEF PlaceInv
    <3>3. \A k \in 1 .. Len(work') : work'[k].msg = m + k /\ work'[k].msg <= Len(published)
      <4> TAKE k \in 1 .. Len(work')
      <4>1. k \in 1 .. Len(work) /\ work # <<>>
        BY <1>2, PlaceTypes
      <4>2. work[k].msg = (m + 1) + k - 1 /\ work[k].msg <= Len(published)
        BY <3>2, <4>1
      <4>3. k \in Nat /\ (m + 1) + k - 1 = m + k
        BY <1>0
      <4>4. QED
        BY <1>2, <4>2, <4>3
    <3>4. QED
      BY <1>0, <1>2, <3>1, <3>2, <3>3 DEF TakenHist
  <2>4. QED
    BY <1>2, <2>1, <2>2, <2>3 DEF PlaceInv
<1>3. QED
  BY <1>1, <1>2 DEF Takes

LEMMA ServerPlace ==
  ASSUME TypeInv, PlaceInv, [Next]_vars
  PROVE  srvPos' <= Len(published')
<1>1. /\ srvPos \in Nat /\ Len(published) \in Nat /\ channel_serial \in Int
      /\ srvPos <= Len(published) /\ channel_serial <= Len(published)
  BY PlaceTypes DEF PlaceInv
<1>2. CASE ServerAttach
  <2>1. published' = published /\ srvPos' \in {channel_serial, Len(published)}
    BY <1>2 DEF ServerAttach
  <2>2. QED
    BY <1>1, <2>1
<1>3. CASE ServerSend
  <2>1. published' = published /\ \E n \in 1 .. 2 : srvPos + n <= Len(published) /\ srvPos' = srvPos + n
    BY <1>3 DEF ServerSend
  <2>2. QED
    BY <2>1
<1>4. CASE srvPos' = srvPos /\ (published' = published \/ Quiet)
  <2>1. Len(published) <= Len(published') /\ Len(published') \in Nat
    BY <1>1, <1>4 DEF Quiet
  <2>2. QED
    BY <1>1, <1>4, <2>1
<1>5. \/ ServerAttach \/ ServerSend
      \/ srvPos' = srvPos /\ (published' = published \/ Quiet)
  <2>1. Publish => srvPos' = srvPos /\ Quiet
    BY QuietStep DEF Publish
  <2>2. Drop \/ EnableDelta \/ OnDisconnect \/ Attaching \/ Subscribe \/ Unsubscribe \/ RecvMessage
          \/ RecvAttached \/ FrameDone \/ CallbackReturn \/ DeliverHistory \/ UNCHANGED vars
          => srvPos' = srvPos /\ published' = published
    BY DEF Drop, EnableDelta, OnDisconnect, Attaching, Subscribe, Unsubscribe, RecvMessage,
           RecvAttached, FrameDone, CallbackReturn, DeliverHistory, vars, srvVars
  <2>3. RecoverGap \/ RecoverFails => srvPos' = srvPos /\ published' = published
    BY RecoveryCases DEF srvVars
  <2>4. NextMessage => srvPos' = srvPos /\ published' = published
    BY NextMessageCases DEF srvVars
  <2>5. QED
    BY <2>1, <2>2, <2>3, <2>4 DEF Next, Service, Application, Environment
<1>6. QED
  BY <1>2, <1>3, <1>4, <1>5

\* The page that a request of the recovery brings.
LEMMA PagePlace ==
  ASSUME TypeInv, PlaceInv, pc = "fetch", cursor # NoSerial, GotPage
  PROVE  /\ pc' = "page" /\ live_from' = live_from /\ lostVars' = lostVars
         /\ cursor \in Nat /\ Goal = cursor /\ Len(work') \in Nat
         /\ \A k \in 1 .. Len(work') : work'[k].msg = cursor + k /\ cursor + k <= Len(published)
         /\ (work' = <<>> <=> Len(work') = 0)
         /\ cursor' \in {NoSerial, channel_serial, cursor + Len(work')}
         /\ cursor' = NoSerial => cursor + Len(work') >= live_from
<1>1. cursor \in 0 .. MaxMsg
  BY PageCases
<1>2. PICK last \in 0 .. MaxMsg : PageTo(last)
  BY PageCases
<1>3. /\ last = IF cursor + PageSize <= Len(published) THEN cursor + PageSize ELSE Len(published)
      /\ work' = [i \in 1 .. last - cursor |-> [msg |-> cursor + i, delta |-> FALSE]]
      /\ cursor' \in IF last < Len(published) THEN {last, channel_serial} ELSE {NoSerial}
      /\ pc' = "page" /\ UNCHANGED <<live_from, lostVars>>
  BY <1>2 DEF PageTo
<1>4. cursor \in Nat /\ PageSize \in Nat /\ PageSize >= 1 /\ Len(published) \in Nat
      /\ live_from \in Nat /\ channel_serial \in Int
  BY <1>1, PlaceTypes, Bounds
<1>5. Goal = cursor /\ cursor <= Len(published) /\ live_from <= Len(published)
      /\ channel_serial # NoSerial
  BY DEF PlaceInv, Goal
<1>6. last \in Nat /\ cursor <= last /\ last <= Len(published)
  BY <1>3, <1>4, <1>5
<1>7. PICK n \in Nat : n = last - cursor
  BY <1>4, <1>6
<1>8. work' = [i \in 1 .. n |-> [msg |-> cursor + i, delta |-> FALSE]]
  BY <1>3, <1>7
<1>9. Len(work') = n /\ \A k \in 1 .. n : work'[k] = [msg |-> cursor + k, delta |-> FALSE]
  BY <1>8
<1>10. work' = <<>> <=> n = 0
  <2>1. n = 0 => work' = <<>>
    BY <1>8
  <2>2. work' = <<>> => Len(work') = 0
    OBVIOUS
  <2>3. QED
    BY <1>9, <2>1, <2>2
<1>11. \A k \in 1 .. n : work'[k].msg = cursor + k /\ cursor + k <= Len(published)
  <2> TAKE k \in 1 .. n
  <2>1. work'[k].msg = cursor + k
    BY <1>9
  <2>2. cursor + k <= Len(published)
    BY <1>4, <1>6, <1>7
  <2>3. QED
    BY <2>1, <2>2
<1>12. cursor + n = last
  BY <1>4, <1>6, <1>7
<1>13. last < Len(published) => cursor' # NoSerial
  BY <1>3, <1>4, <1>5, <1>6 DEF NoSerial
<1>14. cursor' = NoSerial => cursor + n >= live_from
  BY <1>3, <1>4, <1>5, <1>6, <1>12, <1>13
<1>15. cursor' \in {NoSerial, channel_serial, cursor + n}
  BY <1>3, <1>12
<1>16. QED
  BY <1>3, <1>4, <1>5, <1>9, <1>10, <1>11, <1>14, <1>15

LEMMA HandlesPlace ==
  ASSUME TypeInv, NEW first \in 1 .. Slots + 1, NEW m \in Msg, NEW live \in BOOLEAN,
         Handles(first, m, live)
  PROVE  \/ pc' = Rest(live)
         \/ pc' = "callback" /\ cur'.msg = m /\ cur'.live = live
<1>1. CASE Skips(m, live) \/ EndsAfter(first, m, live)
  BY <1>1 DEF Skips, EndsAfter
<1>2. ASSUME NEW i \in 1 .. Slots, NEW data \in Payload, GivesTo(i, first, m, data, live)
      PROVE  pc' = "callback" /\ cur'.msg = m /\ cur'.live = live
  <2>1. pc' = "callback"
    BY <1>2 DEF GivesTo
  <2>2. QED
    BY <1>2, <2>1, GivenTypes
<1>3. QED
  BY <1>1, <1>2 DEF Handles

LEMMA PlaceStep ==
  ASSUME TypeInv, PlaceInv, SlotInv, WireInv, [Next]_vars
  PROVE  PlaceInv'
<1>0. srvPos' <= Len(published')
  BY ServerPlace
<1>1. /\ channel_serial \in Int /\ live_from \in Nat /\ Goal \in Int /\ Done \in Int
      /\ Len(work) \in Nat /\ Len(published) \in Nat /\ Reached \in Int
      /\ channel_serial <= Len(published) /\ live_from <= Len(published)
  BY PlaceTypes DEF PlaceInv
<1>2. CASE Quiet
  <2>1. /\ UNCHANGED <<channel_serial, live_from, cursor, pc, work, cur>>
        /\ Len(published) <= Len(published') /\ Len(published') \in Nat
        /\ pc # "idle" => state' = state
    BY <1>2 DEF Quiet, gapVars
  <2>2. channel_serial <= Len(published') /\ live_from <= Len(published')
    BY <1>1, <2>1
  <2>3. Live' = Live /\ Hist' = Hist /\ Done' = Done /\ Goal' = Goal
    BY <2>1 DEF Live, Hist, Done, Goal
  <2>4. pc # "idle" => state' = "ATTACHED"
    BY <2>1 DEF PlaceInv
  <2>5. pc = "fetch" \/ Hist => Goal <= Len(published')
    BY <1>1, <2>1 DEF PlaceInv
  <2>6. Hist => /\ \A k \in 1 .. Len(work) : work[k].msg <= Len(published')
                /\ pc = "callback" => cur.msg <= Len(published')
    <3>1. Hist => \A k \in 1 .. Len(work) : work[k].msg <= Len(published')
      BY <1>1, <2>1, PlaceTypes DEF PlaceInv
    <3>2. pc = "callback" => cur.msg \in Nat
      BY DEF TypeInv, Msg
    <3>3. Hist /\ pc = "callback" => cur.msg <= Len(published')
      BY <1>1, <2>1, <3>2 DEF PlaceInv
    <3>4. QED
      BY <3>1, <3>3
  <2>7. Live => /\ live_from <= Done /\ 0 <= Done
                /\ \A k \in 1 .. Len(work) : work[k].msg = Done + k
                /\ pc = "callback" => cur.msg = Done /\ live_from < Done
    BY DEF PlaceInv
  <2>8. pc \in {"idle", "fetch"} => work = <<>>
    BY DEF PlaceInv
  <2>9. pc = "fetch" \/ Hist =>
          /\ channel_serial # NoSerial /\ channel_serial <= live_from
          /\ channel_serial <= Goal
    BY DEF PlaceInv
  <2>10. Hist => /\ \A k \in 1 .. Len(work) :
                      work[k].msg = work[1].msg + k - 1 /\ work[k].msg > channel_serial
                 /\ work # <<>> => work[Len(work)].msg >= Goal
                 /\ pc = "callback" =>
                      /\ cur.msg > channel_serial
                      /\ IF work = <<>> THEN cur.msg >= Goal ELSE work[1].msg = cur.msg + 1
    BY DEF PlaceInv
  <2> HIDE DEF Live, Hist, Done, Goal
  <2>11. QED
    BY <1>0, <2>1, <2>2, <2>3, <2>4, <2>5, <2>6, <2>7, <2>8, <2>9, <2>10 DEF PlaceInv
<1>3. CASE Subscribe \/ Unsubscribe
  <2>1. Untouched
    BY <1>3, SubscribeCases, UnsubscribeCases
  <2>2. UNCHANGED <<channel_serial, live_from, cursor, pc, work, cur, published, state, srvPos>>
    BY <2>1 DEF Untouched, gapVars
  <2>3. Live' = Live /\ Hist' = Hist /\ Done' = Done /\ Goal' = Goal
    BY <2>2 DEF Live, Hist, Done, Goal
  <2>4. QED
    BY <2>2, <2>3 DEF PlaceInv
<1>4. CASE RecvMessage
  <2>1. /\ state = "ATTACHED" /\ state' = state /\ live_from' = live_from
        /\ channel_serial' = wire[1].serial /\ work' = wire[1].msgs
        /\ MessageOK(wire[1], Reached, Fresh, Len(published), delta_enabled)
        /\ channel_serial' - Len(work') = Reached /\ Reached >= live_from
    BY <1>4, RecvMessagePlace
  <2>2. pc' = "frame" /\ published' = published
    BY <1>4 DEF RecvMessage, srvVars
  <2>3. Done' = Reached /\ Live' /\ ~Hist'
    BY <2>1, <2>2 DEF Done, Live, Hist
  <2>4. channel_serial' <= Len(published)
    BY <2>1 DEF MessageOK
  <2>5. \A k \in 1 .. Len(work') : work'[k].msg = Reached + k
    BY <2>1 DEF MessageOK
  <2>6. 0 <= Reached
    BY <1>1, <2>1
  <2>7. QED
    BY <1>0, <1>1, <2>1, <2>2, <2>3, <2>4, <2>5, <2>6 DEF PlaceInv
<1>5. CASE RecvAttached
  <2>1. /\ state' = "ATTACHED" /\ pc = "idle"
        /\ AttachedOK(wire[1], channel_serial, Len(published))
        /\ Attach(wire[1], ~wire[1].resumed \/ wire[1].backlog)
        /\ wire[1].from \in Nat /\ live_from' = wire[1].from
        /\ channel_serial' \in Int /\ channel_serial' <= live_from'
        /\ channel_serial' =
             IF wire[1].serial = NoSerial THEN channel_serial ELSE wire[1].from
        /\ wire[1].serial = NoSerial \/ wire[1].serial = wire[1].from
    <3>1. wire[1].serial = NoSerial \/ wire[1].serial = wire[1].from
      BY <1>5, RecvAttachedPlace DEF AttachedOK
    <3>2. QED
      BY <1>5, <3>1, RecvAttachedPlace
  <2>2. published' = published /\ work' = work
    BY <1>5 DEF RecvAttached, srvVars
  <2>3. live_from' <= Len(published)
    BY <2>1 DEF AttachedOK
  <2>4. channel_serial' <= Len(published)
    BY <1>1, <2>1, <2>3
  <2>5. work = <<>>
    BY <2>1 DEF PlaceInv
  <2>6. \/ pc' = "idle"
        \/ pc' = "fetch" /\ channel_serial' # NoSerial /\ cursor' = channel_serial'
    BY <2>1 DEF Attach
  <2>7. ~Live' /\ ~Hist'
    BY <2>6 DEF Live, Hist
  <2>8. pc' = "fetch" => Goal' = channel_serial'
    BY <2>6 DEF Goal
  <2>9. QED
    BY <1>0, <1>1, <2>1, <2>2, <2>3, <2>4, <2>5, <2>6, <2>7, <2>8 DEF PlaceInv
<1>6. CASE FrameDone \/ PageEmpty
  <2>1. /\ work = <<>> /\ UNCHANGED <<channel_serial, live_from, cursor, work, published, state>>
        /\ FrameDone => pc = "frame" /\ pc' = "idle"
        /\ PageEmpty => pc = "page" /\ pc' = "fetch"
    BY <1>6 DEF FrameDone, PageEmpty, gapVars, srvVars
  <2>2. ~Live' /\ ~Hist' /\ Goal' = Goal
    BY <1>6, <2>1 DEF Live, Hist, Goal
  <2>3. PageEmpty => Hist
    BY <2>1 DEF Hist
  <2>4. QED
    BY <1>0, <1>6, <2>1, <2>2, <2>3 DEF PlaceInv
<1>7. CASE RecoverGap \/ RecoverFails
  <2>1. /\ pc = "fetch" /\ UNCHANGED <<published, state, channel_serial, cur>>
        /\ GiveUp \/ (cursor # NoSerial /\ GotPage)
    BY <1>7, RecoveryCases DEF srvVars
  <2>2. CASE GiveUp
    <3>1. pc' = "idle" /\ UNCHANGED <<work, live_from, cursor>> /\ work = <<>>
      BY <2>1, <2>2 DEF GiveUp, gapVars, PlaceInv
    <3>2. ~Live' /\ ~Hist'
      BY <3>1 DEF Live, Hist
    <3>3. QED
      BY <1>0, <1>1, <2>1, <3>1, <3>2 DEF PlaceInv
  <2>3. CASE cursor # NoSerial /\ GotPage
    <3>1. /\ pc' = "page" /\ live_from' = live_from
          /\ cursor \in Nat /\ Goal = cursor /\ Len(work') \in Nat
          /\ \A k \in 1 .. Len(work') : work'[k].msg = cursor + k /\ cursor + k <= Len(published)
          /\ (work' = <<>> <=> Len(work') = 0)
          /\ cursor' \in {NoSerial, channel_serial, cursor + Len(work')}
          /\ cursor' = NoSerial => cursor + Len(work') >= live_from
      BY <2>1, <2>3, PagePlace
    <3>2. Hist' /\ ~Live'
      BY <3>1 DEF Hist, Live
    <3>3. /\ channel_serial # NoSerial /\ channel_serial <= live_from
          /\ channel_serial <= cursor /\ cursor <= Len(published) /\ state = "ATTACHED"
      BY <2>1, <3>1 DEF PlaceInv
    <3>4. cursor + Len(work') <= Len(published)
      <4>1. CASE Len(work') = 0
        BY <3>1, <3>3, <4>1
      <4>2. CASE Len(work') # 0
        <5>1. Len(work') \in 1 .. Len(work')
          BY <3>1, <4>2
        <5>2. QED
          BY <3>1, <5>1
      <4>3. QED
        BY <4>1, <4>2
    <3>5. Goal' \in Int /\ channel_serial <= Goal' /\ Goal' <= cursor + Len(work')
      <4>1. CASE cursor' = NoSerial
        <5>1. Goal' = live_from
          BY <3>1, <4>1 DEF Goal
        <5>2. QED
          BY <1>1, <3>1, <3>3, <4>1, <5>1
      <4>2. CASE cursor' # NoSerial
        <5>1. Goal' = cursor'
          BY <4>2 DEF Goal
        <5>2. cursor' \in {channel_serial, cursor + Len(work')}
          BY <3>1, <4>2
        <5>3. QED
          BY <1>1, <3>1, <3>3, <5>1, <5>2
      <4>3. QED
        BY <4>1, <4>2
    <3>6. Goal' <= Len(published)
      BY <1>1, <3>1, <3>4, <3>5
    <3>7. \A k \in 1 .. Len(work') : /\ work'[k].msg = work'[1].msg + k - 1
                                     /\ work'[k].msg > channel_serial
                                     /\ work'[k].msg <= Len(published)
      <4> TAKE k \in 1 .. Len(work')
      <4>1. 1 \in 1 .. Len(work') /\ k \in Nat /\ k >= 1
        BY <3>1
      <4>2. work'[1].msg = cursor + 1 /\ work'[k].msg = cursor + k /\ cursor + k <= Len(published)
        BY <3>1, <4>1
      <4>3. QED
        BY <1>1, <3>1, <3>3, <4>1, <4>2
    <3>8. work' # <<>> => work'[Len(work')].msg >= Goal'
      <4> HAVE work' # <<>>
      <4>1. Len(work') \in 1 .. Len(work')
        BY <3>1
      <4>2. work'[Len(work')].msg = cursor + Len(work')
        BY <3>1, <4>1
      <4>3. QED
        BY <3>1, <3>5, <4>2
    <3>9. QED
      BY <1>0, <1>1, <2>1, <3>1, <3>2, <3>3, <3>5, <3>6, <3>7, <3>8 DEF PlaceInv
  <2>4. QED
    BY <2>1, <2>2, <2>3
<1>8. ASSUME NEW first \in 1 .. Slots + 1, NEW m \in Msg, NEW live \in BOOLEAN,
             Handles(first, m, live)
      PROVE  PlaceInv'
  <2>1. UNCHANGED <<published, state, channel_serial, live_from, cursor>> /\ Takes(first, m, live)
    BY <1>8 DEF Handles, srvVars, gapVars
  <2>2. /\ state = "ATTACHED" /\ Len(work') \in Nat /\ (work' = <<>> <=> Len(work') = 0)
        /\ live => Live /\ TakenLive(m)
        /\ ~live => Hist /\ TakenHist(m)
    BY <2>1, TakesPlace
  <2>3. \/ pc' = Rest(live)
        \/ pc' = "callback" /\ cur'.msg = m /\ cur'.live = live
    BY <1>8, HandlesPlace
  <2>4. pc' \notin {"idle", "fetch"} /\ m \in Nat /\ m >= 1
    BY <2>3 DEF Rest, Msg
  <2>5. CASE live
    <3>1. Live' /\ ~Hist'
      BY <2>3, <2>5 DEF Live, Hist, Rest
    <3>2. Done' = m
      BY <2>1, <2>2, <2>5 DEF Done, TakenLive
    <3>3. live_from < m /\ \A k \in 1 .. Len(work') : work'[k].msg = m + k
      BY <2>2, <2>5 DEF TakenLive
    <3>4. pc' = "callback" => cur'.msg = m
      BY <2>3, <2>5 DEF Rest
    <3>5. QED
      BY <1>0, <1>1, <2>1, <2>2, <2>4, <3>1, <3>2, <3>3, <3>4 DEF PlaceInv
  <2>6. CASE ~live
    <3>1. Hist' /\ ~Live'
      BY <2>3, <2>6 DEF Live, Hist, Rest
    <3>2. Goal' = Goal
      BY <2>1 DEF Goal
    <3>3. pc' = "callback" => cur'.msg = m
      BY <2>3, <2>6 DEF Rest
    <3>4. TakenHist(m)
      BY <2>2, <2>6
    <3>5. \A k \in 1 .. Len(work') : /\ work'[k].msg = work'[1].msg + k - 1
                                     /\ work'[k].msg > channel_serial
                                     /\ work'[k].msg <= Len(published)
      <4> TAKE k \in 1 .. Len(work')
      <4>1. 1 \in 1 .. Len(work') /\ k \in Nat /\ k >= 1
        BY <2>2
      <4>2. work'[1].msg = m + 1 /\ work'[k].msg = m + k /\ work'[k].msg <= Len(published)
            /\ channel_serial < m
        BY <3>4, <4>1 DEF TakenHist
      <4>3. QED
        BY <1>1, <2>4, <4>1, <4>2
    <3>6. /\ work' # <<>> => work'[Len(work')].msg >= Goal
          /\ IF work' = <<>> THEN m >= Goal ELSE work'[1].msg = m + 1
          /\ channel_serial < m /\ m <= Len(published)
          /\ channel_serial # NoSerial /\ channel_serial <= live_from
          /\ channel_serial <= Goal /\ Goal <= Len(published)
      BY <3>4 DEF TakenHist
    <3>7. QED
      BY <1>0, <1>1, <2>1, <2>2, <2>4, <3>1, <3>2, <3>3, <3>5, <3>6 DEF PlaceInv
  <2>7. QED
    BY <2>5, <2>6
<1>9. QED
  BY <1>2, <1>3, <1>4, <1>5, <1>6, <1>7, <1>8, StepCases

(* Part 8: the order of the live messages.                                 *)

LiveBound ==
  \A i \in 1 .. Slots : subscribers[i].token # 0 =>
    \A k \in DOMAIN got[subscribers[i].token] :
      got[subscribers[i].token][k].live => got[subscribers[i].token][k].msg <= LiveUpTo(i)

LEMMA LiveInvParts ==
  (LiveInv <=> LiveInOrder /\ LiveBound) /\ (LiveInv' <=> LiveInOrder' /\ LiveBound')
BY DEF LiveInv, LiveBound

LEMMA UpToType ==
  ASSUME TypeInv, NEW i \in 1 .. Slots
  PROVE  LiveUpTo(i) \in Int
BY PlaceTypes DEF LiveUpTo

\* A step that gives nobody anything does not take the position back.
LEMMA LiveGrows ==
  ASSUME TypeInv, TypeInv', LiveInv, UNCHANGED <<subscribers, got>>,
         \A i \in 1 .. Slots : LiveUpTo(i) <= LiveUpTo(i)'
  PROVE  LiveInv'
<1>1. LiveInOrder /\ LiveBound
  BY LiveInvParts
<1>2. LiveInOrder'
  BY <1>1 DEF LiveInOrder
<1>3. LiveBound'
  <2> SUFFICES ASSUME NEW i \in 1 .. Slots, subscribers[i].token # 0,
                      NEW k \in DOMAIN got[subscribers[i].token],
                      got[subscribers[i].token][k].live
               PROVE  got[subscribers[i].token][k].msg <= LiveUpTo(i)'
    BY DEF LiveBound
  <2>1. got[subscribers[i].token][k].msg <= LiveUpTo(i)
    BY <1>1 DEF LiveBound
  <2>2. LiveUpTo(i) <= LiveUpTo(i)'
    OBVIOUS
  <2>3. LiveUpTo(i) \in Int
    BY UpToType
  <2>4. LiveUpTo(i)' \in Int
    <3>1. channel_serial' \in Serials /\ work' \in Seq(WorkItem)
      BY DEF TypeInv, TypeOK
    <3>2. channel_serial' \in Int /\ Len(work') \in Nat
      BY <3>1, Bounds DEF Serials, NoSerial
    <3>3. QED
      BY <3>2 DEF LiveUpTo, Done
  <2>5. got[subscribers[i].token][k].msg \in Int
    <3>1. subscribers[i].token \in Token
      BY SlotTypes
    <3>2. got[subscribers[i].token][k] \in Given
      BY <3>1, SlotTypes
    <3>3. QED
      BY <3>2 DEF Given, Msg
  <2>6. QED
    BY <2>1, <2>2, <2>3, <2>4, <2>5
<1>4. QED
  BY <1>2, <1>3, LiveInvParts

\* The subscriber of the slot i is given the message m.
LEMMA LiveGiven ==
  ASSUME TypeInv, SlotInv, LiveInv, NEW i \in 1 .. Slots, NEW m \in Msg, NEW data,
         NEW live \in BOOLEAN, Adds(subscribers[i].token, m, data, live),
         subscribers' = subscribers,
         live => LiveUpTo(i) < m,
         \A j \in 1 .. Slots : LiveUpTo(j)' \in Int /\ LiveUpTo(j) <= LiveUpTo(j)',
         live => m <= LiveUpTo(i)'
  PROVE  LiveInv'
<1> DEFINE t == subscribers[i].token
           n == Len(got[t])
<1>1. /\ t \in Token /\ t # 0 /\ \A u \in Token : u # t => got'[u] = got[u]
      /\ DOMAIN got'[t] = 1 .. n + 1
      /\ \A k \in 1 .. n : got'[t][k] = got[t][k]
      /\ got'[t][n + 1] = [msg |-> m, data |-> data, live |-> live]
  BY DEF Adds
<1>2. n \in Nat /\ DOMAIN got[t] = 1 .. n /\ \A k \in 1 .. n : got[t][k] \in Given
  BY <1>1, SlotTypes
<1>3. got'[t][n + 1].msg = m /\ got'[t][n + 1].live = live
  BY <1>1
<1>4. LiveUpTo(i) \in Int /\ m \in Int
  BY UpToType DEF Msg
<1>5. LiveInOrder /\ LiveBound
  BY LiveInvParts
<1>6. \A k \in 1 .. n : got[t][k].live => got[t][k].msg <= LiveUpTo(i)
  BY <1>1, <1>2, <1>5 DEF LiveBound
<1>7. \A k \in 1 .. n : got[t][k].msg \in Int
  BY <1>2 DEF Given, Msg
<1> HIDE DEF n
<1>8. LiveInOrder'
  <2> SUFFICES ASSUME NEW u \in Token, NEW j \in DOMAIN got'[u], NEW k \in DOMAIN got'[u],
                      j < k, got'[u][j].live, got'[u][k].live
               PROVE  got'[u][j].msg < got'[u][k].msg
    BY DEF LiveInOrder
  <2>1. CASE u # t
    BY <1>1, <1>5, <2>1 DEF LiveInOrder
  <2>2. CASE u = t
    <3>1. j \in 1 .. n /\ got'[u][j] = got[t][j] /\ k \in 1 .. n + 1
      <4>1. j \in 1 .. n + 1 /\ k \in 1 .. n + 1
        BY <1>1, <2>2
      <4>2. j \in 1 .. n
        BY <1>2, <4>1
      <4>3. QED
        BY <1>1, <2>2, <4>1, <4>2
    <3>2. CASE k \in 1 .. n
      <4>1. got'[u][k] = got[t][k]
        BY <1>1, <2>2, <3>2
      <4>2. QED
        BY <1>1, <1>2, <1>5, <3>1, <3>2, <4>1 DEF LiveInOrder
    <3>3. CASE k = n + 1
      <4>1. got'[u][k].msg = m /\ live
        BY <1>3, <2>2, <3>3
      <4>2. got[t][j].msg <= LiveUpTo(i) /\ got[t][j].msg \in Int
        BY <1>6, <1>7, <3>1
      <4>3. LiveUpTo(i) < m
        BY <4>1
      <4>4. QED
        BY <1>4, <3>1, <4>1, <4>2, <4>3
    <3>4. QED
      BY <1>2, <3>1, <3>2, <3>3
  <2>3. QED
    BY <2>1, <2>2
<1>9. LiveBound'
  <2> SUFFICES ASSUME NEW s \in 1 .. Slots, subscribers[s].token # 0,
                      NEW k \in DOMAIN got'[subscribers[s].token],
                      got'[subscribers[s].token][k].live
               PROVE  got'[subscribers[s].token][k].msg <= LiveUpTo(s)'
    BY DEF LiveBound
  <2>1. LiveUpTo(s) \in Int /\ LiveUpTo(s)' \in Int /\ LiveUpTo(s) <= LiveUpTo(s)'
    BY UpToType
  <2>2. CASE s # i
    <3>1. subscribers[s].token # t /\ subscribers[s].token \in Token
      BY <2>2, SlotTypes DEF SlotInv
    <3>2. got'[subscribers[s].token] = got[subscribers[s].token]
      BY <1>1, <3>1
    <3>3. got[subscribers[s].token][k].msg <= LiveUpTo(s)
      BY <1>5, <3>2 DEF LiveBound
    <3>4. got[subscribers[s].token][k] \in Given
      BY <3>1, <3>2, SlotTypes
    <3>5. got[subscribers[s].token][k].msg \in Int
      BY <3>4 DEF Given, Msg
    <3>6. QED
      BY <2>1, <3>2, <3>3, <3>5
  <2>3. CASE s = i
    <3>1. k \in 1 .. n + 1
      BY <1>1, <2>3
    <3>2. CASE k \in 1 .. n
      BY <1>1, <1>6, <1>7, <2>1, <2>3, <3>2
    <3>3. CASE k = n + 1
      BY <1>3, <2>3, <3>3
    <3>4. QED
      BY <1>2, <3>1, <3>2, <3>3
  <2>4. QED
    BY <2>2, <2>3
<1>10. QED
  BY <1>8, <1>9, LiveInvParts

LEMMA UpToNext ==
  ASSUME TypeInv', NEW i \in 1 .. Slots
  PROVE  LiveUpTo(i)' \in Int
<1>1. channel_serial' \in Serials /\ work' \in Seq(WorkItem)
  BY DEF TypeInv, TypeOK
<1>2. channel_serial' \in Int /\ Len(work') \in Nat
  BY <1>1, Bounds DEF Serials, NoSerial
<1>3. QED
  BY <1>2 DEF LiveUpTo, Done

\* How a message that is taken moves the live position.
LEMMA HandlesUpTo ==
  ASSUME TypeInv, TypeInv', PlaceInv, NEW first \in 1 .. Slots + 1, NEW m \in Msg,
         NEW live \in BOOLEAN, Handles(first, m, live)
  PROVE  /\ \A j \in 1 .. Slots : LiveUpTo(j)' \in Int /\ LiveUpTo(j) <= LiveUpTo(j)'
         /\ \A i \in 1 .. Slots, data \in Payload : live /\ GivesTo(i, first, m, data, live) =>
              LiveUpTo(i) < m /\ m <= LiveUpTo(i)'
<1>1. UNCHANGED <<channel_serial, live_from>> /\ Takes(first, m, live)
  BY DEF Handles, gapVars
<1>2. \/ pc' = Rest(live)
      \/ pc' = "callback" /\ cur'.msg = m /\ cur'.live = live
  BY HandlesPlace
<1>3. /\ live => Live /\ TakenLive(m)
      /\ ~live => Hist /\ TakenHist(m)
  BY <1>1, TakesPlace
<1>4. \A j \in 1 .. Slots : LiveUpTo(j)' \in Int /\ LiveUpTo(j) \in Int
  BY UpToNext, UpToType
<1>5. m \in Int /\ Done \in Int
  BY PlaceTypes DEF Msg
<1>6. CASE ~live
  <2>1. ~Live /\ ~Live'
    BY <1>2, <1>3, <1>6 DEF Live, Hist, Rest
  <2>2. \A j \in 1 .. Slots : LiveUpTo(j)' = LiveUpTo(j)
    BY <1>1, <2>1 DEF LiveUpTo
  <2>3. QED
    BY <1>4, <1>6, <2>2
<1>7. CASE live
  <2>1. Live /\ Live' /\ Done' = m
    BY <1>1, <1>2, <1>3, <1>7 DEF Live, Done, Rest, TakenLive
  <2>2. \A j \in 1 .. Slots : LiveUpTo(j) = IF pc = "callback" /\ j <= cur.slot THEN m ELSE m - 1
    <3> TAKE j \in 1 .. Slots
    <3>1. cur.slot \in Int /\ j \in Int
      <4>1. cur.slot \in 0 .. Slots
        BY DEF TypeInv
      <4>2. QED
        BY <4>1, Bounds
    <3>2. CASE pc = "callback"
      <4>1. Done = m
        BY <1>3, <1>7, <3>2 DEF TakenLive
      <4>2. QED
        BY <2>1, <3>1, <3>2, <4>1 DEF LiveUpTo
    <3>3. CASE pc # "callback"
      <4>1. Done = m - 1
        BY <1>3, <1>7, <3>3 DEF TakenLive
      <4>2. QED
        BY <2>1, <3>3, <4>1 DEF LiveUpTo
    <3>4. QED
      BY <3>2, <3>3
  <2>3. CASE pc' = Rest(live)
    <3>1. \A j \in 1 .. Slots : LiveUpTo(j)' = m
      BY <1>7, <2>1, <2>3 DEF LiveUpTo, Rest
    <3>2. ASSUME NEW i \in 1 .. Slots, NEW data \in Payload, GivesTo(i, first, m, data, live)
          PROVE  FALSE
      BY <1>7, <2>3, <3>2 DEF GivesTo, Rest
    <3>3. QED
      BY <1>4, <1>5, <2>2, <3>1, <3>2
  <2>4. ASSUME NEW i \in 1 .. Slots, NEW data \in Payload, GivesTo(i, first, m, data, live)
        PROVE  /\ \A j \in 1 .. Slots : LiveUpTo(j) <= LiveUpTo(j)'
               /\ LiveUpTo(i) < m /\ m <= LiveUpTo(i)'
    <3>1. pc' = "callback" /\ cur'.slot = i
      <4>1. pc' = "callback"
        BY <2>4 DEF GivesTo
      <4>2. QED
        BY <2>4, <4>1, GivenTypes
    <3>2. \A j \in 1 .. Slots : LiveUpTo(j)' = IF j > i THEN m - 1 ELSE m
      BY <2>1, <3>1 DEF LiveUpTo
    <3>3. pc = "callback" => cur.slot < i
      <4>1. i \in first .. Slots /\ i \in Nat /\ first \in Nat
        BY <2>4, Bounds DEF GivesTo
      <4>2. pc = "callback" => first = cur.slot + 1
        BY <1>1 DEF Takes, Rest
      <4>3. cur.slot \in 0 .. Slots
        BY DEF TypeInv
      <4>4. QED
        BY <4>1, <4>2, <4>3, Bounds
    <3>4. cur.slot \in Int /\ i \in Int
      <4>1. cur.slot \in 0 .. Slots
        BY DEF TypeInv
      <4>2. QED
        BY <4>1, Bounds
    <3>5. LiveUpTo(i) < m /\ m <= LiveUpTo(i)'
      BY <1>5, <2>2, <3>2, <3>3, <3>4
    <3>6. \A j \in 1 .. Slots : LiveUpTo(j) <= LiveUpTo(j)'
      BY <1>5, <2>2, <3>2, <3>3, <3>4, Bounds
    <3>7. QED
      BY <3>5, <3>6
  <2>5. pc' = Rest(live) \/ \E i \in 1 .. Slots, data \in Payload : GivesTo(i, first, m, data, live)
    BY DEF Handles, Skips, EndsAfter
  <2>6. QED
    BY <1>4, <2>3, <2>4, <2>5
<1>8. QED
  BY <1>6, <1>7

LEMMA LiveStep ==
  ASSUME TypeInv, TypeInv', PlaceInv, SlotInv, WireInv, LiveInv, [Next]_vars
  PROVE  LiveInv'
<1>0. /\ LiveInOrder /\ LiveBound /\ channel_serial \in Int /\ Len(work) \in Nat
      /\ Reached \in Int /\ Reached >= channel_serial
  BY LiveInvParts, PlaceTypes DEF Reached
<1>1. CASE Quiet
  <2>1. UNCHANGED <<channel_serial, pc, work, cur, subscribers, got>>
    BY <1>1 DEF Quiet, subVars
  <2>2. \A i \in 1 .. Slots : LiveUpTo(i) = LiveUpTo(i)'
    BY <2>1 DEF LiveUpTo, Live, Done
  <2>3. \A i \in 1 .. Slots : LiveUpTo(i) <= LiveUpTo(i)'
    BY <2>2, UpToType
  <2>4. QED
    BY <2>1, <2>3, LiveGrows
<1>2. CASE Subscribe
  <2>1. PICK i \in 1 .. Slots : TakesSlot(i)
    BY <1>2, SubscribeCases
  <2>2. UNCHANGED <<channel_serial, pc, work, cur, got>>
    BY <1>2, <2>1, SubscribeCases DEF Untouched, TakesSlot
  <2>3. \A j \in 1 .. Slots : LiveUpTo(j) = LiveUpTo(j)'
    BY <2>2 DEF LiveUpTo, Live, Done
  <2>4. LiveInOrder'
    BY <1>0, <2>2 DEF LiveInOrder
  <2>5. LiveBound'
    <3> SUFFICES ASSUME NEW j \in 1 .. Slots, subscribers'[j].token # 0,
                        NEW k \in DOMAIN got[subscribers'[j].token],
                        got[subscribers'[j].token][k].live
                 PROVE  got[subscribers'[j].token][k].msg <= LiveUpTo(j)
      BY <2>2, <2>3 DEF LiveBound
    <3>1. j # i
      <4> SUFFICES ASSUME j = i PROVE FALSE
        OBVIOUS
      <4>1. got[subscribers'[j].token] = <<>>
        BY <2>1 DEF TakesSlot
      <4>2. QED
        BY <4>1
    <3>2. subscribers'[j] = subscribers[j]
      BY <2>1, <3>1 DEF TakesSlot
    <3>3. QED
      BY <1>0, <3>2 DEF LiveBound
  <2>6. QED
    BY <2>4, <2>5, LiveInvParts
<1>3. CASE Unsubscribe
  <2>1. PICK i \in 1 .. Slots, t \in Token : LeavesSlot(i, t)
    BY <1>3, UnsubscribeCases
  <2>2. UNCHANGED <<channel_serial, pc, work, cur>>
    BY <1>3, UnsubscribeCases DEF Untouched
  <2>3. \A j \in 1 .. Slots : LiveUpTo(j) = LiveUpTo(j)'
    BY <2>2 DEF LiveUpTo, Live, Done
  <2>4. LiveInOrder'
    <3> SUFFICES ASSUME NEW u \in Token, NEW j \in DOMAIN got'[u], NEW k \in DOMAIN got'[u],
                        j < k, got'[u][j].live, got'[u][k].live
                 PROVE  got'[u][j].msg < got'[u][k].msg
      BY DEF LiveInOrder
    <3>1. u # t
      <4> SUFFICES ASSUME u = t PROVE FALSE
        OBVIOUS
      <4>1. got'[u] = <<>>
        BY <2>1 DEF LeavesSlot
      <4>2. QED
        BY <4>1
    <3>2. got'[u] = got[u]
      BY <2>1, <3>1 DEF LeavesSlot
    <3>3. QED
      BY <1>0, <3>2 DEF LiveInOrder
  <2>5. LiveBound'
    <3> SUFFICES ASSUME NEW j \in 1 .. Slots, subscribers'[j].token # 0,
                        NEW k \in DOMAIN got'[subscribers'[j].token],
                        got'[subscribers'[j].token][k].live
                 PROVE  got'[subscribers'[j].token][k].msg <= LiveUpTo(j)
      BY <2>3 DEF LiveBound
    <3>1. j # i
      BY <2>1 DEF LeavesSlot
    <3>2. subscribers'[j] = subscribers[j] /\ subscribers[j].token # t
      BY <2>1, <3>1 DEF LeavesSlot
    <3>3. subscribers[j].token \in Token
      BY <3>2, SlotTypes
    <3>4. got'[subscribers[j].token] = got[subscribers[j].token]
      BY <2>1, <3>2, <3>3 DEF LeavesSlot
    <3>5. QED
      BY <1>0, <3>2, <3>4 DEF LiveBound
  <2>6. QED
    BY <2>4, <2>5, LiveInvParts
<1>4. CASE RecvMessage
  <2>1. channel_serial' - Len(work') = Reached /\ pc = "idle"
    BY <1>4, RecvMessagePlace
  <2>2. pc' = "frame" /\ UNCHANGED <<subscribers, got>>
    BY <1>4 DEF RecvMessage, subVars
  <2>3. \A i \in 1 .. Slots : LiveUpTo(i) = channel_serial /\ LiveUpTo(i)' = Reached
    BY <2>1, <2>2 DEF LiveUpTo, Live, Done
  <2>4. QED
    BY <1>0, <2>2, <2>3, LiveGrows
<1>5. CASE RecvAttached
  <2>1. channel_serial <= channel_serial' /\ pc = "idle"
    BY <1>5, RecvAttachedPlace
  <2>2. pc' \in {"idle", "fetch"} /\ UNCHANGED <<subscribers, got>>
    BY <1>5, <2>1 DEF RecvAttached, Attach, subVars
  <2>3. \A i \in 1 .. Slots : LiveUpTo(i) = channel_serial /\ LiveUpTo(i)' = channel_serial'
    BY <2>1, <2>2 DEF LiveUpTo, Live
  <2>4. QED
    BY <2>1, <2>2, <2>3, LiveGrows
<1>6. CASE FrameDone
  <2>1. pc = "frame" /\ work = <<>> /\ pc' = "idle"
        /\ UNCHANGED <<subscribers, got, channel_serial>>
    BY <1>6 DEF FrameDone, subVars
  <2>2. Done = channel_serial
    BY <1>0, <2>1, PlaceTypes DEF Done
  <2>3. \A i \in 1 .. Slots : LiveUpTo(i) = channel_serial /\ LiveUpTo(i)' = channel_serial
    BY <2>1, <2>2 DEF LiveUpTo, Live
  <2>4. QED
    BY <1>0, <2>1, <2>3, LiveGrows
<1>7. CASE RecoverGap \/ RecoverFails \/ PageEmpty
  <2>1. RecoverGap \/ RecoverFails =>
          pc = "fetch" /\ pc' \in {"idle", "page"} /\ UNCHANGED <<subscribers, got, channel_serial>>
    BY RecoveryCases DEF subVars, GiveUp, GotPage
  <2>2. PageEmpty => pc = "page" /\ pc' = "fetch" /\ UNCHANGED <<subscribers, got, channel_serial>>
    BY DEF PageEmpty, subVars
  <2>3. \A i \in 1 .. Slots : LiveUpTo(i) = channel_serial /\ LiveUpTo(i)' = channel_serial
    BY <1>7, <2>1, <2>2 DEF LiveUpTo, Live
  <2>4. QED
    BY <1>0, <1>7, <2>1, <2>2, <2>3, LiveGrows
<1>8. ASSUME NEW first \in 1 .. Slots + 1, NEW m \in Msg, NEW live \in BOOLEAN,
             Handles(first, m, live)
      PROVE  LiveInv'
  <2>1. /\ \A j \in 1 .. Slots : LiveUpTo(j)' \in Int /\ LiveUpTo(j) <= LiveUpTo(j)'
        /\ \A i \in 1 .. Slots, data \in Payload : live /\ GivesTo(i, first, m, data, live) =>
              LiveUpTo(i) < m /\ m <= LiveUpTo(i)'
    BY <1>8, HandlesUpTo
  <2>2. subscribers' = subscribers
    BY <1>8 DEF Handles, subVars
  <2>3. CASE got' = got
    BY <2>1, <2>2, <2>3, LiveGrows
  <2>4. ASSUME NEW i \in 1 .. Slots, NEW data \in Payload, GivesTo(i, first, m, data, live)
        PROVE  LiveInv'
    <3>1. Adds(subscribers[i].token, m, data, live)
      BY <2>4, GivenOne
    <3>2. live => LiveUpTo(i) < m /\ m <= LiveUpTo(i)'
      BY <2>1, <2>4
    <3>3. QED
      BY <2>1, <2>2, <3>1, <3>2, LiveGiven
  <2>5. QED
    BY <1>8, <2>3, <2>4 DEF Handles, Skips, EndsAfter
<1>9. QED
  BY <1>1, <1>2, <1>3, <1>4, <1>5, <1>6, <1>7, <1>8, StepCases

(* Part 9: the base of the deltas.                                         *)

StoreInv ==
  /\ \A b \in 0 .. 1 : delta_bufs[b] # NoPayload => delta_bufs[b].conn = conn
  /\ state = "DETACHED" => \A b \in 0 .. 1 : delta_bufs[b] = NoPayload
  /\ NoStaleBase

BaseInv ==
  /\ Live => \A k \in 1 .. Len(work) :
               work[k].delta => delta_enabled /\ Done + k - 1 > live_from
  /\ state = "ATTACHED" /\ delta_enabled /\ BaseOf > live_from /\ AllText(BaseOf) =>
       Active.of = BaseOf /\ Active.form = "clear"

LEMMA DeltaInvParts ==
  (DeltaInv <=> StoreInv /\ BaseInv) /\ (DeltaInv' <=> StoreInv' /\ BaseInv')
BY DEF DeltaInv, StoreInv, BaseInv

LEMMA StoreStep ==
  ASSUME TypeInv, PlaceInv, StoreInv, [Next]_vars
  PROVE  StoreInv'
<1>1. delta_bufs \in [0 .. 1 -> Payload] /\ delta_buf_idx \in 0 .. 1
  BY DEF TypeInv, TypeOK
<1>2. CASE EnableDelta \/ OnDisconnect
  <2>1. delta_bufs' = [b \in 0 .. 1 |-> NoPayload] /\ applied' = applied
    BY <1>2 DEF EnableDelta, OnDisconnect
  <2>2. QED
    BY <2>1 DEF StoreInv, NoStaleBase
<1>3. CASE Attaching
  <2>1. state = "DETACHED" /\ UNCHANGED <<delta_bufs, applied>> /\ state' # "DETACHED"
    BY <1>3 DEF Attaching, deltaVars
  <2>2. QED
    BY <2>1 DEF StoreInv, NoStaleBase
<1>4. CASE NextMessage
  <2>1. /\ state = "ATTACHED" /\ UNCHANGED <<state, conn>>
        /\ DropsMessage \/ \E data \in Payload : DeliversMessage(data)
    <3>1. /\ pc = "frame" /\ UNCHANGED <<state, conn>>
          /\ DropsMessage \/ \E data \in Payload : DeliversMessage(data)
      BY <1>4, NextMessageCases DEF srvVars
    <3>2. state = "ATTACHED"
      BY <3>1 DEF PlaceInv
    <3>3. QED
      BY <3>1, <3>2
  <2>2. CASE UNCHANGED <<delta_bufs, applied>>
    BY <2>1, <2>2 DEF StoreInv, NoStaleBase
  <2>3. ASSUME NEW data, data = NoPayload \/ data.conn = conn, Store(data),
               applied' = applied \/ (Active # NoPayload /\ applied' = applied \cup {<<conn, Active.conn>>})
        PROVE  StoreInv'
    <3>1. Other \in 0 .. 1 /\ delta_bufs' = [delta_bufs EXCEPT ![Other] = data]
      BY <1>1, <2>3 DEF Store, Other
    <3>2. \A b \in 0 .. 1 : delta_bufs'[b] = data \/ delta_bufs'[b] = delta_bufs[b]
      BY <1>1, <3>1
    <3>3. \A b \in 0 .. 1 : delta_bufs'[b] # NoPayload => delta_bufs'[b].conn = conn
      BY <2>3, <3>2 DEF StoreInv
    <3>4. Active # NoPayload => Active.conn = conn
      BY <1>1 DEF Active, StoreInv
    <3>5. \A p \in applied' : p[1] = p[2]
      BY <2>3, <3>4 DEF StoreInv, NoStaleBase
    <3>6. QED
      BY <2>1, <3>3, <3>5 DEF StoreInv, NoStaleBase
  <2>4. ASSUME NEW data \in Payload, BaseStep(Head(work).msg, data)
        PROVE  StoreInv'
    <3>1. CASE UNCHANGED <<delta_bufs, applied>>
      BY <2>2, <3>1
    <3>2. CASE Store(Raw(Head(work).msg)) /\ applied' = applied
      BY <2>3, <3>2 DEF Raw
    <3>3. CASE /\ data \in Decoded(Head(work).msg, Active) \ {NoPayload}
               /\ Store(data) /\ applied' = applied \cup {<<conn, Active.conn>>}
      <4>1. data.conn = conn /\ Active # NoPayload
        BY <3>3 DEF Decoded, Clear
      <4>2. QED
        BY <2>3, <3>3, <4>1
    <3>4. QED
      BY <2>4, <3>1, <3>2, <3>3 DEF BaseStep
  <2>5. QED
    BY <2>1, <2>2, <2>4 DEF DropsMessage, DeliversMessage
<1>5. CASE UNCHANGED <<delta_bufs, applied, conn>> /\ (state' = state \/ state' = "ATTACHED")
  BY <1>5 DEF StoreInv, NoStaleBase
<1>6. \/ EnableDelta \/ OnDisconnect \/ Attaching \/ NextMessage
      \/ UNCHANGED <<delta_bufs, applied, conn>> /\ (state' = state \/ state' = "ATTACHED")
  <2>1. RecvMessage \/ RecvAttached \/ FrameDone \/ CallbackReturn \/ DeliverHistory
          \/ Subscribe \/ Unsubscribe \/ Publish \/ ServerAttach \/ ServerSend \/ Drop
          \/ UNCHANGED vars
          => UNCHANGED <<delta_bufs, applied, conn>> /\ (state' = state \/ state' = "ATTACHED")
    BY DEF RecvMessage, RecvAttached, Attach, FrameDone, CallbackReturn, DeliverHistory,
           Subscribe, Unsubscribe, Publish, ServerAttach, ServerSend, Drop, vars, deltaVars, srvVars
  <2>2. RecoverGap \/ RecoverFails
          => UNCHANGED <<delta_bufs, applied, conn>> /\ (state' = state \/ state' = "ATTACHED")
    BY RecoveryCases DEF deltaVars, srvVars
  <2>3. QED
    BY <2>1, <2>2 DEF Next, Service, Application, Environment
<1>7. QED
  BY <1>2, <1>3, <1>4, <1>5, <1>6

\* Nothing that the base depends on changes, but for what is published later.
LEMMA BaseSame ==
  ASSUME TypeInv, PlaceInv, BaseInv, UNCHANGED <<delta_bufs, delta_buf_idx, delta_enabled, live_from>>,
         state' = state, BaseOf' = BaseOf,
         \A k \in 1 .. Len(published) : published'[k] = published[k],
         Live' => Live /\ work' = work /\ Done' = Done
  PROVE  BaseInv'
<1>1. BaseOf \in Int /\ BaseOf <= Len(published)
  BY PlaceTypes DEF BaseOf, Done, PlaceInv
<1>2. AllText(BaseOf)' => AllText(BaseOf)
  <2> SUFFICES ASSUME AllText(BaseOf)', NEW k \in 1 .. BaseOf PROVE published[k] = "text"
    BY DEF AllText
  <2>1. k \in 1 .. Len(published) /\ k \in 1 .. BaseOf'
    BY <1>1, PlaceTypes
  <2>2. published'[k] = "text"
    BY <2>1 DEF AllText
  <2>3. QED
    BY <2>1, <2>2
<1>3. Active' = Active
  BY DEF Active
<1>4. Live' => \A k \in 1 .. Len(work') :
                 work'[k].delta => delta_enabled' /\ Done' + k - 1 > live_from'
  BY DEF BaseInv
<1>5. state' = "ATTACHED" /\ delta_enabled' /\ BaseOf' > live_from' /\ AllText(BaseOf)' =>
        Active'.of = BaseOf' /\ Active'.form = "clear"
  BY <1>2, <1>3 DEF BaseInv
<1>6. QED
  BY <1>4, <1>5 DEF BaseInv

\* With the base right, a text is decoded right.
LEMMA DecodesText ==
  ASSUME NEW m \in Msg, NEW base
  PROVE  /\ published[m] = "text" /\ base.of = m - 1 /\ base.form = "clear" =>
              Decoded(m, base) = {Clear(m)} /\ Clear(m) # NoPayload
         /\ \A d \in Decoded(m, base) \ {NoPayload} :
              d.form = "garbled" => ~(base.of = m - 1 /\ base.form = "clear")
<1>1. Clear(m) # NoPayload /\ Clear(m).form = "clear"
  BY DEF Clear, NoPayload
<1>2. base.form = "clear" => base # NoPayload
  BY DEF NoPayload
<1>3. QED
  BY <1>1, <1>2 DEF Decoded

\* The next message of a frame, as a delta to texts only, finds its base.
LEMMA BaseKnown ==
  ASSUME TypeInv, PlaceInv, BaseInv, pc = "frame", work # <<>>, NEW m, m = Head(work).msg,
         Head(work).delta, AllText(m - 1)
  PROVE  Active.of = m - 1 /\ Active.form = "clear"
<1>1. Live /\ state = "ATTACHED" /\ BaseOf = Done
  BY DEF Live, PlaceInv, BaseOf
<1>2. Head(work) = work[1] /\ 1 \in 1 .. Len(work)
  BY PlaceTypes
<1>3. m = Done + 1 /\ Done \in Int
  BY <1>1, <1>2, PlaceTypes DEF PlaceInv
<1>4. delta_enabled /\ Done + 1 - 1 > live_from
  BY <1>1, <1>2 DEF BaseInv
<1>5. m - 1 = Done /\ Done > live_from
  BY <1>3, <1>4
<1>6. QED
  BY <1>1, <1>4, <1>5 DEF BaseInv

LEMMA BaseNext ==
  ASSUME TypeInv, PlaceInv, BaseInv, NextMessage
  PROVE  BaseInv'
<1> DEFINE m == Head(work).msg
<1>1. /\ pc = "frame" /\ work # <<>> /\ work' = Tail(work) /\ m \in Msg
      /\ UNCHANGED <<published, conn, state, channel_serial, live_from, delta_enabled>>
      /\ DropsMessage \/ \E data \in Payload : DeliversMessage(data)
  BY NextMessageCases DEF srvVars, gapVars
<1>2. /\ Len(work') = Len(work) - 1 /\ Len(work) >= 1 /\ Head(work) = work[1]
      /\ \A k \in 1 .. Len(work') : work'[k] = work[k + 1] /\ k + 1 \in 1 .. Len(work)
  BY <1>1, TailWork
<1>3. Live /\ Done \in Int /\ channel_serial \in Int /\ Len(work) \in Nat /\ 1 \in 1 .. Len(work)
  BY <1>1, <1>2, PlaceTypes DEF Live
<1>4. m = Done + 1
  BY <1>2, <1>3 DEF PlaceInv
<1>5. Handles(1, m, TRUE)
  BY HandlesNext
<1> HIDE DEF m
<1>6. pc' = "frame" \/ (pc' = "callback" /\ cur'.live)
  <2>1. 1 \in 1 .. Slots + 1
    BY Bounds
  <2>2. QED
    BY <1>1, <1>5, <2>1, HandlesPlace DEF Rest
<1>7. Live' /\ Done' = m /\ BaseOf' = m
  <2>1. Live'
    BY <1>6 DEF Live
  <2>2. Done' = m
    BY <1>1, <1>2, <1>3, <1>4 DEF Done
  <2>3. QED
    BY <2>1, <2>2 DEF BaseOf
<1>8. \A k \in 1 .. Len(work') : work'[k].delta => delta_enabled /\ m + k - 1 > live_from
  <2> TAKE k \in 1 .. Len(work')
  <2> HAVE work'[k].delta
  <2>1. delta_enabled /\ Done + (k + 1) - 1 > live_from
    BY <1>2, <1>3 DEF BaseInv
  <2>2. Done + (k + 1) - 1 = m + k - 1
    BY <1>2, <1>3, <1>4
  <2>3. QED
    BY <2>1, <2>2
<1>9. ASSUME delta_enabled, AllText(m)
      PROVE  Active'.of = m /\ Active'.form = "clear"
  <2>1. m \in Nat /\ m >= 1
    BY <1>1 DEF Msg
  <2>2. published[m] = "text" /\ AllText(m - 1)
    BY <1>9, <2>1 DEF AllText
  <2>3. Raw(m) = Clear(m)
    BY <2>2 DEF Raw, Clear
  <2>4. Head(work).delta => Decoded(m, Active) = {Clear(m)} /\ Clear(m) # NoPayload
    <3> HAVE Head(work).delta
    <3>1. m = Head(work).msg
      BY DEF m
    <3>2. Active.of = m - 1 /\ Active.form = "clear"
      BY <1>1, <2>2, <3>1, BaseKnown
    <3>3. QED
      BY <1>1, <2>2, <3>2, DecodesText
  <2>5. ~DropsMessage
    BY <2>4 DEF DropsMessage, m
  <2>6. PICK data \in Payload : DeliversMessage(data)
    BY <1>1, <2>5
  <2>7. BaseStep(m, data)
    BY <2>6 DEF DeliversMessage, m
  <2>8. Store(Clear(m))
    <3>1. published[m] # "large"
      BY <2>2
    <3>2. QED
      BY <1>9, <2>3, <2>4, <2>7, <3>1 DEF BaseStep
  <2>9. Active' = Clear(m)
    <3>1. delta_bufs \in [0 .. 1 -> Payload] /\ delta_buf_idx \in 0 .. 1
      BY DEF TypeInv, TypeOK
    <3>2. QED
      BY <2>8, <3>1 DEF Active, Store, Other
  <2>10. QED
    BY <2>9 DEF Clear
<1>10. AllText(BaseOf)' => AllText(m)
  BY <1>1, <1>7 DEF AllText
<1>11. QED
  BY <1>1, <1>7, <1>8, <1>9, <1>10 DEF BaseInv

LEMMA BaseInvStep ==
  ASSUME TypeInv, PlaceInv, WireInv, SlotInv, BaseInv, [Next]_vars
  PROVE  BaseInv'
<1>0. channel_serial \in Int /\ Len(work) \in Nat
  BY PlaceTypes
<1>1. CASE EnableDelta \/ OnDisconnect \/ Attaching
  <2>1. state' # "ATTACHED" /\ pc = "idle" /\ pc' = pc
    <3>1. EnableDelta => state = "DETACHED" /\ state' = state /\ pc' = pc
      BY DEF EnableDelta
    <3>2. OnDisconnect \/ Attaching => state' # "ATTACHED" /\ pc = "idle" /\ pc' = pc
      BY DEF OnDisconnect, Attaching, Arrived
    <3>3. state = "DETACHED" => pc = "idle"
      BY DEF PlaceInv
    <3>4. QED
      BY <1>1, <3>1, <3>2, <3>3
  <2>2. ~Live'
    BY <2>1 DEF Live
  <2>3. QED
    BY <2>1, <2>2 DEF BaseInv
<1>2. CASE \/ Publish \/ ServerAttach \/ ServerSend \/ Drop \/ Subscribe \/ Unsubscribe
           \/ UNCHANGED vars
  <2>1. /\ UNCHANGED <<delta_bufs, delta_buf_idx, delta_enabled, live_from, state, pc, work, cur,
                       channel_serial>>
        /\ \A k \in 1 .. Len(published) : published'[k] = published[k]
    <3>1. UNCHANGED <<delta_bufs, delta_buf_idx, delta_enabled, live_from, state, pc, work, cur,
                      channel_serial>>
      BY <1>2 DEF Publish, ServerAttach, ServerSend, Drop, Subscribe, Unsubscribe, vars,
                  deltaVars, gapVars
    <3>2. \/ Publish \/ Subscribe \/ Unsubscribe \/ UNCHANGED vars
          => \A k \in 1 .. Len(published) : published'[k] = published[k]
      BY ApartStep DEF Apart
    <3>3. ServerAttach \/ ServerSend \/ Drop => published' = published
      BY DEF ServerAttach, ServerSend, Drop
    <3>4. QED
      BY <1>2, <3>1, <3>2, <3>3
  <2>2. BaseOf' = BaseOf /\ Done' = Done /\ Live' = Live
    BY <2>1 DEF BaseOf, Done, Live
  <2>3. QED
    BY <2>1, <2>2, BaseSame
<1>3. CASE RecvMessage
  <2>1. /\ state = "ATTACHED" /\ state' = state /\ pc = "idle"
        /\ work' = wire[1].msgs
        /\ MessageOK(wire[1], Reached, Fresh, Len(published), delta_enabled)
        /\ Reached \in Int /\ Len(work') \in Nat
        /\ channel_serial' - Len(work') = Reached
        /\ Reached >= live_from /\ live_from' = live_from
    BY <1>3, RecvMessagePlace
  <2>2. pc' = "frame" /\ UNCHANGED <<published, delta_bufs, delta_buf_idx, delta_enabled>>
    BY <1>3 DEF RecvMessage, srvVars, deltaVars
  <2>3. Live' /\ Done' = Reached /\ BaseOf' = Reached
    BY <2>1, <2>2 DEF Live, Done, BaseOf
  <2>4. BaseOf = channel_serial
    BY <2>1 DEF BaseOf, Live
  <2>5. live_from \in Nat
    BY PlaceTypes
  <2>6. \A k \in 1 .. Len(work') : work'[k].delta => delta_enabled /\ Reached + k - 1 > live_from
    <3> TAKE k \in 1 .. Len(work')
    <3> HAVE work'[k].delta
    <3>1. delta_enabled
      BY <2>1 DEF MessageOK
    <3>2. CASE k = 1
      <4>1. ~Fresh
        BY <2>1, <3>2 DEF MessageOK
      <4>2. Reached > live_from
        BY <1>0, <2>1, <2>5, <4>1 DEF Fresh, Reached
      <4>3. QED
        BY <2>1, <3>1, <3>2, <4>2
    <3>3. CASE k # 1
      BY <2>1, <2>5, <3>1, <3>3
    <3>4. QED
      BY <3>2, <3>3
  <2>7. Reached > live_from => Reached = channel_serial
    BY <1>0, <2>5 DEF Reached
  <2>8. AllText(BaseOf)' => AllText(Reached)
    BY <2>2, <2>3 DEF AllText
  <2>9. Active' = Active
    BY <2>2 DEF Active
  <2>10. delta_enabled /\ Reached > live_from /\ AllText(Reached) =>
           Active.of = Reached /\ Active.form = "clear"
    BY <2>1, <2>4, <2>7 DEF BaseInv
  <2> HIDE DEF Live, Done, BaseOf, Reached, Active
  <2>11. QED
    BY <2>1, <2>2, <2>3, <2>6, <2>8, <2>9, <2>10 DEF BaseInv
<1>4. CASE RecvAttached
  <2>1. pc = "idle" /\ channel_serial' <= live_from' /\ channel_serial' \in Int /\ live_from' \in Nat
    BY <1>4, RecvAttachedPlace
  <2>2. pc' \in {"idle", "fetch"}
    BY <1>4, <2>1 DEF RecvAttached, Attach
  <2>3. ~Live' /\ BaseOf' = channel_serial'
    BY <2>2 DEF Live, BaseOf
  <2>4. QED
    BY <2>1, <2>3 DEF BaseInv
<1>5. CASE FrameDone \/ RecoverGap \/ RecoverFails
  <2>1. FrameDone => /\ pc = "frame" /\ work = <<>> /\ pc' = "idle"
                     /\ UNCHANGED <<published, delta_bufs, delta_buf_idx, delta_enabled, live_from,
                                    state, channel_serial>>
    BY DEF FrameDone, srvVars, deltaVars, gapVars
  <2>2. RecoverGap \/ RecoverFails =>
          /\ pc = "fetch" /\ pc' \in {"idle", "page"}
          /\ UNCHANGED <<published, delta_bufs, delta_buf_idx, delta_enabled, live_from,
                         state, channel_serial>>
    BY RecoveryCases DEF srvVars, deltaVars, gapVars, GiveUp, GotPage
  <2>3. ~Live' /\ BaseOf' = channel_serial
    BY <1>5, <2>1, <2>2 DEF Live, BaseOf
  <2>4. BaseOf = channel_serial
    <3>1. FrameDone => Done = channel_serial
      BY <1>0, <2>1, PlaceTypes DEF Done
    <3>2. QED
      BY <1>5, <2>1, <2>2, <3>1 DEF BaseOf, Live
  <2>5. QED
    BY <1>5, <2>1, <2>2, <2>3, <2>4, BaseSame
<1>6. CASE DeliverHistory
  <2>1. /\ pc = "page" /\ pc' # "frame" /\ (pc' = "callback" => ~cur'.live)
        /\ UNCHANGED <<published, delta_bufs, delta_buf_idx, delta_enabled, live_from,
                       state, channel_serial>>
    <3>1. /\ pc = "page"
          /\ UNCHANGED <<published, delta_bufs, delta_buf_idx, delta_enabled, live_from,
                         state, channel_serial>>
      BY <1>6 DEF DeliverHistory, srvVars, deltaVars, gapVars
    <3>2. work = <<>> => pc' = "fetch"
      BY <1>6 DEF DeliverHistory
    <3>3. work # <<>> => pc' = "page" \/ (pc' = "callback" /\ ~cur'.live)
      <4> HAVE work # <<>>
      <4>1. Head(work).msg \in Msg /\ Handles(1, Head(work).msg, FALSE)
        BY <1>6, HandlesHistory
      <4>2. 1 \in 1 .. Slots + 1
        BY Bounds
      <4>3. QED
        BY <4>1, <4>2, HandlesPlace DEF Rest
    <3>4. QED
      BY <3>1, <3>2, <3>3
  <2>2. ~Live /\ ~Live'
    BY <2>1 DEF Live
  <2>3. BaseOf' = BaseOf
    BY <2>1, <2>2 DEF BaseOf
  <2>4. QED
    BY <2>1, <2>2, <2>3, BaseSame
<1>7. CASE CallbackReturn
  <2>1. /\ pc = "callback" /\ work' = work
        /\ UNCHANGED <<published, delta_bufs, delta_buf_idx, delta_enabled, live_from,
                       state, channel_serial>>
    BY <1>7 DEF CallbackReturn, srvVars, deltaVars, gapVars
  <2>2. pc' = Rest(cur.live) \/ (pc' = "callback" /\ cur'.live = cur.live)
    <3>1. /\ cur.slot + 1 \in 1 .. Slots + 1 /\ cur.msg \in Msg /\ cur.live \in BOOLEAN
          /\ Handles(cur.slot + 1, cur.msg, cur.live)
      BY <1>7, HandlesReturn
    <3>2. QED
      BY <3>1, HandlesPlace
  <2>3. (Live' <=> Live) /\ Done' = Done
    BY <2>1, <2>2 DEF Live, Done, Rest
  <2>4. BaseOf' = BaseOf
    BY <2>1, <2>3 DEF BaseOf
  <2>5. QED
    BY <2>1, <2>3, <2>4, BaseSame
<1>8. CASE NextMessage
  BY <1>8, BaseNext
<1>9. QED
  BY <1>1, <1>2, <1>3, <1>4, <1>5, <1>6, <1>7, <1>8
  DEF Next, Service, Application, Environment

\* A garbled payload, when it is given to the first subscriber.
LEMMA GarbledData ==
  ASSUME TypeInv, PlaceInv, BaseInv, GarbledInv, NEW first \in 1 .. Slots + 1, NEW m \in Msg,
         NEW live \in BOOLEAN, Takes(first, m, live), NEW data, DataFrom(m, data),
         data.form = "garbled"
  PROVE  ~AllText(m - 1)
<1>1. CASE pc = "callback" /\ data = cur.data
  <2>1. m = cur.msg
    BY <1>1 DEF Takes, Rest
  <2>2. QED
    BY <1>1, <2>1 DEF GarbledInv
<1>2. CASE pc = "frame" /\ BaseStep(m, data)
  <2>1. work # <<>> /\ m = Head(work).msg
    BY <1>2 DEF Takes, Rest
  <2>2. data \notin {Raw(m), Clear(m)}
    BY DEF Raw, Clear
  <2>3. Head(work).delta /\ data \in Decoded(m, Active) \ {NoPayload}
    BY <1>2, <2>2 DEF BaseStep
  <2>4. ~(Active.of = m - 1 /\ Active.form = "clear")
    BY <2>3, DecodesText
  <2>5. QED
    BY <1>2, <2>1, <2>3, <2>4, BaseKnown
<1>3. CASE pc = "page" /\ data = Raw(m)
  BY <1>3 DEF Raw
<1>4. QED
  BY <1>1, <1>2, <1>3 DEF DataFrom

LEMMA GarbledSame ==
  ASSUME TypeInv, PlaceInv, GarbledInv,
         \A u \in Token : got'[u] = got[u] \/ got'[u] = <<>>,
         Len(published) <= Len(published'), Len(published') \in Nat,
         \A k \in 1 .. Len(published) : published'[k] = published[k],
         pc' = "callback" => pc = "callback" /\ cur' = cur
  PROVE  GarbledInv'
<1>0. Len(published) \in Nat
  BY PublishedType
<1>1. ASSUME NEW t \in Token, NEW k \in DOMAIN got'[t]
      PROVE  /\ k \in DOMAIN got[t] /\ got'[t][k] = got[t][k] /\ got[t][k].msg \in Nat
             /\ got[t][k].msg <= Len(published)
  <2>1. got'[t] # <<>>
    <3> SUFFICES ASSUME got'[t] = <<>> PROVE FALSE
      OBVIOUS
    <3>1. DOMAIN got'[t] = {}
      OBVIOUS
    <3>2. QED
      BY <1>1, <3>1
  <2>2. got'[t] = got[t]
    BY <2>1
  <2>3. got[t][k] \in Given
    BY <1>1, <2>2, SlotTypes
  <2>4. got[t][k].msg \in Nat
    BY <2>3 DEF Given, Msg
  <2>5. got[t][k].msg <= Len(published)
    BY <1>1, <2>2 DEF GarbledInv
  <2>6. QED
    BY <1>1, <2>2, <2>4, <2>5
<1>2. \A t \in Token : \A k \in DOMAIN got'[t] : got'[t][k].msg <= Len(published')
  BY <1>0, <1>1
<1>3. GarbledHasCause'
  <2> SUFFICES ASSUME NEW t \in Token, NEW k \in DOMAIN got'[t],
                      got'[t][k].data.form = "garbled"
               PROVE  \E m \in 1 .. got'[t][k].msg - 1 : published'[m] # "text"
    BY DEF GarbledHasCause
  <2>1. /\ k \in DOMAIN got[t] /\ got'[t][k] = got[t][k] /\ got[t][k].msg \in Nat
        /\ got[t][k].msg <= Len(published)
    BY <1>1
  <2>2. PICK m \in 1 .. got[t][k].msg - 1 : published[m] # "text"
    BY <2>1 DEF GarbledInv, GarbledHasCause
  <2>3. m \in 1 .. Len(published)
    BY <1>0, <2>1, <2>2
  <2>4. QED
    BY <2>1, <2>2, <2>3
<1>4. pc' = "callback" /\ cur'.data.form = "garbled" => ~AllText(cur.msg - 1)'
  <2> HAVE pc' = "callback" /\ cur'.data.form = "garbled"
  <2>1. pc = "callback" /\ cur' = cur /\ ~AllText(cur.msg - 1)
    BY DEF GarbledInv
  <2>2. cur.msg \in Nat /\ cur.msg <= Len(published)
    <3>1. cur.msg \in Msg
      BY <2>1 DEF TypeInv
    <3>2. Live \/ Hist
      BY <2>1 DEF Live, Hist
    <3>3. Done <= Len(published)
      BY PlaceTypes DEF PlaceInv, Done
    <3>4. cur.msg <= Len(published)
      BY <2>1, <3>2, <3>3 DEF PlaceInv
    <3>5. QED
      BY <3>1, <3>4 DEF Msg
  <2>3. PICK k \in 1 .. cur.msg - 1 : published[k] # "text"
    BY <2>1 DEF AllText
  <2>4. k \in 1 .. Len(published)
    BY <1>0, <2>2, <2>3
  <2>5. published'[k] # "text" /\ k \in 1 .. cur'.msg - 1
    BY <2>1, <2>3, <2>4
  <2>6. QED
    BY <2>5 DEF AllText
<1>5. QED
  BY <1>2, <1>3, <1>4 DEF GarbledInv

LEMMA GarbledStep ==
  ASSUME TypeInv, PlaceInv, SlotInv, BaseInv, GarbledInv, [Next]_vars
  PROVE  GarbledInv'
<1>0. Len(published) \in Nat
  BY PublishedType
<1>1. CASE Quiet
  BY <1>1, GarbledSame DEF Quiet
<1>2. CASE Subscribe \/ Unsubscribe
  <2>1. UNCHANGED <<published, pc, cur>>
    BY <1>2, SubscribeCases, UnsubscribeCases DEF Untouched
  <2>2. \A u \in Token : got'[u] = got[u] \/ got'[u] = <<>>
    <3>1. Subscribe => got' = got
      BY DEF Subscribe
    <3>2. Unsubscribe => \A u \in Token : got'[u] = got[u] \/ got'[u] = <<>>
      BY UnsubscribeCases DEF LeavesSlot
    <3>3. QED
      BY <1>2, <3>1, <3>2
  <2>3. QED
    BY <1>0, <2>1, <2>2, GarbledSame
<1>3. CASE RecvMessage \/ RecvAttached \/ FrameDone \/ RecoverGap \/ RecoverFails \/ PageEmpty
  <2>1. RecvMessage \/ FrameDone \/ PageEmpty
          => UNCHANGED <<published, got>> /\ pc' # "callback"
    BY DEF RecvMessage, FrameDone, PageEmpty, srvVars
  <2>2. RecvAttached => UNCHANGED <<published, got>> /\ pc' # "callback"
    BY DEF RecvAttached, Attach, Arrived, srvVars
  <2>3. RecoverGap \/ RecoverFails => UNCHANGED <<published, got>> /\ pc' # "callback"
    BY RecoveryCases DEF srvVars, GiveUp, GotPage
  <2>4. UNCHANGED <<published, got>> /\ pc' # "callback"
    BY <1>3, <2>1, <2>2, <2>3
  <2>5. QED
    BY <1>0, <2>4, GarbledSame
<1>4. ASSUME NEW first \in 1 .. Slots + 1, NEW m \in Msg, NEW live \in BOOLEAN,
             Handles(first, m, live)
      PROVE  GarbledInv'
  <2>1. published' = published /\ Takes(first, m, live)
    BY <1>4 DEF Handles, srvVars
  <2>2. CASE Skips(m, live) \/ EndsAfter(first, m, live)
    <3>1. got' = got /\ pc' # "callback"
      BY <2>2 DEF Skips, EndsAfter, Rest
    <3>2. QED
      BY <1>0, <2>1, <3>1, GarbledSame
  <2>3. ASSUME NEW i \in 1 .. Slots, NEW data \in Payload, GivesTo(i, first, m, data, live),
               DataFrom(m, data)
        PROVE  GarbledInv'
    <3>1. PICK t : t = subscribers[i].token
      OBVIOUS
    <3>2. Adds(t, m, data, live)
      BY <2>3, <3>1, GivenOne
    <3>3. PICK n : n = Len(got[t])
      OBVIOUS
    <3>4. /\ t \in Token /\ \A u \in Token : u # t => got'[u] = got[u]
          /\ DOMAIN got'[t] = 1 .. n + 1
          /\ \A k \in 1 .. n : got'[t][k] = got[t][k]
          /\ got'[t][n + 1].msg = m /\ got'[t][n + 1].data = data
      BY <3>2, <3>3 DEF Adds
    <3>5. n \in Nat /\ DOMAIN got[t] = 1 .. n
      BY <3>3, <3>4, SlotTypes
    <3>6. cur'.msg = m /\ cur'.data = data
      BY <2>3, GivenTypes
    <3>7. data.form = "garbled" => ~AllText(m - 1)
      BY <2>1, <2>3, GarbledData
    <3>8. m <= Len(published)
      <4>1. TakenLive(m) \/ TakenHist(m)
        BY <2>1, TakesPlace
      <4>2. QED
        BY <4>1 DEF TakenLive, TakenHist
    <3>9. ASSUME NEW u \in Token, NEW k \in DOMAIN got'[u]
          PROVE  /\ got'[u][k].msg <= Len(published)
                 /\ got'[u][k].data.form = "garbled" =>
                      \E x \in 1 .. got'[u][k].msg - 1 : published[x] # "text"
      <4>1. CASE u = t /\ k = n + 1
        BY <3>4, <3>7, <3>8, <4>1 DEF AllText
      <4>2. CASE ~(u = t /\ k = n + 1)
        <5>1. k \in DOMAIN got[u] /\ got'[u][k] = got[u][k]
          BY <3>4, <3>5, <3>9, <4>2
        <5>2. QED
          BY <5>1 DEF GarbledInv, GarbledHasCause
      <4>3. QED
        BY <4>1, <4>2
    <3>10. GarbledHasCause'
      BY <2>1, <3>9 DEF GarbledHasCause
    <3>11. cur'.data.form = "garbled" => ~AllText(cur.msg - 1)'
      BY <2>1, <3>6, <3>7 DEF AllText
    <3>12. QED
      BY <2>1, <3>9, <3>10, <3>11 DEF GarbledInv
  <2>4. QED
    BY <1>4, <2>2, <2>3 DEF Handles
<1>5. QED
  BY <1>1, <1>2, <1>3, <1>4, StepCases

(* Part 10: what a subscriber has.                                         *)

JumpInv ==
  \A x \in jumped : /\ x <= channel_serial
                    /\ Live => x <= Done
                    /\ pc = "callback" => x < cur.msg

HasInv ==
  \A i \in 1 .. Slots : subscribers[i].token # 0 =>
    /\ HasTo(i, Front(i))
    /\ \A k \in DOMAIN got[subscribers[i].token] :
         HasTo(i, got[subscribers[i].token][k].msg)

LEMMA FillInvParts ==
  /\ FillInv <=> FirstTimeInOrder /\ HasInv /\ JumpInv
  /\ FillInv' <=> FirstTimeInOrder' /\ HasInv' /\ JumpInv'
BY DEF FillInv, HasInv, JumpInv

LEMMA FrontTypes ==
  ASSUME TypeInv, NEW i \in 1 .. Slots
  PROVE  Front(i) \in Int
<1>1. Reached \in Int /\ Goal \in Int /\ Done \in Int
  BY PlaceTypes
<1>2. work # <<>> => work[1].msg \in Int
  BY PlaceTypes
<1>3. pc = "callback" => cur.msg \in Int
  BY DEF TypeInv, Msg
<1>4. pc \in {"idle", "frame", "fetch", "page", "callback"}
  BY DEF TypeInv, TypeOK
<1>5. QED
  BY <1>1, <1>2, <1>3, <1>4 DEF Front

LEMMA FrontNext ==
  ASSUME TypeInv', NEW i \in 1 .. Slots
  PROVE  Front(i)' \in Int
<1>1. /\ channel_serial' \in Serials /\ cursor' \in Serials /\ live_from' \in 0 .. MaxMsg
      /\ work' \in Seq(WorkItem)
  BY DEF TypeInv, TypeOK
<1>2. /\ channel_serial' \in Int /\ cursor' \in Int /\ live_from' \in Int /\ Len(work') \in Nat
      /\ work' # <<>> => work'[1] \in WorkItem
  BY <1>1, Bounds DEF Serials, NoSerial
<1>3. Reached' \in Int /\ Goal' \in Int /\ Done' \in Int
  BY <1>2 DEF Reached, Goal, Done
<1>4. work' # <<>> => work'[1].msg \in Int
  BY <1>2 DEF WorkItem, Msg
<1>5. pc' = "callback" => cur'.msg \in Int
  BY DEF TypeInv, Msg
<1>6. pc' \in {"idle", "frame", "fetch", "page", "callback"}
  BY DEF TypeInv, TypeOK
<1>7. QED
  BY <1>3, <1>4, <1>5, <1>6 DEF Front

\* What was there up to m is still there, and a little more.
LEMMA HasNext ==
  ASSUME TypeInv, NEW i \in 1 .. Slots, NEW m \in Int, NEW n \in Int, HasTo(i, m),
         subscribers'[i] = subscribers[i],
         since'[subscribers[i].token] = since[subscribers[i].token],
         subscribers[i].token \in Token,
         Received(subscribers[i].token) \subseteq Received(subscribers[i].token)',
         holes \subseteq holes', jumped \subseteq jumped',
         \A x \in Nat : m < x /\ x <= n /\ Passes(subscribers[i].filter, x) =>
           x \in Received(subscribers[i].token)' \cup holes' \cup jumped'
  PROVE  HasTo(i, n)'
<1> DEFINE t == subscribers[i].token
<1>1. since[t] \in Nat
  BY SlotTypes, Bounds
<1>2. ASSUME NEW x \in since[t] + 1 .. n, Passes(subscribers[i].filter, x)
      PROVE  x \in Received(t)' \cup holes' \cup jumped'
  <2>1. x \in Nat /\ x <= n /\ x >= since[t] + 1
    BY <1>1
  <2>2. CASE x <= m
    <3>1. x \in since[t] + 1 .. m
      BY <1>1, <2>1, <2>2
    <3>2. x \in Received(t) \cup holes \cup jumped
      BY <1>2, <3>1 DEF HasTo
    <3>3. QED
      BY <3>2
  <2>3. CASE m < x
    BY <1>2, <2>1, <2>3
  <2>4. QED
    BY <2>1, <2>2, <2>3
<1>3. subscribers'[i].token = t /\ subscribers'[i].filter = subscribers[i].filter
  BY DEF t
<1> HIDE DEF t
<1>4. QED
  BY <1>2, <1>3 DEF HasTo, t, Received

\* A step that gives nobody anything: what comes before the new place is lost.
LEMMA FillMoves ==
  ASSUME TypeInv, TypeInv', FillInv, UNCHANGED <<subscribers, since, got>>,
         holes \subseteq holes', jumped \subseteq jumped', JumpInv',
         \A i \in 1 .. Slots, x \in Nat :
           Front(i) < x /\ x <= Front(i)' /\ Wants(i, x) => x \in holes' \cup jumped'
  PROVE  FillInv'
<1>0. FirstTimeInOrder /\ HasInv
  BY FillInvParts
<1>1. FirstTimeInOrder'
  BY <1>0 DEF FirstTimeInOrder
<1>2. HasInv'
  <2> SUFFICES ASSUME NEW i \in 1 .. Slots, subscribers[i].token # 0
               PROVE  /\ HasTo(i, Front(i))'
                      /\ \A k \in DOMAIN got[subscribers[i].token] :
                           HasTo(i, got[subscribers[i].token][k].msg)'
    BY DEF HasInv
  <2>1. subscribers[i].token \in Token
    BY SlotTypes
  <2>2. Received(subscribers[i].token) \subseteq Received(subscribers[i].token)'
    BY DEF Received
  <2>3. PICK n \in Int : n = Front(i)'
    BY FrontNext
  <2>4. PICK m \in Int : m = Front(i)
    BY FrontTypes
  <2>5. HasTo(i, m)
    BY <1>0, <2>4 DEF HasInv
  <2>6. \A x \in Nat : m < x /\ x <= n /\ Passes(subscribers[i].filter, x) => x \in holes' \cup jumped'
    BY <2>3, <2>4 DEF Wants
  <2>7. HasTo(i, n)'
    BY <2>1, <2>2, <2>5, <2>6, HasNext
  <2>8. HasTo(i, Front(i))'
    BY <2>3, <2>7 DEF HasTo
  <2>9. ASSUME NEW k \in DOMAIN got[subscribers[i].token]
        PROVE  HasTo(i, got[subscribers[i].token][k].msg)'
    <3>1. got[subscribers[i].token][k] \in Given
      BY <2>1, <2>9, SlotTypes
    <3>2. PICK g \in Int : g = got[subscribers[i].token][k].msg
      BY <3>1 DEF Given, Msg
    <3>3. HasTo(i, g)
      BY <1>0, <2>9, <3>2 DEF HasInv
    <3>4. HasTo(i, g)'
      BY <2>1, <2>2, <3>3, HasNext
    <3>5. g = got'[subscribers[i].token][k].msg
      BY <3>2
    <3>6. QED
      BY <3>4, <3>5 DEF HasTo
  <2>10. QED
    BY <2>8, <2>9
<1>3. QED
  BY <1>1, <1>2, FillInvParts

\* The subscriber of the slot i is given the message m.
LEMMA FillGives ==
  ASSUME TypeInv, TypeInv', SlotInv, FillInv, NEW i \in 1 .. Slots, NEW m \in Msg, NEW data,
         NEW live \in BOOLEAN, Adds(subscribers[i].token, m, data, live),
         UNCHANGED <<subscribers, since, holes, jumped>>, JumpInv', m \notin jumped,
         Passes(subscribers[i].filter, m), Front(i) = m - 1,
         \A j \in 1 .. Slots, x \in Nat :
           Front(j) < x /\ x <= Front(j)' /\ Wants(j, x) => j = i /\ x = m
  PROVE  FillInv'
<1> DEFINE t == subscribers[i].token
           n == Len(got[t])
<1>0. FirstTimeInOrder /\ HasInv
  BY FillInvParts
<1>1. /\ t \in Token /\ t # 0 /\ \A u \in Token : u # t => got'[u] = got[u]
      /\ DOMAIN got'[t] = 1 .. n + 1
      /\ \A k \in 1 .. n : got'[t][k] = got[t][k]
      /\ got'[t][n + 1] = [msg |-> m, data |-> data, live |-> live]
  BY DEF Adds
<1>2. n \in Nat /\ DOMAIN got[t] = 1 .. n /\ \A k \in 1 .. n : got[t][k] \in Given
  BY <1>1, SlotTypes
<1>3. got'[t][n + 1].msg = m /\ m \in Nat
  BY <1>1 DEF Msg
<1>4. \A k \in 1 .. n : got[t][k].msg \in Nat
  BY <1>2 DEF Given, Msg
<1>5. since[t] \in Nat
  BY <1>1, SlotTypes, Bounds
<1>6. \A u \in Token : Received(u) \subseteq Received(u)'
  <2> SUFFICES ASSUME NEW u \in Token, NEW k \in DOMAIN got[u]
               PROVE  k \in DOMAIN got'[u] /\ got'[u][k].msg = got[u][k].msg
    BY DEF Received
  <2>1. CASE u = t
    <3>1. k \in 1 .. n
      BY <1>2, <2>1
    <3> HIDE DEF n
    <3>2. k \in 1 .. n + 1
      BY <1>2, <3>1
    <3>3. QED
      BY <1>1, <2>1, <3>1, <3>2
  <2>2. CASE u # t
    BY <1>1, <2>2
  <2>3. QED
    BY <2>1, <2>2
<1>7. m \in Received(t)'
  <2>1. n + 1 \in DOMAIN got'[t]
    BY <1>1, <1>2
  <2>2. QED
    BY <1>3, <2>1 DEF Received
<1> HIDE DEF n
\* Whatever is of a later number was given with m before it, or without.
<1>8. \/ \E k \in 1 .. n : got[t][k].msg = m
      \/ \A k \in 1 .. n : got[t][k].msg < m
      \/ m \in holes \/ m <= since[t]
  <2> SUFFICES ASSUME NEW k \in 1 .. n, ~(got[t][k].msg < m), m \notin holes, ~(m <= since[t])
               PROVE  \E l \in 1 .. n : got[t][l].msg = m
    OBVIOUS
  <2>1. got[t][k].msg \in Nat /\ got[t][k].msg >= m
    BY <1>3, <1>4
  <2>2. HasTo(i, got[t][k].msg)
    BY <1>0, <1>1, <1>2 DEF HasInv
  <2>3. m \in since[t] + 1 .. got[t][k].msg
    BY <1>3, <1>5, <2>1
  <2>4. m \in Received(t)
    BY <2>2, <2>3 DEF HasTo
  <2>5. QED
    BY <1>2, <2>4 DEF Received
<1>9. FirstTimeInOrder'
  <2> SUFFICES ASSUME NEW u \in Token, NEW j \in DOMAIN got'[u]
               PROVE  \/ \E k \in 1 .. j - 1 : got'[u][k].msg = got'[u][j].msg
                      \/ \A k \in 1 .. j - 1 : got'[u][k].msg < got'[u][j].msg
                      \/ got'[u][j].msg \in holes \/ got'[u][j].msg <= since[u]
    BY DEF FirstTimeInOrder
  <2>1. CASE u # t
    BY <1>0, <1>1, <2>1 DEF FirstTimeInOrder
  <2>2. CASE u = t /\ j \in 1 .. n
    <3>1. j \in DOMAIN got[t] /\ got'[t][j] = got[t][j]
      BY <1>1, <1>2, <2>2
    <3>2. \A k \in 1 .. j - 1 : got'[t][k] = got[t][k]
      BY <1>1, <1>2, <2>2
    <3>3. \/ \E k \in 1 .. j - 1 : got[t][k].msg = got[t][j].msg
          \/ \A k \in 1 .. j - 1 : got[t][k].msg < got[t][j].msg
          \/ got[t][j].msg \in holes \/ got[t][j].msg <= since[t]
      BY <1>0, <1>1, <3>1 DEF FirstTimeInOrder
    <3>4. QED
      BY <2>2, <3>1, <3>2, <3>3
  <2>3. CASE u = t /\ j = n + 1
    <3>1. \A k \in 1 .. j - 1 : k \in 1 .. n /\ got'[t][k] = got[t][k]
      BY <1>1, <1>2, <2>3
    <3>2. 1 .. j - 1 = 1 .. n
      BY <1>2, <2>3
    <3>3. QED
      BY <1>3, <1>8, <2>3, <3>1, <3>2
  <2>4. QED
    BY <1>1, <1>2, <2>1, <2>2, <2>3
<1>10. HasInv'
  <2> SUFFICES ASSUME NEW s \in 1 .. Slots, subscribers[s].token # 0
               PROVE  /\ HasTo(s, Front(s))'
                      /\ \A k \in DOMAIN got'[subscribers[s].token] :
                           HasTo(s, got[subscribers[s].token][k].msg)'
    BY DEF HasInv
  <2>1. subscribers[s].token \in Token
    BY SlotTypes
  <2>2. Received(subscribers[s].token) \subseteq Received(subscribers[s].token)'
    BY <1>6, <2>1
  <2>3. PICK f \in Int : f = Front(s)'
    BY FrontNext
  <2>4. PICK e \in Int : e = Front(s)
    BY FrontTypes
  <2>5. HasTo(s, e)
    BY <1>0, <2>4 DEF HasInv
  <2>6. \A x \in Nat : e < x /\ x <= f /\ Passes(subscribers[s].filter, x) =>
          x \in Received(subscribers[s].token)' \cup holes' \cup jumped'
    <3> TAKE x \in Nat
    <3> HAVE e < x /\ x <= f /\ Passes(subscribers[s].filter, x)
    <3>1. s = i /\ x = m
      BY <2>3, <2>4 DEF Wants
    <3>2. QED
      BY <1>7, <3>1 DEF t
  <2>7. HasTo(s, f)'
    BY <2>1, <2>2, <2>5, <2>6, HasNext
  <2>8. HasTo(s, Front(s))'
    BY <2>3, <2>7 DEF HasTo
  <2>9. ASSUME NEW k \in DOMAIN got'[subscribers[s].token]
        PROVE  HasTo(s, got[subscribers[s].token][k].msg)'
    <3>1. PICK g : g = got'[subscribers[s].token][k].msg
      OBVIOUS
    <3>2. g \in Int /\ \E b \in Int : /\ HasTo(s, b)
                                      /\ b = g \/ (b = m - 1 /\ g = m /\ s = i)
      <4>1. CASE s = i /\ k = n + 1
        <5>1. g = m /\ e = m - 1
          BY <1>3, <2>4, <3>1, <4>1
        <5>2. QED
          BY <1>3, <2>5, <4>1, <5>1
      <4>2. CASE ~(s = i /\ k = n + 1)
        <5>1. k \in DOMAIN got[subscribers[s].token]
              /\ got'[subscribers[s].token][k] = got[subscribers[s].token][k]
          <6>1. CASE s = i
            BY <1>1, <1>2, <2>9, <4>2, <6>1
          <6>2. CASE s # i
            <7>1. subscribers[s].token # t
              BY <1>1, <6>2 DEF SlotInv
            <7>2. QED
              BY <1>1, <2>1, <2>9, <7>1
          <6>3. QED
            BY <6>1, <6>2
        <5>2. got[subscribers[s].token][k] \in Given
          BY <2>1, <5>1, SlotTypes
        <5>3. g = got[subscribers[s].token][k].msg /\ g \in Int
          BY <3>1, <5>1, <5>2 DEF Given, Msg
        <5>4. HasTo(s, g)
          BY <1>0, <5>1, <5>3 DEF HasInv
        <5>5. QED
          BY <5>3, <5>4
      <4>3. QED
        BY <4>1, <4>2
    <3>3. PICK b \in Int : HasTo(s, b) /\ (b = g \/ (b = m - 1 /\ g = m /\ s = i))
      BY <3>2
    <3>4. \A x \in Nat : b < x /\ x <= g /\ Passes(subscribers[s].filter, x) =>
            x \in Received(subscribers[s].token)' \cup holes' \cup jumped'
      <4> TAKE x \in Nat
      <4> HAVE b < x /\ x <= g /\ Passes(subscribers[s].filter, x)
      <4>1. s = i /\ x = m
        BY <1>3, <3>2, <3>3
      <4>2. QED
        BY <1>7, <4>1 DEF t
    <3>5. HasTo(s, g)'
      BY <2>1, <2>2, <3>2, <3>3, <3>4, HasNext
    <3>6. QED
      BY <3>1, <3>5 DEF HasTo
  <2>10. QED
    BY <2>8, <2>9
<1>11. QED
  BY <1>9, <1>10, FillInvParts

\* How far the slots are before and after a message m is looked at.
LEMMA FrontBefore ==
  ASSUME TypeInv, PlaceInv, NEW first \in 1 .. Slots + 1, NEW m \in Msg, NEW live \in BOOLEAN,
         Takes(first, m, live)
  PROVE  \A j \in 1 .. Slots :
           Front(j) = IF pc = "callback" /\ j < first THEN m ELSE m - 1
<1> TAKE j \in 1 .. Slots
<1>1. m \in Nat /\ j \in Int /\ Slots \in Nat
  BY Bounds DEF Msg
<1>2. /\ live => Live /\ TakenLive(m)
      /\ ~live => Hist /\ TakenHist(m)
  BY TakesPlace
<1>3. CASE pc = "callback" /\ first = cur.slot + 1 /\ m = cur.msg
  <2>1. cur.slot \in Int
    <3>1. cur.slot \in 0 .. Slots
      BY DEF TypeInv
    <3>2. QED
      BY <3>1, Bounds
  <2>2. j > cur.slot <=> ~(j < first)
    BY <1>1, <1>3, <2>1
  <2>3. QED
    BY <1>3, <2>2 DEF Front
<1>4. CASE pc = Rest(live) /\ work # <<>> /\ m = Head(work).msg
  <2>1. pc \in {"frame", "page"} /\ m = work[1].msg
    BY <1>4, PlaceTypes DEF Rest
  <2>2. CASE pc = "frame"
    <3>1. Done = m - 1
      BY <1>2, <2>2 DEF TakenLive, Hist
    <3>2. QED
      BY <2>2, <3>1 DEF Front
  <2>3. CASE pc = "page"
    BY <1>4, <2>1, <2>3 DEF Front
  <2>4. QED
    BY <2>1, <2>2, <2>3
<1>5. QED
  BY <1>3, <1>4 DEF Takes

LEMMA FrontAfter ==
  ASSUME TypeInv, PlaceInv, NEW first \in 1 .. Slots + 1, NEW m \in Msg, NEW live \in BOOLEAN,
         Takes(first, m, live), UNCHANGED <<channel_serial, live_from, cursor>>,
         \/ pc' = Rest(live)
         \/ pc' = "callback" /\ cur'.msg = m /\ cur'.slot \in 1 .. Slots
  PROVE  \A j \in 1 .. Slots :
           IF pc' = "callback" THEN Front(j)' = IF j > cur'.slot THEN m - 1 ELSE m
                               ELSE Front(j)' <= m
<1> TAKE j \in 1 .. Slots
<1>1. m \in Nat
  BY DEF Msg
<1>2. /\ live => Live /\ TakenLive(m)
      /\ ~live => Hist /\ TakenHist(m)
      /\ Len(work') \in Nat
  BY TakesPlace
<1>3. CASE pc' = "callback"
  BY <1>3 DEF Front, Rest
<1>4. CASE pc' = "frame" /\ live
  <2>1. Done' = m
    BY <1>2, <1>4 DEF TakenLive, Done
  <2>2. QED
    BY <1>1, <1>4, <2>1 DEF Front
<1>5. CASE pc' = "page" /\ ~live
  <2>1. IF work' = <<>> THEN m >= Goal ELSE work'[1].msg = m + 1
    BY <1>2, <1>5 DEF TakenHist
  <2>2. Goal' = Goal /\ Goal \in Int
    BY PlaceTypes DEF Goal
  <2>3. Front(j)' = IF work' = <<>> THEN Goal ELSE work'[1].msg - 1
    BY <1>5, <2>2 DEF Front
  <2>4. QED
    BY <1>1, <1>5, <2>1, <2>2, <2>3
<1>6. QED
  BY <1>3, <1>4, <1>5 DEF Rest

LEMMA FillHandles ==
  ASSUME TypeInv, TypeInv', PlaceInv, SlotInv, FillInv, NEW first \in 1 .. Slots + 1,
         NEW m \in Msg, NEW live \in BOOLEAN, Handles(first, m, live)
  PROVE  FillInv'
<1>0. m \in Nat /\ Slots \in Nat /\ jumped \subseteq Msg /\ Done \in Int /\ channel_serial \in Int
  <2>1. jumped \subseteq Msg
    BY DEF TypeInv, TypeOK
  <2>2. m \in Nat
    BY DEF Msg
  <2>3. QED
    BY <2>1, <2>2, PlaceTypes, Bounds
<1>1. /\ Takes(first, m, live)
      /\ UNCHANGED <<channel_serial, live_from, cursor, subscribers, since, jumped>>
  BY DEF Handles, gapVars, subVars
<1>2. /\ live => Live /\ TakenLive(m)
      /\ ~live => Hist /\ TakenHist(m)
  BY <1>1, TakesPlace
<1>3. \/ pc' = Rest(live)
      \/ pc' = "callback" /\ cur'.msg = m /\ cur'.live = live
  BY HandlesPlace
<1>4. \A j \in 1 .. Slots : Front(j) = IF pc = "callback" /\ j < first THEN m ELSE m - 1
  BY <1>1, FrontBefore
<1>5. JumpInv
  BY FillInvParts
<1>6. \A x \in jumped : x \in Nat /\ x < m
  <2> TAKE x \in jumped
  <2>1. x \in Nat
    BY <1>0 DEF Msg
  <2>2. CASE pc = "callback"
    BY <1>1, <1>5, <2>1, <2>2 DEF JumpInv, Takes, Rest
  <2>3. CASE pc # "callback" /\ live
    <3>1. Live /\ Done = m - 1
      BY <1>2, <2>3 DEF TakenLive
    <3>2. x <= Done
      BY <1>5, <3>1 DEF JumpInv
    <3>3. QED
      BY <1>0, <2>1, <3>1, <3>2
  <2>4. CASE ~live
    <3>1. channel_serial < m
      BY <1>2, <2>4 DEF TakenHist
    <3>2. x <= channel_serial
      BY <1>5 DEF JumpInv
    <3>3. QED
      BY <1>0, <2>1, <3>1, <3>2
  <2>5. QED
    BY <2>2, <2>3, <2>4
<1>7. JumpInv'
  <2>1. Live' => live /\ Done' = m
    <3> HAVE Live'
    <3>1. live
      BY <1>3 DEF Live, Rest
    <3>2. QED
      BY <1>1, <1>2, <3>1 DEF Done, TakenLive
  <2>2. pc' = "callback" => cur'.msg = m
    BY <1>3 DEF Rest
  <2>3. QED
    BY <1>0, <1>1, <1>5, <1>6, <2>1, <2>2 DEF JumpInv
<1>8. \A j \in 1 .. Slots : Front(j) \in Int /\ Front(j)' \in Int
  BY FrontTypes, FrontNext
<1>9. pc # "callback" => first = 1
  BY <1>1 DEF Takes
<1>10. CASE Skips(m, live) \/ (EndsAfter(first, m, live) /\ holes' = holes)
  <2>1. pc' = Rest(live) /\ pc' # "callback" /\ got' = got /\ holes \subseteq holes'
    BY <1>10 DEF Skips, EndsAfter, Rest
  <2>2. \A j \in 1 .. Slots : Front(j)' <= m
    BY <1>1, <2>1, FrontAfter
  <2>3. ASSUME NEW j \in 1 .. Slots, NEW x \in Nat, Front(j) < x, x <= Front(j)', Wants(j, x)
        PROVE  x \in holes' \cup jumped'
    <3>1. x = m /\ ~(pc = "callback" /\ j < first)
      BY <1>0, <1>4, <1>8, <2>2, <2>3
    <3>2. j \in first .. Slots
      BY <1>0, <1>9, <3>1
    <3>3. ~EndsAfter(first, m, live)
      BY <2>3, <3>1, <3>2 DEF EndsAfter
    <3>4. QED
      BY <1>10, <3>1, <3>3 DEF Skips
  <2>4. QED
    BY <1>1, <1>7, <2>1, <2>3, FillMoves
<1>11. ASSUME NEW i \in 1 .. Slots, NEW data \in Payload, GivesTo(i, first, m, data, live),
              holes' = holes
       PROVE  FillInv'
  <2>1. pc' = "callback" /\ Wants(i, m) /\ \A j \in first .. i - 1 : ~Wants(j, m)
    BY <1>11 DEF GivesTo
  <2>2. i \in first .. Slots
    BY <1>11 DEF GivesTo
  <2>3. cur'.slot = i /\ cur'.msg = m
    BY <1>11, GivenTypes
  <2>4. \A j \in 1 .. Slots : Front(j)' = IF j > i THEN m - 1 ELSE m
    BY <1>1, <2>1, <2>3, FrontAfter
  <2>5. Adds(subscribers[i].token, m, data, live)
    BY <1>11, GivenOne
  <2>6. Front(i) = m - 1
    BY <1>0, <1>4, <2>2
  <2>7. m \notin jumped
    BY <1>0, <1>6
  <2>8. ASSUME NEW j \in 1 .. Slots, NEW x \in Nat, Front(j) < x, x <= Front(j)', Wants(j, x)
        PROVE  j = i /\ x = m
    <3>1. x = m /\ ~(pc = "callback" /\ j < first) /\ j <= i
      BY <1>0, <1>4, <1>8, <2>4, <2>8
    <3>2. j \in first .. Slots
      BY <1>0, <1>9, <3>1
    <3>3. j \notin first .. i - 1
      BY <2>1, <2>8, <3>1
    <3>4. j = i
      BY <1>0, <2>2, <3>1, <3>2, <3>3
    <3>5. QED
      BY <3>1, <3>4
  <2>9. Passes(subscribers[i].filter, m)
    BY <2>1 DEF Wants
  <2>10. QED
    BY <1>1, <1>7, <1>11, <2>5, <2>6, <2>7, <2>8, <2>9, FillGives
<1>12. QED
  BY <1>10, <1>11 DEF Handles

\* Nobody is further than what is published.
LEMMA FrontPublished ==
  ASSUME TypeInv, PlaceInv, NEW i \in 1 .. Slots
  PROVE  Front(i) <= Len(published)
<1>1. /\ channel_serial \in Int /\ live_from \in Nat /\ Goal \in Int /\ Len(work) \in Nat
      /\ Len(published) \in Nat /\ channel_serial <= Len(published)
      /\ live_from <= Len(published)
  BY PlaceTypes DEF PlaceInv
<1>2. Reached <= Len(published) /\ Done <= Len(published)
  BY <1>1 DEF Reached, Done
<1>3. pc = "fetch" \/ pc = "page" => Goal <= Len(published)
  BY DEF PlaceInv, Hist
<1>4. pc = "page" /\ work # <<>> => work[1].msg - 1 <= Len(published)
  <2> HAVE pc = "page" /\ work # <<>>
  <2>1. 1 \in 1 .. Len(work) /\ Hist /\ work[1].msg \in Nat
    BY PlaceTypes DEF Hist
  <2>2. work[1].msg <= Len(published)
    BY <2>1 DEF PlaceInv
  <2>3. QED
    BY <1>1, <2>1, <2>2
<1>5. pc = "callback" => cur.msg \in Nat /\ cur.msg <= Len(published)
  <2> HAVE pc = "callback"
  <2>1. cur.msg \in Nat
    BY DEF TypeInv, Msg
  <2>2. Live \/ Hist
    BY DEF Live, Hist
  <2>3. QED
    BY <1>2, <2>1, <2>2 DEF PlaceInv
<1>6. pc \in {"idle", "frame", "fetch", "page", "callback"}
  BY DEF TypeInv, TypeOK
<1>7. QED
  BY <1>1, <1>2, <1>3, <1>4, <1>5, <1>6 DEF Front

LEMMA FillSubscribes ==
  ASSUME TypeInv, TypeInv', PlaceInv, SlotInv, FillInv, Subscribe \/ Unsubscribe
  PROVE  FillInv'
<1>0. FirstTimeInOrder /\ HasInv /\ JumpInv
  BY FillInvParts
<1>1. /\ UNCHANGED <<channel_serial, live_from, cursor, pc, work, cur, holes, jumped>>
  BY SubscribeCases, UnsubscribeCases DEF Untouched, gapVars
<1>2. \A i \in 1 .. Slots : Front(i)' = Front(i)
  BY <1>1 DEF Front, Reached, Goal, Done
<1>3. JumpInv'
  BY <1>0, <1>1 DEF JumpInv, Live, Done
\* The slot i is the one that changes hands; t is the token it gains or loses.
<1>4. PICK i \in 1 .. Slots, t \in Token :
        /\ \A j \in 1 .. Slots : j # i =>
             subscribers'[j] = subscribers[j] /\ subscribers[j].token # t
        /\ \A u \in Token : u # t => got'[u] = got[u] /\ since'[u] = since[u]
        /\ got'[t] = <<>>
        /\ subscribers'[i].token = 0
             \/ (subscribers'[i].token = t /\ since'[t] = Len(published))
  <2>1. CASE Subscribe
    <3>1. PICK i \in 1 .. Slots : TakesSlot(i)
      BY <2>1, SubscribeCases
    <3>2. QED
      BY <3>1 DEF TakesSlot
  <2>2. CASE Unsubscribe
    <3>1. PICK i \in 1 .. Slots, t \in Token : LeavesSlot(i, t)
      BY <2>2, UnsubscribeCases
    <3>2. QED
      BY <3>1 DEF LeavesSlot
  <2>3. QED
    BY <2>1, <2>2
<1>5. DOMAIN got'[t] = {}
  BY <1>4
<1>6. FirstTimeInOrder'
  <2> SUFFICES ASSUME NEW u \in Token, NEW j \in DOMAIN got'[u]
               PROVE  \/ \E k \in 1 .. j - 1 : got'[u][k].msg = got'[u][j].msg
                      \/ \A k \in 1 .. j - 1 : got'[u][k].msg < got'[u][j].msg
                      \/ got'[u][j].msg \in holes' \/ got'[u][j].msg <= since'[u]
    BY DEF FirstTimeInOrder
  <2>1. u # t
    BY <1>5
  <2>2. got'[u] = got[u] /\ since'[u] = since[u]
    BY <1>4, <2>1
  <2>3. QED
    BY <1>0, <1>1, <2>2 DEF FirstTimeInOrder
<1>7. HasInv'
  <2> SUFFICES ASSUME NEW s \in 1 .. Slots, subscribers'[s].token # 0
               PROVE  /\ HasTo(s, Front(s))'
                      /\ \A k \in DOMAIN got'[subscribers'[s].token] :
                           HasTo(s, got[subscribers[s].token][k].msg)'
    BY DEF HasInv
  <2>1. PICK f \in Int : f = Front(s) /\ f = Front(s)'
    BY <1>2, FrontTypes
  <2>2. CASE s = i
    <3>1. subscribers'[s].token = t /\ since'[t] = Len(published)
      BY <1>4, <2>2
    <3>2. f <= Len(published) /\ Len(published) \in Nat
      BY <2>1, FrontPublished, PublishedType
    <3>3. \A x \in Len(published) + 1 .. f : FALSE
      BY <3>2
    <3>4. HasTo(s, f)'
      BY <3>1, <3>3 DEF HasTo
    <3>5. HasTo(s, Front(s))'
      BY <2>1, <3>4 DEF HasTo
    <3>6. QED
      BY <1>5, <3>1, <3>5
  <2>3. CASE s # i
    <3>1. subscribers'[s] = subscribers[s] /\ subscribers[s].token # t
      BY <1>4, <2>3
    <3>2. subscribers[s].token \in Token
      BY <3>1, SlotTypes
    <3>3. /\ got'[subscribers[s].token] = got[subscribers[s].token]
          /\ since'[subscribers[s].token] = since[subscribers[s].token]
      BY <1>4, <3>1, <3>2
    <3>4. Received(subscribers[s].token) \subseteq Received(subscribers[s].token)'
      BY <3>1, <3>3 DEF Received
    <3>5. ASSUME NEW m \in Int, HasTo(s, m)
          PROVE  HasTo(s, m)'
      BY <1>1, <3>1, <3>2, <3>3, <3>4, <3>5, HasNext
    <3>6. HasTo(s, f)'
      BY <1>0, <2>1, <3>1, <3>5 DEF HasInv
    <3>7. HasTo(s, Front(s))'
      BY <2>1, <3>6 DEF HasTo
    <3>8. ASSUME NEW k \in DOMAIN got'[subscribers'[s].token]
          PROVE  HasTo(s, got[subscribers[s].token][k].msg)'
      <4>1. k \in DOMAIN got[subscribers[s].token]
        BY <3>1, <3>3, <3>8
      <4>2. got[subscribers[s].token][k] \in Given
        BY <3>2, <4>1, SlotTypes
      <4>3. PICK g \in Int : g = got[subscribers[s].token][k].msg
        BY <4>2 DEF Given, Msg
      <4>4. HasTo(s, g)
        BY <1>0, <3>1, <4>1, <4>3 DEF HasInv
      <4>5. HasTo(s, g)'
        BY <3>5, <4>4
      <4>6. g = got'[subscribers'[s].token][k].msg
        BY <3>1, <3>3, <4>3
      <4>7. QED
        BY <4>5, <4>6 DEF HasTo
    <3>9. QED
      BY <3>7, <3>8
  <2>4. QED
    BY <2>2, <2>3
<1>8. QED
  BY <1>3, <1>6, <1>7, FillInvParts

LEMMA FillStep ==
  ASSUME TypeInv, TypeInv', PlaceInv, SlotInv, WireInv, FillInv, [Next]_vars
  PROVE  FillInv'
<1>0. /\ FirstTimeInOrder /\ HasInv /\ JumpInv
      /\ channel_serial \in Int /\ live_from \in Nat /\ Reached \in Int /\ Done \in Int
      /\ Goal \in Int /\ Len(work) \in Nat /\ Len(published) \in Nat
  BY FillInvParts, PlaceTypes
<1>1. \A i \in 1 .. Slots : Front(i) \in Int /\ Front(i)' \in Int
  BY FrontTypes, FrontNext
<1>2. \A x \in jumped : x \in Nat
  <2>1. jumped \subseteq Msg
    BY DEF TypeInv, TypeOK
  <2>2. QED
    BY <2>1 DEF Msg
<1>3. CASE Quiet
  <2>1. UNCHANGED <<channel_serial, live_from, cursor, pc, work, cur, subscribers, since, got,
                    holes, jumped>>
    BY <1>3 DEF Quiet, subVars, gapVars, lostVars
  <2>2. \A i \in 1 .. Slots : Front(i)' = Front(i)
    BY <2>1 DEF Front, Reached, Goal, Done
  <2>3. JumpInv'
    BY <1>0, <2>1 DEF JumpInv, Live, Done
  <2>4. \A i \in 1 .. Slots, x \in Nat : ~(Front(i) < x /\ x <= Front(i)')
    BY <1>1, <2>2
  <2>5. QED
    BY <2>1, <2>3, <2>4, FillMoves
<1>4. CASE RecvMessage
  <2>1. /\ pc = "idle" /\ Reached >= live_from /\ channel_serial' > Reached
        /\ channel_serial' - Len(work') = Reached /\ channel_serial' \in Nat
    BY <1>4, RecvMessagePlace
  <2>2. pc' = "frame" /\ UNCHANGED <<subscribers, since, got, holes, jumped>>
    BY <1>4 DEF RecvMessage, subVars, lostVars
  <2>3. \A i \in 1 .. Slots : Front(i) = Reached /\ Front(i)' = Reached
    BY <2>1, <2>2 DEF Front, Done
  <2>4. channel_serial <= Reached
    BY <1>0 DEF Reached
  <2>5. Done' = Reached
    BY <2>1 DEF Done
  <2>6. JumpInv'
    BY <1>0, <1>2, <2>1, <2>2, <2>4, <2>5 DEF JumpInv
  <2>7. \A i \in 1 .. Slots, x \in Nat : ~(Front(i) < x /\ x <= Front(i)')
    BY <1>0, <2>3
  <2>8. QED
    BY <2>2, <2>6, <2>7, FillMoves
<1>5. CASE RecvAttached
  <2>1. /\ pc = "idle" /\ AttachedOK(wire[1], channel_serial, Len(published))
        /\ Attach(wire[1], ~wire[1].resumed \/ wire[1].backlog)
        /\ wire[1].from \in Nat /\ wire[1].serial \in Serials /\ live_from' = wire[1].from
        /\ channel_serial' \in Int
        /\ channel_serial' = IF wire[1].serial = NoSerial THEN channel_serial ELSE wire[1].from
        /\ channel_serial <= channel_serial' /\ channel_serial' <= live_from'
        /\ Reached' = live_from'
    BY <1>5, RecvAttachedPlace
  <2>2. UNCHANGED <<subscribers, since, got>>
    BY <1>5 DEF RecvAttached, subVars
  <2>3. \/ pc' = "idle" /\ ~((~wire[1].resumed \/ wire[1].backlog) /\ channel_serial' # NoSerial)
        \/ pc' = "fetch" /\ cursor' = channel_serial' /\ channel_serial' # NoSerial
    BY <2>1 DEF Attach
  <2>4. \/ channel_serial = NoSerial /\ holes' = holes \cup 1 .. live_from' /\ jumped' = jumped
        \/ /\ channel_serial # NoSerial /\ holes' = holes
           /\ jumped' = jumped \cup channel_serial + 1 .. wire[1].serial
    BY <2>1 DEF Attach
  <2>5. \A i \in 1 .. Slots : Front(i) = Reached /\ channel_serial <= Reached
    BY <1>0, <2>1 DEF Front, Reached
  <2>6. \A i \in 1 .. Slots : Front(i)' = IF pc' = "idle" THEN live_from' ELSE channel_serial'
    BY <2>1, <2>3 DEF Front, Goal
  <2>7. wire[1].serial = NoSerial \/ wire[1].serial = channel_serial'
    BY <2>1 DEF AttachedOK
  <2>8. JumpInv'
    <3>1. ~Live' /\ pc' # "callback"
      BY <2>3 DEF Live
    <3>2. \A x \in jumped' : x <= channel_serial'
      <4> TAKE x \in jumped'
      <4>1. CASE x \in jumped
        BY <1>0, <1>2, <2>1, <4>1 DEF JumpInv
      <4>2. CASE x \in channel_serial + 1 .. wire[1].serial /\ channel_serial # NoSerial
        <5>1. wire[1].serial # NoSerial
          BY <1>0, <4>2, PlaceTypes DEF NoSerial
        <5>2. QED
          BY <2>7, <4>2, <5>1
      <4>3. QED
        BY <2>4, <4>1, <4>2
    <3>3. QED
      BY <3>1, <3>2 DEF JumpInv
  <2>9. ASSUME NEW i \in 1 .. Slots, NEW x \in Nat, Front(i) < x, x <= Front(i)'
        PROVE  x \in holes' \cup jumped'
    <3>1. channel_serial < x /\ x <= live_from'
      BY <1>0, <2>1, <2>5, <2>6, <2>9
    <3>2. CASE channel_serial = NoSerial
      <4>1. Reached >= 0
        BY <1>0 DEF Reached
      <4>2. x >= 1
        BY <1>0, <2>5, <2>9, <4>1
      <4>3. QED
        BY <2>1, <2>4, <3>1, <3>2, <4>2
    <3>3. CASE channel_serial # NoSerial
      <4>1. channel_serial' # NoSerial
        BY <1>0, <2>1, <3>3, PlaceTypes DEF NoSerial
      <4>2. CASE pc' = "idle"
        <5>1. wire[1].resumed /\ ~wire[1].backlog
          BY <2>3, <4>1, <4>2
        <5>2. wire[1].from = channel_serial
          BY <2>1, <5>1 DEF AttachedOK
        <5>3. QED
          BY <1>0, <2>1, <3>1, <5>2
      <4>3. CASE pc' # "idle"
        <5>1. x <= channel_serial'
          BY <2>6, <2>9, <4>3
        <5>2. wire[1].serial # NoSerial
          BY <1>0, <2>1, <3>1, <5>1
        <5>3. x \in channel_serial + 1 .. wire[1].serial
          BY <1>0, <2>1, <2>7, <3>1, <5>1, <5>2
        <5>4. QED
          BY <2>4, <3>3, <5>3
      <4>4. QED
        BY <4>2, <4>3
    <3>4. QED
      BY <3>2, <3>3
  <2>10. holes \subseteq holes' /\ jumped \subseteq jumped'
    BY <2>4
  <2>11. QED
    BY <2>2, <2>8, <2>9, <2>10, FillMoves
<1>6. CASE FrameDone
  <2>1. /\ pc = "frame" /\ work = <<>> /\ pc' = "idle"
        /\ UNCHANGED <<subscribers, since, got, holes, jumped, channel_serial, live_from>>
    BY <1>6 DEF FrameDone, subVars, lostVars, gapVars
  <2>2. Done = channel_serial /\ live_from <= Done
    <3>1. Live
      BY <2>1 DEF Live
    <3>2. QED
      BY <1>0, <2>1, <3>1, PlaceTypes DEF Done, PlaceInv
  <2>3. Reached' = channel_serial
    BY <1>0, <2>1, <2>2 DEF Reached
  <2>4. \A i \in 1 .. Slots : Front(i) = channel_serial /\ Front(i)' = channel_serial
    BY <2>1, <2>2, <2>3 DEF Front
  <2>5. JumpInv'
    BY <1>0, <2>1 DEF JumpInv, Live
  <2>6. \A i \in 1 .. Slots, x \in Nat : ~(Front(i) < x /\ x <= Front(i)')
    BY <1>0, <2>4
  <2>7. QED
    BY <2>1, <2>5, <2>6, FillMoves
<1>7. CASE PageEmpty
  <2>1. /\ pc = "page" /\ work = <<>> /\ pc' = "fetch"
        /\ UNCHANGED <<subscribers, since, got, holes, jumped, channel_serial, live_from, cursor>>
    BY <1>7 DEF PageEmpty, subVars, lostVars, gapVars
  <2>2. \A i \in 1 .. Slots : Front(i) = Goal /\ Front(i)' = Goal
    BY <2>1 DEF Front, Goal
  <2>3. JumpInv'
    BY <1>0, <2>1 DEF JumpInv, Live
  <2>4. \A i \in 1 .. Slots, x \in Nat : ~(Front(i) < x /\ x <= Front(i)')
    BY <1>0, <2>2
  <2>5. QED
    BY <2>1, <2>3, <2>4, FillMoves
<1>8. CASE RecoverGap \/ RecoverFails
  <2>1. /\ pc = "fetch" /\ UNCHANGED <<subscribers, since, got, channel_serial>>
        /\ GiveUp \/ (cursor # NoSerial /\ GotPage)
    BY <1>8, RecoveryCases DEF subVars
  <2>2. \A i \in 1 .. Slots : Front(i) = Goal
    BY <2>1 DEF Front
  <2>3. channel_serial <= live_from
    BY <2>1 DEF PlaceInv
  <2>4. CASE GiveUp
    <3>1. /\ pc' = "idle" /\ UNCHANGED <<live_from, cursor, jumped>>
          /\ holes' = holes \cup IF cursor = NoSerial THEN {} ELSE cursor + 1 .. live_from
      BY <2>4 DEF GiveUp, gapVars
    <3>2. Reached' = live_from
      BY <1>0, <2>1, <2>3, <3>1 DEF Reached
    <3>3. \A i \in 1 .. Slots : Front(i)' = live_from
      BY <3>1, <3>2 DEF Front
    <3>4. JumpInv'
      BY <1>0, <2>1, <3>1 DEF JumpInv, Live
    <3>5. ASSUME NEW i \in 1 .. Slots, NEW x \in Nat, Front(i) < x, x <= Front(i)'
          PROVE  x \in holes'
      <4>1. Goal < x /\ x <= live_from
        BY <2>2, <3>3, <3>5
      <4>2. cursor # NoSerial /\ Goal = cursor
        BY <1>0, <4>1 DEF Goal
      <4>3. x \in cursor + 1 .. live_from
        BY <1>0, <4>1, <4>2
      <4>4. QED
        BY <3>1, <4>2, <4>3
    <3>6. QED
      BY <2>1, <3>1, <3>4, <3>5, FillMoves
  <2>5. CASE cursor # NoSerial /\ GotPage
    <3>1. /\ pc' = "page" /\ live_from' = live_from /\ lostVars' = lostVars
          /\ cursor \in Nat /\ Goal = cursor /\ Len(work') \in Nat
          /\ \A k \in 1 .. Len(work') : work'[k].msg = cursor + k /\ cursor + k <= Len(published)
          /\ (work' = <<>> <=> Len(work') = 0)
          /\ cursor' \in {NoSerial, channel_serial, cursor + Len(work')}
          /\ cursor' = NoSerial => cursor + Len(work') >= live_from
      BY <2>1, <2>5, PagePlace
    <3>2. channel_serial <= cursor
      BY <2>1, <3>1 DEF PlaceInv
    <3>3. \A i \in 1 .. Slots : Front(i)' <= cursor
      <4> TAKE i \in 1 .. Slots
      <4>1. CASE work' # <<>>
        <5>1. 1 \in 1 .. Len(work')
          BY <3>1, <4>1
        <5>2. work'[1].msg = cursor + 1
          BY <3>1, <5>1
        <5>3. QED
          BY <3>1, <4>1, <5>2 DEF Front
      <4>2. CASE work' = <<>>
        <5>1. Front(i)' = Goal'
          BY <3>1, <4>2 DEF Front
        <5>2. Goal' = IF cursor' = NoSerial THEN live_from ELSE cursor'
          BY <3>1 DEF Goal
        <5>3. Goal' <= cursor
          BY <1>0, <3>1, <3>2, <4>2, <5>2
        <5>4. QED
          BY <5>1, <5>3
      <4>3. QED
        BY <4>1, <4>2
    <3>4. holes' = holes /\ jumped' = jumped
      BY <3>1 DEF lostVars
    <3>5. JumpInv'
      BY <1>0, <2>1, <3>1, <3>4 DEF JumpInv, Live
    <3>6. \A i \in 1 .. Slots, x \in Nat : ~(Front(i) < x /\ x <= Front(i)')
      BY <1>1, <2>2, <3>1, <3>3
    <3>7. QED
      BY <2>1, <3>4, <3>5, <3>6, FillMoves
  <2>6. QED
    BY <2>1, <2>4, <2>5
<1>9. QED
  BY <1>3, <1>4, <1>5, <1>6, <1>7, <1>8, FillHandles, FillSubscribes, StepCases


(* Part 11: the theorems.                                                  *)

IInv ==
  /\ TypeInv /\ SlotInv /\ PlaceInv /\ WireInv /\ ConnInv
  /\ LiveInv /\ DeltaInv /\ GarbledInv /\ FillInv

\* A channel that was just created: nobody is subscribed and nothing was sent.
LEMMA InitInv ==
  Init => IInv
<1> SUFFICES ASSUME Init PROVE IInv
  OBVIOUS
<1>0. /\ Slots \in Nat /\ MaxPages \in Nat /\ MaxMsg \in Nat /\ MaxSubs \in Nat
      /\ MaxFaults \in Nat /\ 0 \in 0 .. MaxMsg /\ 0 \in 0 .. Slots /\ 0 \in 0 .. MaxSubs
  BY Bounds
<1>1. /\ published = <<>> /\ wire = <<>> /\ work = <<>> /\ srvAtt = FALSE
      /\ state = "DETACHED" /\ pc = "idle" /\ channel_serial = -1 /\ live_from = 0
      /\ srvPos = 0 /\ cursor = -1 /\ pages = 0 /\ faults = 0 /\ conn = 0
      /\ holes = {} /\ jumped = {} /\ applied = {}
  BY DEF Init, NoSerial
<1>2. /\ \A i \in 1 .. Slots : subscribers[i].token = 0
      /\ \A t \in Token : got[t] = <<>> /\ since[t] = 0
      /\ \A b \in 0 .. 1 : delta_bufs[b] = NoPayload
  BY DEF Init, Free
<1>3. TypeInv
  <2>1. NoPayload \in Payload
    BY <1>0 DEF NoPayload, Payload
  <2>2. TypeOK
    <3>1. published \in Seq(AllBodies) /\ Len(published) <= MaxMsg
      BY <1>0, <1>1
    <3>2. /\ srvPos \in 0 .. MaxMsg /\ conn \in 0 .. MaxFaults + 1
          /\ channel_serial \in Serials /\ cursor \in Serials
          /\ pages \in 0 .. MaxPages /\ live_from \in 0 .. MaxMsg
          /\ faults \in 0 .. MaxFaults
      BY <1>0, <1>1 DEF Serials, NoSerial
    <3>3. delta_bufs \in [0 .. 1 -> Payload] /\ delta_buf_idx \in 0 .. 1
      BY <2>1 DEF Init
    <3>4. subscribers \in [1 .. Slots -> [token : Token \cup {0}, filter : {"", "a", "b"}]]
      BY DEF Init, Free
    <3>5. next_token \in 1 .. MaxSubs + 1
      BY <1>0 DEF Init
    <3>6. srvFresh \in BOOLEAN /\ delta_enabled \in BOOLEAN /\ srvAtt \in BOOLEAN
      BY DEF Init
    <3>7. QED
      BY <1>1, <3>1, <3>2, <3>3, <3>4, <3>5, <3>6 DEF TypeOK
  <2>3. cur \in [slot : 0 .. Slots, token : 0 .. MaxSubs, msg : 0 .. MaxMsg,
                 live : BOOLEAN, data : Payload]
    BY <1>0, <2>1 DEF Init, NoDispatch
  <2>4. since \in [Token -> 0 .. MaxMsg] /\ got \in [Token -> Seq(Given)]
    BY <1>0 DEF Init
  <2>5. wire \in Seq(Frames) /\ work \in Seq(WorkItem)
    BY <1>1
  <2>6. QED
    BY <1>1, <2>2, <2>3, <2>4, <2>5 DEF TypeInv
<1>4. SlotInv
  BY <1>0, <1>1, <1>2 DEF SlotInv, Init
<1>5. PlaceInv
  BY <1>1 DEF PlaceInv, Live, Hist
<1>6. WireInv
  BY <1>1 DEF WireInv
<1>7. ConnInv
  BY <1>1 DEF ConnInv
<1>8. LiveInv
  BY <1>2 DEF LiveInv, LiveInOrder
<1>9. DeltaInv
  BY <1>1, <1>2 DEF DeltaInv, NoStaleBase, Live
<1>10. GarbledInv
  BY <1>1, <1>2 DEF GarbledInv, GarbledHasCause
<1>11. FillInv
  BY <1>1, <1>2 DEF FillInv, FirstTimeInOrder
<1>12. QED
  BY <1>3, <1>4, <1>5, <1>6, <1>7, <1>8, <1>9, <1>10, <1>11 DEF IInv

LEMMA StepInv ==
  IInv /\ [Next]_vars => IInv'
<1> SUFFICES ASSUME IInv, [Next]_vars PROVE IInv'
  OBVIOUS
<1>1. TypeInv /\ SlotInv /\ PlaceInv /\ WireInv /\ ConnInv /\ LiveInv /\ GarbledInv
      /\ FillInv /\ StoreInv /\ BaseInv
  BY DeltaInvParts DEF IInv
<1>2. ConnInv' /\ conn' \in 0 .. MaxFaults + 1
  BY <1>1, ConnStep
<1>3. TypeInv'
  BY <1>1, <1>2, TypeStep
<1>4. WireInv'
  BY <1>1, WireStep
<1>5. SlotInv'
  BY <1>1, SlotStep
<1>6. PlaceInv'
  BY <1>1, PlaceStep
<1>7. LiveInv'
  BY <1>1, <1>3, LiveStep
<1>8. StoreInv' /\ BaseInv'
  BY <1>1, StoreStep, BaseInvStep
<1>9. DeltaInv'
  BY <1>8, DeltaInvParts
<1>10. GarbledInv'
  BY <1>1, GarbledStep
<1>11. FillInv'
  BY <1>1, <1>3, FillStep
<1>12. QED
  BY <1>2, <1>3, <1>4, <1>5, <1>6, <1>7, <1>9, <1>10, <1>11 DEF IInv

\* The positions of the server, of the frames on the wire, of the service thread
\* and of every subscriber in the channel fit together in every reachable state.
THEOREM Positions ==
  Spec => []IInv
BY InitInv, StepInv, PTL DEF Spec

\* The variables of a channel that receives keep to their types: no index, serial,
\* cursor or page count of the handlers leaves its range.
THEOREM TypeInvariant ==
  Spec => []TypeOK
<1>1. IInv => TypeOK
  BY DEF IInv, TypeInv
<1>2. QED
  BY <1>1, Positions, PTL

\* The service thread gives a subscriber the messages of the connection in the
\* order of the channel and each at most once, though the lock is released around
\* every callback, slots change hands, and connections are lost and resumed.
THEOREM LiveOrder ==
  Spec => []LiveInOrder
<1>1. IInv => LiveInOrder
  BY DEF IInv, LiveInv
<1>2. QED
  BY <1>1, Positions, PTL

\* What rt_recover_gap delivers comes before the messages of the new connection:
\* a message a subscriber is given for the first time is behind all it was given.
THEOREM RecoveredInOrder ==
  Spec => []FirstTimeInOrder
<1>1. IInv => FirstTimeInOrder
  BY DEF IInv, FillInv
<1>2. QED
  BY <1>1, Positions, PTL

\* The reset of the two delta buffers at the loss of the connection is enough: no
\* delta is ever decoded against a payload of an earlier connection.
THEOREM BaseIsOfThisConnection ==
  Spec => []NoStaleBase
<1>1. IInv => NoStaleBase
  BY DEF IInv, DeltaInv
<1>2. QED
  BY <1>1, Positions, PTL

\* The buffers alternate so that the active one holds the message before: on a
\* channel that carries text short enough to be kept no payload comes out garbled.
THEOREM GarbledExplained ==
  Spec => []GarbledHasCause
<1>1. IInv => GarbledHasCause
  BY DEF IInv, GarbledInv
<1>2. QED
  BY <1>1, Positions, PTL

\* When all the server sent is handled, what a subscriber wants and has not got
\* was lost to one of the five known causes: dispatch, resume and the recovery
\* of a gap leave out nothing else.
THEOREM MissedIsExplained ==
  Spec => []NothingElseMissed
<1>1. IInv => NothingElseMissed
  <2> SUFFICES ASSUME IInv, Settled, NEW t \in Token, NEW m \in Due(t)
               PROVE  m \in Received(t) \cup holes \cup jumped
    BY DEF NothingElseMissed
  <2>1. pc = "idle" /\ wire = <<>> /\ srvAtt
    BY DEF Settled
  <2>2. srvPos = Reached
    BY <2>1 DEF IInv, WireInv
  <2>3. m \in since[t] + 1 .. Reached
    BY <2>2 DEF Due
  <2>4. PICK i \in 1 .. Slots : subscribers[i].token = t /\ Passes(subscribers[i].filter, m)
    BY DEF Due
  <2>5. t # 0
    BY Bounds DEF Token
  <2>6. HasTo(i, Front(i))
    BY <2>4, <2>5 DEF IInv, FillInv
  <2>7. Front(i) = Reached
    BY <2>1 DEF Front
  <2>8. QED
    BY <2>3, <2>4, <2>6, <2>7 DEF HasTo
<1>2. QED
  BY <1>1, Positions, PTL
=============================================================================
