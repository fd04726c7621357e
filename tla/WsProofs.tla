------------------------------ MODULE WsProofs ------------------------------
(***************************************************************************)
(* Proofs about WsTransport for any number of connects, of frames and of   *)
(* rounds of a close.  The invariant is proved in four parts: the flags    *)
(* (Zenon reasons about Boolean variables), the other types, the socket    *)
(* with its contexts, and the frames.                                      *)
(***************************************************************************)
EXTENDS WsTransport, TLAPS

FlagsOK == connected \in BOOLEAN /\ close_sent \in BOOLEAN /\ close_received \in BOOLEAN

BackOK == back \in {"loop", "closing"}

\* While a connect is under way the transport is not connected and has one
\* socket that no upgrade stands for; at every other time it has none.
SocketOK ==
  /\ UpIsUsable
  /\ pc = "absent" => ~connected /\ sockets = {}
  /\ IF pc \in {"setup", "tls", "upgrade"}
     THEN ~connected /\ net \in sockets /\ sockets \subseteq up \cup {net}
     ELSE sockets \subseteq up
  /\ pc = "upgrade" => ssl = "established"

\* A close frame is out, or on its way, only while a close waits, or after it, and
\* no text is on its way then.  The thread stays where it writes until the write
\* is over.
ClosingOK ==
  /\ close_sent => pc \in {"closing", "ended", "gone"} \/ (pc = "recv" /\ back = "closing")
  /\ last_out = "close" => close_sent
  /\ writing # "none" => pc \in {"recv", "close", "closing"}
  /\ writing = "close" => close_sent
  /\ close_sent => writing # "text"

TypesOK ==
  /\ pc \in Points /\ BackOK
  /\ attempts \in 0 .. MaxConnects
  /\ net \in 0 .. attempts /\ sockets \subseteq 1 .. attempts /\ up \subseteq 1 .. attempts
  /\ ssl \in {"init", "setup", "established"}
  /\ keys \in 0 .. attempts /\ wslay_ctx \in 0 .. attempts
  /\ rounds \in 0 .. CloseRounds
  /\ produced \in 0 .. MaxFrames /\ lost \in 0 .. MaxFrames
  /\ writing \in {"none", "text", "close"} /\ last_out \in {"none", "text", "close"}
  /\ pc \in {"setup", "tls", "upgrade"} => net \in 1 .. attempts

\* The frames the peer sent on the connection are numbered through: those the
\* upgrade swallowed, those delivered, those not read yet; until a close frame is
\* read, after which no more is.
Numbered ==
  /\ produced = lost + Len(delivered) + Len(inq)
  /\ \A i \in 1 .. Len(inq) : inq[i].no = lost + Len(delivered) + i

FrameTypes ==
  /\ inq \in Seq([kind : {"message", "heartbeat", "close"}, no : Nat])
  /\ delivered \in Seq(Nat)
  /\ produced \in Nat /\ lost \in Nat
  /\ FramesInOrder

FramesOK ==
  /\ FrameTypes
  /\ ~close_received => Numbered
  /\ pc \in {"setup", "tls", "upgrade"} => delivered = <<>>

LEMMA FlagsStep == FlagsOK /\ [Next]_vars => FlagsOK'
<1> SUFFICES ASSUME FlagsOK, [Next]_vars PROVE FlagsOK'
  OBVIOUS
<1> USE DEF FlagsOK, flags, ably_ws_is_connected
<1>1. CASE ably_ws_client_create
  BY Zenon, <1>1 DEF ably_ws_client_create
<1>2. CASE ably_ws_client_destroy
  BY Zenon, <1>2 DEF ably_ws_client_destroy
<1>3. CASE Dial
  BY Zenon, <1>3 DEF Dial
<1>4. CASE TlsSetup
  BY Zenon, <1>4 DEF TlsSetup, fail_net
<1>5. CASE TlsHandshake
  BY Zenon, <1>5 DEF TlsHandshake, fail_ssl, fail_net
<1>6. CASE FinishConnect
  BY Zenon, <1>6 DEF FinishConnect, fail_ssl, fail_net, perform_websocket_upgrade_handshake, PeerHasKeys
<1>7. CASE LoopExit
  BY Zenon, <1>7 DEF LoopExit
<1>8. CASE LoopTurn
  BY Zenon, <1>8 DEF LoopTurn, ably_ws_send_text, wslay_send_callback
<1>9. CASE RecvReturn
  BY Zenon, <1>9 DEF RecvReturn
<1>10. CASE wslay_on_message_received
  BY Zenon, <1>10 DEF wslay_on_message_received, ably_ws_send_text, wslay_send_callback
<1>11. CASE CloseBegin
  BY Zenon, <1>11 DEF CloseBegin, ably_ws_send_text, wslay_send_callback
<1>12. CASE CloseWait
  BY Zenon, <1>12 DEF CloseWait
<1>13. CASE CloseEnd
  BY Zenon, <1>13 DEF CloseEnd
<1>14. CASE Watchdog
  BY Zenon, <1>14 DEF Watchdog
<1>15. CASE PeerSend
  BY Zenon, <1>15 DEF PeerSend
<1>16. CASE UNCHANGED vars
  BY Zenon, <1>16 DEF vars
<1>17. CASE WriteReturns
  BY Zenon, <1>17 DEF WriteReturns
<1>18. CASE CloseFrame
  BY Zenon, <1>18 DEF CloseFrame, wslay_send_callback
<1> QED
  BY <1>1, <1>2, <1>3, <1>4, <1>5, <1>6, <1>7, <1>8, <1>9, <1>10, <1>11,
     <1>12, <1>13, <1>14, <1>15, <1>16, <1>17, <1>18 DEF Next, Service, ably_ws_connect,
     ably_ws_recv_once, ably_ws_close

LEMMA SocketStep == FlagsOK /\ BackOK /\ SocketOK /\ [Next]_vars => SocketOK'
<1> SUFFICES ASSUME FlagsOK, BackOK, SocketOK, [Next]_vars PROVE SocketOK'
  OBVIOUS
<1> USE DEF FlagsOK, BackOK, SocketOK, UpIsUsable, flags, tls, ably_ws_is_connected
<1>1. CASE ably_ws_client_create
  BY <1>1 DEF ably_ws_client_create
<1>2. CASE ably_ws_client_destroy
  BY <1>2 DEF ably_ws_client_destroy
<1>3. CASE Dial
  BY <1>3 DEF Dial
<1>4. CASE TlsSetup
  BY <1>4 DEF TlsSetup, fail_net
<1>5. CASE TlsHandshake
  BY <1>5 DEF TlsHandshake, fail_ssl, fail_net
<1>6. CASE FinishConnect
  BY <1>6 DEF FinishConnect, fail_ssl, fail_net, perform_websocket_upgrade_handshake, PeerHasKeys
<1>7. CASE LoopExit
  BY <1>7 DEF LoopExit
<1>8. CASE LoopTurn
  BY <1>8 DEF LoopTurn, ably_ws_send_text, wslay_send_callback
<1>9. CASE RecvReturn
  <2>1. connected' => connected
    BY Zenon, <1>9 DEF RecvReturn
  <2>2. pc = "recv" /\ pc' = back /\ UNCHANGED <<net, sockets, tls, wslay_ctx, up>>
    BY <1>9 DEF RecvReturn
  <2> QED  BY <2>1, <2>2
<1>10. CASE wslay_on_message_received
  BY <1>10 DEF wslay_on_message_received, ably_ws_send_text, wslay_send_callback
<1>11. CASE CloseBegin
  BY <1>11 DEF CloseBegin, ably_ws_send_text, wslay_send_callback
<1>12. CASE CloseWait
  BY <1>12 DEF CloseWait
<1>13. CASE CloseEnd
  BY <1>13 DEF CloseEnd
<1>14. CASE Watchdog
  BY <1>14 DEF Watchdog
<1>15. CASE PeerSend
  BY <1>15 DEF PeerSend
<1>16. CASE UNCHANGED vars
  BY <1>16 DEF vars
<1>17. CASE WriteReturns
  BY <1>17 DEF WriteReturns
<1>18. CASE CloseFrame
  BY <1>18 DEF CloseFrame, wslay_send_callback
<1> QED
  BY <1>1, <1>2, <1>3, <1>4, <1>5, <1>6, <1>7, <1>8, <1>9, <1>10, <1>11,
     <1>12, <1>13, <1>14, <1>15, <1>16, <1>17, <1>18 DEF Next, Service, ably_ws_connect,
     ably_ws_recv_once, ably_ws_close

LEMMA ClosingStep == FlagsOK /\ ClosingOK /\ [Next]_vars => ClosingOK'
<1> SUFFICES ASSUME FlagsOK, ClosingOK, [Next]_vars PROVE ClosingOK'
  OBVIOUS
<1> USE DEF FlagsOK, ClosingOK, flags, output, ably_ws_is_connected
<1>1. CASE ably_ws_client_create
  BY <1>1 DEF ably_ws_client_create
<1>2. CASE ably_ws_client_destroy
  BY <1>2 DEF ably_ws_client_destroy
<1>3. CASE Dial
  BY <1>3 DEF Dial
<1>4. CASE TlsSetup
  BY <1>4 DEF TlsSetup, fail_net
<1>5. CASE TlsHandshake
  BY <1>5 DEF TlsHandshake, fail_ssl, fail_net
<1>6. CASE FinishConnect
  BY <1>6 DEF FinishConnect, fail_ssl, fail_net, perform_websocket_upgrade_handshake, PeerHasKeys
<1>7. CASE LoopExit
  BY <1>7 DEF LoopExit
<1>8. CASE LoopTurn
  BY <1>8 DEF LoopTurn, ably_ws_send_text, wslay_send_callback
<1>9. CASE RecvReturn
  BY <1>9 DEF RecvReturn
<1>10. CASE wslay_on_message_received
  BY <1>10 DEF wslay_on_message_received, ably_ws_send_text, wslay_send_callback
<1>11. CASE CloseBegin
  BY <1>11 DEF CloseBegin, ably_ws_send_text, wslay_send_callback
<1>12. CASE CloseWait
  BY <1>12 DEF CloseWait
<1>13. CASE CloseEnd
  BY <1>13 DEF CloseEnd
<1>14. CASE Watchdog
  BY <1>14 DEF Watchdog
<1>15. CASE PeerSend
  BY <1>15 DEF PeerSend
<1>16. CASE UNCHANGED vars
  BY <1>16 DEF vars
<1>17. CASE WriteReturns
  BY <1>17 DEF WriteReturns
<1>18. CASE CloseFrame
  BY <1>18 DEF CloseFrame, wslay_send_callback
<1> QED
  BY <1>1, <1>2, <1>3, <1>4, <1>5, <1>6, <1>7, <1>8, <1>9, <1>10, <1>11,
     <1>12, <1>13, <1>14, <1>15, <1>16, <1>17, <1>18 DEF Next, Service, ably_ws_connect,
     ably_ws_recv_once, ably_ws_close

\* The labels fail_ssl and fail_net leave net and the sockets well-typed.
LEMMA Failing ==
  ASSUME TypesOK, fail_net, UNCHANGED attempts
  PROVE  net' \in 0 .. attempts' /\ sockets' \subseteq 1 .. attempts' /\ pc' = "out"
<1>1. attempts \in Nat
  BY WsAssumption DEF TypesOK
<1> QED  BY <1>1 DEF TypesOK, fail_net

LEMMA TypesStep == TypesOK /\ [Next]_vars => TypesOK'
<1> SUFFICES ASSUME TypesOK, [Next]_vars PROVE TypesOK'
  OBVIOUS
<1> USE WsAssumption DEF TypesOK, BackOK, Points, peerVars, tls, output
<1>1. CASE ably_ws_client_create
  BY <1>1 DEF ably_ws_client_create
<1>2. CASE ably_ws_client_destroy
  BY <1>2 DEF ably_ws_client_destroy
<1>3. CASE Dial
  <2>1. attempts \in Nat /\ attempts' = attempts + 1 /\ attempts' \in 0 .. MaxConnects
    BY <1>3 DEF Dial
  <2>2. net' \in 0 .. attempts' /\ sockets' \subseteq 1 .. attempts'
    <3>1. net' \in {net, attempts'} /\ sockets' \subseteq sockets \cup {attempts'}
      BY <1>3, <2>1 DEF Dial
    <3> QED  BY <2>1, <3>1
  <2>3. pc' \in {"setup", "out"} /\ (pc' = "setup" => net' = attempts')
    BY <1>3, <2>1 DEF Dial
  <2>4. up' \subseteq 1 .. attempts' /\ wslay_ctx' \in 0 .. attempts' /\ keys' \in 0 .. attempts'
    BY <1>3, <2>1 DEF Dial
  <2>5. produced' = 0 /\ lost' = 0 /\ last_out' = "none" /\ UNCHANGED <<back, ssl, rounds, writing>>
    BY <1>3 DEF Dial
  <2> QED  BY <2>1, <2>2, <2>3, <2>4, <2>5
<1>4. CASE TlsSetup
  <2>1. CASE pc' = "tls" /\ UNCHANGED <<net, sockets, keys>>
    BY <1>4, <2>1 DEF TlsSetup
  <2>2. CASE fail_net /\ UNCHANGED tls
    BY <1>4, <2>2, Failing DEF TlsSetup
  <2> QED  BY <1>4, <2>1, <2>2 DEF TlsSetup
<1>5. CASE TlsHandshake
  <2>1. CASE ssl' = "established" /\ keys' = net /\ pc' = "upgrade" /\ UNCHANGED <<net, sockets>>
    BY <1>5, <2>1 DEF TlsHandshake
  <2>2. CASE fail_ssl
    BY <1>5, <2>2, Failing DEF TlsHandshake, fail_ssl
  <2>3. CASE pc' = "upgrade" /\ UNCHANGED <<net, sockets, tls>>
    BY <1>5, <2>3 DEF TlsHandshake
  <2> QED  BY <1>5, <2>1, <2>2, <2>3 DEF TlsHandshake
<1>6. CASE FinishConnect
  <2>1. CASE fail_ssl /\ wslay_ctx' \in {wslay_ctx, 0} /\ UNCHANGED <<connected, up, peerVars>>
    BY <1>6, <2>1, Failing DEF FinishConnect, fail_ssl
  <2>2. ASSUME NEW taken \in 0 .. 1, perform_websocket_upgrade_handshake(taken),
               wslay_ctx' = net, pc' = "loop", up' = up \cup {net},
               UNCHANGED <<net, sockets, tls>>
        PROVE  TypesOK'
    <3>1. produced' \in 0 .. MaxFrames /\ lost' \in 0 .. MaxFrames
      BY <2>2 DEF perform_websocket_upgrade_handshake
    <3>2. net \in 1 .. attempts /\ UNCHANGED <<back, rounds, attempts, output>>
      BY <1>6 DEF FinishConnect
    <3> QED  BY <2>2, <3>1, <3>2
  <2> QED  BY <1>6, <2>1, <2>2 DEF FinishConnect
<1>7. CASE LoopExit
  BY <1>7 DEF LoopExit
<1>8. CASE LoopTurn
  BY <1>8 DEF LoopTurn, ably_ws_send_text, wslay_send_callback
<1>9. CASE RecvReturn
  BY <1>9 DEF RecvReturn
<1>10. CASE wslay_on_message_received
  BY <1>10 DEF wslay_on_message_received, ably_ws_send_text, wslay_send_callback
<1>11. CASE CloseBegin
  BY <1>11 DEF CloseBegin, ably_ws_send_text, wslay_send_callback
<1>12. CASE CloseWait
  BY <1>12 DEF CloseWait
<1>13. CASE CloseEnd
  BY <1>13 DEF CloseEnd
<1>14. CASE Watchdog
  BY <1>14 DEF Watchdog
<1>15. CASE PeerSend
  BY <1>15 DEF PeerSend
<1>16. CASE UNCHANGED vars
  BY <1>16 DEF vars
<1>17. CASE WriteReturns
  BY <1>17 DEF WriteReturns
<1>18. CASE CloseFrame
  BY <1>18 DEF CloseFrame, wslay_send_callback
<1> QED
  BY <1>1, <1>2, <1>3, <1>4, <1>5, <1>6, <1>7, <1>8, <1>9, <1>10, <1>11,
     <1>12, <1>13, <1>14, <1>15, <1>16, <1>17, <1>18 DEF Next, Service, ably_ws_connect,
     ably_ws_recv_once, ably_ws_close

\* The three ways in which the frames of the peer change.
LEMMA StartOver ==
  ASSUME delivered' = <<>>, inq' = <<>>, lost' \in Nat, produced' = lost'
  PROVE  FrameTypes' /\ Numbered'
<1>1. Len(delivered') = 0 /\ Len(inq') = 0
  OBVIOUS
<1>2. FramesInOrder'
  BY <1>1 DEF FramesInOrder
<1>3. FrameTypes'
  BY <1>2 DEF FrameTypes
<1>4. produced' = lost' + Len(delivered') + Len(inq')
  <2>1. \A n \in Nat : n = n + 0 + 0
    OBVIOUS
  <2> QED  BY <1>1, <2>1
<1>5. \A i \in 1 .. Len(inq') : inq'[i].no = lost' + Len(delivered') + i
  BY <1>1
<1> QED  BY <1>3, <1>4, <1>5 DEF Numbered

LEMMA ReadOne ==
  ASSUME FrameTypes, Numbered, inq # <<>>, inq' = Tail(inq), UNCHANGED <<produced, lost>>,
         delivered' = Append(delivered, Head(inq).no)
  PROVE  FrameTypes' /\ Numbered'
<1>1. Len(inq) \in Nat \ {0} /\ Len(delivered) \in Nat /\ Head(inq) = inq[1]
      /\ Head(inq).no \in Nat
  <2> DEFINE F == [kind : {"message", "heartbeat", "close"}, no : Nat]
  <2>1. inq \in Seq(F) /\ Len(delivered) \in Nat
    BY DEF FrameTypes
  <2>2. \A f \in F : f.no \in Nat
    OBVIOUS
  <2> HIDE DEF F
  <2>3. Len(inq) \in Nat \ {0} /\ Head(inq) = inq[1] /\ inq[1] \in F
    BY <2>1
  <2> QED  BY <2>1, <2>2, <2>3
<1>2. Head(inq).no = lost + Len(delivered) + 1
  BY <1>1 DEF Numbered
<1>3. /\ delivered' \in Seq(Nat) /\ Len(delivered') = Len(delivered) + 1
      /\ delivered'[Len(delivered) + 1] = Head(inq).no
      /\ \A i \in 1 .. Len(delivered) : delivered'[i] = delivered[i]
  BY <1>1 DEF FrameTypes
<1>4. inq' \in Seq([kind : {"message", "heartbeat", "close"}, no : Nat])
      /\ Len(inq') = Len(inq) - 1 /\ \A i \in 1 .. Len(inq') : inq'[i] = inq[i + 1]
  BY <1>1 DEF FrameTypes
<1>5. FramesInOrder'
  <2>1. SUFFICES ASSUME NEW i \in 1 .. Len(delivered) + 1 PROVE delivered'[i] = lost + i
    BY <1>3 DEF FramesInOrder
  <2>2. CASE i \in 1 .. Len(delivered)
    BY <2>2, <1>3 DEF FrameTypes, FramesInOrder
  <2>3. CASE i = Len(delivered) + 1
    BY <2>3, <1>1, <1>2, <1>3 DEF FrameTypes
  <2> QED  BY <1>1, <2>1, <2>2, <2>3
<1>6. Numbered'
  BY <1>1, <1>3, <1>4 DEF FrameTypes, Numbered
<1> QED  BY <1>3, <1>4, <1>5, <1>6 DEF FrameTypes

LEMMA SendOne ==
  ASSUME FrameTypes, NEW kind \in {"message", "heartbeat", "close"},
         inq' = Append(inq, [kind |-> kind, no |-> produced + 1]),
         produced' = produced + 1, UNCHANGED <<lost, delivered>>
  PROVE  FrameTypes' /\ (Numbered => Numbered')
<1>1. produced + 1 \in Nat /\ Len(inq) \in Nat /\ Len(delivered) \in Nat
  BY DEF FrameTypes
<1>2. inq' \in Seq([kind : {"message", "heartbeat", "close"}, no : Nat])
      /\ Len(inq') = Len(inq) + 1
      /\ \A i \in 1 .. Len(inq) : inq'[i] = inq[i]
      /\ inq'[Len(inq) + 1].no = produced + 1
  BY <1>1 DEF FrameTypes
<1>3. FrameTypes'
  BY <1>1, <1>2 DEF FrameTypes, FramesInOrder
<1>4. ASSUME Numbered PROVE Numbered'
  <2>1. produced' = lost' + Len(delivered') + Len(inq')
    BY <1>1, <1>2, <1>4 DEF FrameTypes, Numbered
  <2>2. ASSUME NEW i \in 1 .. Len(inq') PROVE inq'[i].no = lost' + Len(delivered') + i
    <3>1. CASE i \in 1 .. Len(inq)
      BY <3>1, <1>2, <1>4 DEF Numbered
    <3>2. CASE i = Len(inq) + 1
      BY <3>2, <1>1, <1>2, <1>4 DEF FrameTypes, Numbered
    <3> QED  BY <1>1, <1>2, <2>2, <3>1, <3>2
  <2> QED  BY <2>1, <2>2 DEF Numbered
<1> QED  BY <1>3, <1>4

LEMMA FramesStep == BackOK /\ FlagsOK /\ FramesOK /\ [Next]_vars => FramesOK'
<1> SUFFICES ASSUME BackOK, FlagsOK, FlagsOK', FramesOK, [Next]_vars PROVE FramesOK'
  BY FlagsStep
<1> USE DEF FlagsOK, FramesOK, FrameTypes, FramesInOrder, Numbered, peerVars, flags
<1>1. CASE ably_ws_client_create
  BY <1>1 DEF ably_ws_client_create
<1>2. CASE ably_ws_client_destroy
  BY <1>2 DEF ably_ws_client_destroy
<1>3. CASE Dial
  BY <1>3 DEF Dial
<1>4. CASE TlsSetup
  BY <1>4 DEF TlsSetup, fail_net
<1>5. CASE TlsHandshake
  BY <1>5 DEF TlsHandshake, fail_ssl, fail_net
<1>6. CASE FinishConnect
  <2>1. CASE UNCHANGED peerVars /\ pc' = "out"
    BY <1>6, <2>1 DEF FinishConnect
  <2>2. ASSUME NEW taken \in 0 .. 1, perform_websocket_upgrade_handshake(taken), pc' = "loop"
        PROVE  FramesOK'
    <3>1. delivered' = <<>>
      BY <1>6 DEF FinishConnect
    <3>2. produced' = lost' /\ lost' \in Nat /\ inq' = <<>>
      BY <2>2 DEF perform_websocket_upgrade_handshake
    <3>3. FrameTypes' /\ Numbered'
      BY ONLY <3>1, <3>2, StartOver
    <3> QED  BY ONLY <2>2, <3>3 DEF FramesOK
  <2> QED  BY <1>6, <2>1, <2>2 DEF FinishConnect, fail_ssl, fail_net
<1>7. CASE LoopExit
  BY <1>7 DEF LoopExit
<1>8. CASE LoopTurn
  BY <1>8 DEF LoopTurn, ably_ws_send_text, wslay_send_callback
<1>9. CASE RecvReturn
  <2>1. pc' = back /\ UNCHANGED <<peerVars, delivered, close_received>>
    BY <1>9 DEF RecvReturn
  <2> QED  BY <2>1 DEF BackOK, flags
<1>10. CASE wslay_on_message_received
  <2>1. inq # <<>> /\ inq' = Tail(inq) /\ UNCHANGED <<produced, lost>> /\ pc = "recv" /\ pc' = pc
    BY <1>10 DEF wslay_on_message_received
  <2>2. CASE Head(inq).kind = "close"
    <3>1. delivered' = delivered /\ close_received'
      BY <1>10, <2>2 DEF wslay_on_message_received
    <3> QED  BY <2>1, <3>1
  <2>3. CASE Head(inq).kind # "close"
    <3>1. delivered' = Append(delivered, Head(inq).no) /\ ~close_received /\ ~close_received'
      BY <1>10, <2>3 DEF wslay_on_message_received
    <3>2. Numbered
      BY Zenon, <3>1 DEF FramesOK
    <3>3. FrameTypes' /\ Numbered'
      BY ONLY FramesOK, <2>1, <3>1, <3>2, ReadOne DEF FramesOK
    <3> QED  BY ONLY FramesOK, <2>1, <3>3 DEF FramesOK
  <2> QED  BY <2>2, <2>3
<1>11. CASE CloseBegin
  BY <1>11 DEF CloseBegin, ably_ws_send_text, wslay_send_callback
<1>12. CASE CloseWait
  BY <1>12 DEF CloseWait
<1>13. CASE CloseEnd
  BY <1>13 DEF CloseEnd
<1>14. CASE Watchdog
  BY <1>14 DEF Watchdog
<1>15. CASE PeerSend
  <2>1. PICK kind \in {"message", "heartbeat", "close"} :
          inq' = Append(inq, [kind |-> kind, no |-> produced + 1])
    BY <1>15 DEF PeerSend
  <2>2. produced' = produced + 1 /\ UNCHANGED <<pc, lost, delivered, close_received>>
    BY <1>15 DEF PeerSend
  <2>3. FrameTypes' /\ (Numbered => Numbered')
    BY ONLY FramesOK, <2>1, <2>2, SendOne DEF FramesOK
  <2> QED  BY ONLY FramesOK, FlagsOK, <2>2, <2>3 DEF FramesOK
<1>16. CASE UNCHANGED vars
  BY <1>16 DEF vars
<1>17. CASE WriteReturns
  BY <1>17 DEF WriteReturns
<1>18. CASE CloseFrame
  BY <1>18 DEF CloseFrame, wslay_send_callback
<1> QED
  BY <1>1, <1>2, <1>3, <1>4, <1>5, <1>6, <1>7, <1>8, <1>9, <1>10, <1>11,
     <1>12, <1>13, <1>14, <1>15, <1>16, <1>17, <1>18 DEF Next, Service, ably_ws_connect,
     ably_ws_recv_once, ably_ws_close

\* The invariant, and that it is one.
IInv == FlagsOK /\ TypesOK /\ SocketOK /\ ClosingOK /\ FramesOK

LEMMA InvInit == Init => IInv
<1> SUFFICES ASSUME Init PROVE IInv
  OBVIOUS
<1>1. FlagsOK
  BY DEF Init, FlagsOK
<1>2. TypesOK
  BY WsAssumption DEF Init, TypesOK, BackOK, Points
<1>3. SocketOK /\ ClosingOK
  BY DEF Init, SocketOK, UpIsUsable, ClosingOK
<1>4. FramesOK
  BY DEF Init, FramesOK, FrameTypes, FramesInOrder, Numbered
<1> QED  BY <1>1, <1>2, <1>3, <1>4 DEF IInv

THEOREM InvCorrect == Spec => []IInv
<1>1. IInv /\ [Next]_vars => IInv'
  <2>1. TypesOK => BackOK
    BY DEF TypesOK
  <2> QED
    BY <2>1, FlagsStep, TypesStep, SocketStep, ClosingStep, FramesStep DEF IInv
<1> QED  BY <1>1, InvInit, PTL DEF Spec

\* Every variable keeps its type, whatever fails when.
THEOREM TypeCorrect == Spec => []TypeOK
<1>1. IInv => TypeOK
  BY DEF IInv, FlagsOK, TypesOK, BackOK, TypeOK
<1> QED  BY <1>1, InvCorrect, PTL

\* No send or receive of a connected transport runs on a socket, a TLS context or a
\* framing context that was freed or belongs to another connection, although a
\* connect after a loss begins on the TLS context of the connection lost.
THEOREM ConnectedIsUsable == Spec => []UpIsUsable
<1>1. IInv => UpIsUsable
  BY DEF IInv, SocketOK
<1> QED  BY <1>1, InvCorrect, PTL

\* Each of the exits of ably_ws_connect closes the socket the connect made.
THEOREM NoSocketOfAFailedConnect == Spec => []FailedConnectLeavesNothing
<1>1. IInv => FailedConnectLeavesNothing
  BY DEF IInv, SocketOK, FailedConnectLeavesNothing
<1> QED  BY <1>1, InvCorrect, PTL

\* on_frame sees the frames in order and without a gap.
THEOREM DeliveryInOrder == Spec => []FramesInOrder
<1>1. IInv => FramesInOrder
  BY DEF IInv, FramesOK, FrameTypes
<1> QED  BY <1>1, InvCorrect, PTL

\* No text is written after a close frame, the echo of a heartbeat included.
THEOREM CloseIsLast == Spec => NoTextAfterClose
<1>1. IInv /\ IInv' /\ [Next]_vars
      => [last_out = "close" /\ attempts' = attempts => last_out' = "close"]_vars
  <2> SUFFICES ASSUME IInv, Next, last_out = "close", attempts' = attempts
               PROVE  last_out' = "close"
    OBVIOUS
  <2>1. close_sent = TRUE /\ attempts \in Nat
    BY WsAssumption DEF IInv, ClosingOK, FlagsOK, TypesOK
  <2>2. pc # "loop"
    BY <2>1 DEF IInv, ClosingOK
  <2>3. ~Dial
    BY <2>1 DEF Dial
  <2>4. CASE WriteReturns
    BY <2>1, <2>4 DEF WriteReturns, IInv, ClosingOK, TypesOK
  <2>5. CASE Next /\ ~WriteReturns
    BY <2>2, <2>3, <2>5 DEF Next, Service, ably_ws_connect, ably_ws_recv_once, ably_ws_close,
       ably_ws_client_create, ably_ws_client_destroy, TlsSetup, TlsHandshake, FinishConnect,
       LoopExit, LoopTurn, RecvReturn, wslay_on_message_received, CloseBegin, CloseFrame,
       CloseWait, CloseEnd, Watchdog, PeerSend, output
  <2> QED  BY <2>4, <2>5
<1> QED  BY <1>1, InvCorrect, PTL DEF Spec, NoTextAfterClose
=============================================================================
