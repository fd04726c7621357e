----------------------------- MODULE WsTransport -----------------------------
(* The WebSocket transport of ws_client.c and the calls the service thread *)
(* makes of it.  A connect is the chain of network calls it is in the      *)
(* code, each with its label to go to; recv_once hands the frames that are *)
(* there to on_frame, and on_frame may send (the echo of a heartbeat),     *)
(* also while ably_ws_close waits for the peer.                            *)
EXTENDS Naturals, Sequences

CONSTANTS MaxConnects,   \* bound: calls of ably_ws_connect
          MaxFrames,     \* bound: text frames of the peer on a connection
          CloseRounds    \* recv_once calls of a close: timeout_ms / 200

ASSUME WsAssumption == /\ MaxConnects \in Nat /\ MaxFrames \in Nat
                       /\ CloseRounds \in Nat \ {0}

VARIABLES pc,             \* where the service thread is
          back,           \* where recv_once returns to
          net,            \* net.fd: the number of the attempt that made it
          sockets,        \* the sockets that are open
          ssl, keys,      \* TLS context, and the connection whose handshake made its keys
  wslay_ctx,      \* connection of the framing context
          connected, close_sent, close_received,
          rounds,         \* recv_once calls of this close so far
          attempts,
          up,             \* connections whose upgrade succeeded
          inq,            \* frames of the peer that are not read yet
          produced, lost, \* frames sent by the peer; swallowed by the upgrade
          delivered,      \* numbers of the frames given to on_frame
          writing,        \* the frame that wslay_send_callback has not written yet
  last_out        \* the last frame written on this connection

flags == <<connected, close_sent, close_received>>
tls == <<ssl, keys>>
output == <<writing, last_out>>
peerVars == <<inq, produced, lost>>
vars == <<pc, back, net, sockets, tls, wslay_ctx, flags, rounds, attempts, up,
          peerVars, delivered, output>>

Points == {"absent", "out", "setup", "tls", "upgrade", "loop", "recv", "close", "closing",
           "ended", "gone"}

Init ==
  /\ pc = "absent" /\ back = "loop" /\ net = 0 /\ sockets = {} /\ ssl = "init" /\ keys = 0
  /\ wslay_ctx = 0 /\ connected = FALSE /\ close_sent = FALSE /\ close_received = FALSE
  /\ rounds = 0 /\ attempts = 0 /\ up = {} /\ inq = <<>> /\ produced = 0 /\ lost = 0
  /\ delivered = <<>> /\ writing = "none" /\ last_out = "none"

ably_ws_is_connected == connected /\ ~close_received
-----------------------------------------------------------------------------
(* create gives a transport or, with everything freed again, NULL.         *)
ably_ws_client_create ==
  /\ pc = "absent" /\ pc' \in {"out", "gone"}
  /\ UNCHANGED <<back, net, sockets, tls, wslay_ctx, flags, rounds, attempts, up,
                 peerVars, delivered, output>>

(* destroy closes the socket net has, and no other.                        *)
ably_ws_client_destroy ==
  /\ pc \in {"out", "ended"} /\ pc' = "gone"
  /\ sockets' = sockets \ {net} /\ net' = 0 /\ ssl' = "init" /\ keys' = 0 /\ wslay_ctx' = 0
  /\ connected' = FALSE
  /\ UNCHANGED <<back, close_sent, close_received, rounds, attempts, up, peerVars,
                 delivered, output>>
-----------------------------------------------------------------------------
(* The start of a connect, of this service thread or of the next one.  The *)
(* flags are cleared first; the socket of a connection that was lost is    *)
(* overwritten as it is.  A connect that cannot resolve the host leaves    *)
(* net alone, one that is refused leaves the number of a closed socket.    *)
Dial ==
  /\ pc \in {"out", "ended"} /\ attempts < MaxConnects
  /\ attempts' = attempts + 1
  /\ connected' = FALSE /\ close_sent' = FALSE /\ close_received' = FALSE
  /\ last_out' = "none" /\ inq' = <<>> /\ produced' = 0 /\ lost' = 0 /\ delivered' = <<>>
  /\ \/ /\ net' = attempts + 1 /\ sockets' = sockets \cup {attempts + 1} /\ pc' = "setup"
     \/ /\ net' \in {net, attempts + 1} /\ UNCHANGED sockets /\ pc' = "out"
  /\ UNCHANGED <<back, tls, wslay_ctx, rounds, up, writing>>

\* Mutant of fail_net: the socket is forgotten, not closed.
fail_net_Forgets == net' = 0 /\ sockets' = sockets /\ pc' = "out"

fail_net == net' = 0 /\ sockets' = sockets \ {net} /\ pc' = "out"

fail_ssl == ssl' = "init" /\ keys' = 0 /\ fail_net

(* mbedtls_ssl_setup takes new buffers and leaves the state of the context *)
(* and its keys as they are.  After a connection that was lost, which      *)
(* nobody freed the context of, they are those of that connection.         *)
TlsSetup ==
  /\ pc = "setup"
  /\ \/ /\ ssl' = IF ssl = "init" THEN "setup" ELSE ssl
        /\ pc' = "tls" /\ UNCHANGED <<net, sockets, keys>>
     \/ fail_net /\ UNCHANGED tls
  /\ UNCHANGED <<back, wslay_ctx, flags, rounds, attempts, up, peerVars, delivered, output>>

(* Done, refused, or a poll of the handshake timed out; on a context whose *)
(* handshake is over, done at once, with not a byte on the new socket.     *)
TlsHandshake ==
  /\ pc = "tls"
  /\ \/ /\ ssl = "setup"
        /\ ssl' = "established" /\ keys' = net /\ pc' = "upgrade" /\ UNCHANGED <<net, sockets>>
     \/ ssl = "setup" /\ fail_ssl
     \/ ssl = "established" /\ pc' = "upgrade" /\ UNCHANGED <<net, sockets, tls>>
  /\ UNCHANGED <<back, wslay_ctx, flags, rounds, attempts, up, peerVars, delivered, output>>

(* External: a peer reads and writes under the keys of the handshake on    *)
(* its own socket, and under no others.                                    *)
PeerHasKeys == keys = net

(* The upgrade request and its answer.  The read that completes the answer *)
(* takes whatever the peer sent right behind it, and that is not looked at *)
(* again.  Any answer but a 101, an error or a timeout fails the connect.  *)
perform_websocket_upgrade_handshake(taken) ==
  /\ PeerHasKeys
  /\ taken <= MaxFrames
  /\ produced' = taken /\ lost' = taken /\ inq' = <<>>

\* Mutant of FinishConnect: connected is set before the framing context is made.
FinishConnect_Early ==
  /\ pc = "upgrade"
  /\ \/ \E taken \in 0 .. 1 :
          /\ perform_websocket_upgrade_handshake(taken)
          /\ connected' = TRUE /\ pc' = "loop"
          /\ up' = up \cup {net}
          /\ UNCHANGED <<net, sockets, tls, wslay_ctx>>
     \/ fail_ssl /\ UNCHANGED <<connected, up, wslay_ctx, peerVars>>
  /\ UNCHANGED <<back, close_sent, close_received, rounds, attempts, delivered, output>>

FinishConnect ==
  /\ pc = "upgrade"
  /\ \/ \E taken \in 0 .. 1 :
          /\ perform_websocket_upgrade_handshake(taken)
          /\ wslay_ctx' = net /\ connected' = TRUE /\ pc' = "loop"
          /\ up' = up \cup {net}
          /\ UNCHANGED <<net, sockets, tls>>
     \/ \* the upgrade failed, or the framing context after the old one was freed
        /\ fail_ssl /\ wslay_ctx' \in {wslay_ctx, 0}
        /\ UNCHANGED <<connected, up, peerVars>>
  /\ UNCHANGED <<back, close_sent, close_received, rounds, attempts, delivered, output>>

ably_ws_connect == Dial \/ TlsSetup \/ TlsHandshake \/ FinishConnect
-----------------------------------------------------------------------------
(* The callback begins to write a frame.  It tries again for as long as    *)
(* the peer takes nothing, and does not look at the result of its poll.    *)
wslay_send_callback(frame) == writing' = frame

(* It returns when the peer has taken all of the frame, or with an error,  *)
(* which ends the connection; ably_ws_close does not look at the error.    *)
WriteReturns ==
  /\ writing # "none" /\ writing' = "none"
  /\ \/ last_out' = writing /\ UNCHANGED connected
     \/ connected' = (connected /\ pc = "closing") /\ UNCHANGED last_out
  /\ UNCHANGED <<pc, back, net, sockets, tls, wslay_ctx, close_sent, close_received, rounds,
                 attempts, up, peerVars, delivered>>

\* Mutant of ably_ws_send_text: a text may follow the close frame.
ably_ws_send_text_NoCloseTest ==
  IF ~connected THEN UNCHANGED writing ELSE wslay_send_callback("text")

(* A text frame: refused after a close frame.                              *)
ably_ws_send_text ==
  IF ~connected \/ close_sent THEN UNCHANGED writing ELSE wslay_send_callback("text")

(* One turn of the service loop: is_connected, the test of a close         *)
(* request, a frame of the ring if there is one, then recv_once.           *)
LoopExit ==
  /\ pc = "loop" /\ ~ably_ws_is_connected /\ pc' = "out"
  /\ UNCHANGED <<back, net, sockets, tls, wslay_ctx, flags, rounds, attempts, up,
                 peerVars, delivered, output>>

LoopTurn ==
  /\ pc = "loop" /\ ably_ws_is_connected
  /\ ably_ws_send_text \/ UNCHANGED writing
  /\ pc' = "recv" /\ back' = "loop"
  /\ UNCHANGED <<net, sockets, tls, wslay_ctx, flags, rounds, attempts, up, peerVars,
                 delivered, last_out>>

(* The watchdog leaves the loop with the transport as it is.               *)
Watchdog ==
  /\ pc = "loop" /\ pc' = "out"
  /\ UNCHANGED <<back, net, sockets, tls, wslay_ctx, flags, rounds, attempts, up,
                 peerVars, delivered, output>>
-----------------------------------------------------------------------------
(* What the framing layer is told when it asks for bytes and gets none.    *)
wslay_recv_callback == {"would_block", "failure"}

(* recv_once: nothing to do, a timeout, or the end of what is there; an    *)
(* error of the poll or of the framing layer ends the connection.          *)
RecvReturn ==
  /\ pc = "recv" /\ writing = "none" /\ pc' = back
  /\ \E told \in wslay_recv_callback : connected' = (connected /\ told # "failure")
  /\ UNCHANGED <<back, net, sockets, tls, wslay_ctx, close_sent, close_received, rounds,
                 attempts, up, peerVars, delivered, output>>

(* A frame comes out of the framing layer, which reads no further after a  *)
(* close frame; the echo of a heartbeat is sent from inside the callback.  *)
wslay_on_message_received ==
  /\ pc = "recv" /\ writing = "none" /\ connected /\ ~close_received /\ inq # <<>>
  /\ inq' = Tail(inq)
  /\ IF Head(inq).kind = "close"
     THEN close_received' = TRUE /\ UNCHANGED <<delivered, writing>>
     ELSE /\ delivered' = Append(delivered, Head(inq).no)
          /\ IF Head(inq).kind = "heartbeat" THEN ably_ws_send_text
             ELSE UNCHANGED writing
          /\ UNCHANGED close_received
  /\ UNCHANGED <<pc, back, net, sockets, tls, wslay_ctx, connected, close_sent, rounds,
                 attempts, up, produced, lost, last_out>>

ably_ws_recv_once == RecvReturn \/ wslay_on_message_received
-----------------------------------------------------------------------------
(* A requested close: Ably's CLOSE as a text, then ably_ws_close, which    *)
(* does nothing if that send ended the connection.  The thread ends then.  *)
CloseBegin ==
  /\ pc = "loop" /\ ably_ws_is_connected
  /\ ably_ws_send_text /\ pc' = "close"
  /\ UNCHANGED <<back, net, sockets, tls, wslay_ctx, flags, rounds, attempts, up, peerVars,
                 delivered, last_out>>

CloseFrame ==
  /\ pc = "close" /\ writing = "none"
  /\ \/ ~connected /\ pc' = "ended" /\ UNCHANGED <<close_sent, writing, rounds>>
     \/ /\ connected /\ close_sent' = TRUE
        /\ wslay_send_callback("close") \/ UNCHANGED writing  \* or it is not queued
        /\ rounds' = 0 /\ pc' = "closing"
  /\ UNCHANGED <<back, net, sockets, tls, wslay_ctx, connected, close_received, attempts, up,
                 peerVars, delivered, last_out>>

\* Mutant of CloseWait: a recv_once that returns at once is not counted.
CloseWait_Uncounted ==
  /\ pc = "closing" /\ writing = "none" /\ ~close_received /\ rounds < CloseRounds
  /\ rounds' = IF connected THEN rounds + 1 ELSE rounds
  /\ pc' = "recv" /\ back' = "closing"
  /\ UNCHANGED <<net, sockets, tls, wslay_ctx, flags, attempts, up, peerVars, delivered,
                 output>>

CloseWait ==
  /\ pc = "closing" /\ writing = "none" /\ ~close_received /\ rounds < CloseRounds
  /\ rounds' = rounds + 1
  /\ pc' = "recv" /\ back' = "closing"
  /\ UNCHANGED <<net, sockets, tls, wslay_ctx, flags, attempts, up, peerVars, delivered,
                 output>>

CloseEnd ==
  /\ pc = "closing" /\ writing = "none" /\ (close_received \/ rounds = CloseRounds)
  /\ ssl' = "init" /\ keys' = 0 /\ net' = 0 /\ sockets' = sockets \ {net} /\ connected' = FALSE
  /\ pc' = "ended"
  /\ UNCHANGED <<back, wslay_ctx, close_sent, close_received, rounds, attempts, up,
                 peerVars, delivered, output>>

ably_ws_close == CloseBegin \/ CloseFrame \/ CloseWait \/ CloseEnd
-----------------------------------------------------------------------------
(* External: the peer, on the connection that is up.                       *)
PeerSend ==
  /\ net \in up /\ wslay_ctx = net /\ produced < MaxFrames
  /\ ~\E i \in 1 .. Len(inq) : inq[i].kind = "close"
  /\ \E kind \in {"message", "heartbeat", "close"} :
       inq' = Append(inq, [kind |-> kind, no |-> produced + 1])
  /\ produced' = produced + 1
  /\ UNCHANGED <<pc, back, net, sockets, tls, wslay_ctx, flags, rounds, attempts, up, lost,
                 delivered, output>>

Service == \/ ably_ws_connect \/ LoopExit \/ LoopTurn \/ WriteReturns
           \/ ably_ws_recv_once \/ ably_ws_close

Next == \/ ably_ws_client_create \/ ably_ws_client_destroy \/ Service \/ Watchdog \/ PeerSend

(* The calls of a close go on by themselves, since every poll has a time   *)
(* limit.  A write returns when the peer reads, which nothing obliges it   *)
(* to: WriteReturns has no fairness.                                       *)
Spec == Init /\ [][Next]_vars
             /\ WF_vars(CloseFrame \/ CloseWait \/ CloseEnd) /\ WF_vars(RecvReturn)
-----------------------------------------------------------------------------
TypeOK ==
  /\ pc \in Points /\ back \in {"loop", "closing"}
  /\ net \in 0 .. attempts /\ sockets \subseteq 1 .. attempts /\ up \subseteq 1 .. attempts
  /\ ssl \in {"init", "setup", "established"}
  /\ keys \in 0 .. attempts /\ wslay_ctx \in 0 .. attempts
  /\ connected \in BOOLEAN /\ close_sent \in BOOLEAN /\ close_received \in BOOLEAN
  /\ rounds \in 0 .. CloseRounds /\ attempts \in 0 .. MaxConnects
  /\ produced \in 0 .. MaxFrames /\ lost \in 0 .. MaxFrames
  /\ writing \in {"none", "text", "close"} /\ last_out \in {"none", "text", "close"}

(* A transport that says it is connected has an open socket, a TLS context *)
(* past a handshake on that socket and the framing context of that same    *)
(* connection, so a send or a recv never runs on freed or old ones.  The   *)
(* connect after a loss does begin on the old TLS context; it must not get *)
(* as far as CONNECTED.                                                    *)
UpIsUsable ==
  connected => /\ net \in sockets /\ net \in up
               /\ ssl = "established" /\ keys = net /\ wslay_ctx = net

(* A connect that fails, wherever it fails, closes the socket it made.     *)
FailedConnectLeavesNothing ==
  pc \in {"out", "ended", "gone"} => sockets \subseteq up

(* on_frame gets the frames of the connection in order, once each, without *)
(* a gap after those that came with the upgrade's answer.                  *)
FramesInOrder ==
  \A i \in 1 .. Len(delivered) : delivered[i] = lost + i

(* No text follows a close frame, though the echo of a heartbeat that      *)
(* arrives during a close is sent from the frame callback.                 *)
NoTextAfterClose ==
  [][last_out = "close" /\ attempts' = attempts => last_out' = "close"]_vars

(* From the call on, a close returns, whether or not the peer answers it,  *)
(* except that a write of it, or of an echo in it, waits for ever for a    *)
(* peer that does not read.                                                *)
Stalled == writing # "none"
CloseReturns == pc \in {"close", "closing"} ~> (pc = "ended" \/ []Stalled)

(* A TLS context is set up once: mbedtls_ssl_setup is called on one that   *)
(* is fresh, as its header asks.                                           *)
SetUpOncePerContext == [][TlsSetup /\ pc' = "tls" => ssl = "init"]_vars

(* A destroyed transport has no socket open.                               *)
DestroyedHoldsNothing == pc = "gone" => sockets = {}
=============================================================================
