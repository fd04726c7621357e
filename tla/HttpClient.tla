----------------------------- MODULE HttpClient -----------------------------
(* The HTTPS client of http_client.c: one request at a time, as the chain  *)
(* of network calls it makes, each of which can fail with a cleanup of its *)
(* own.  ably_http_post, ably_http_get and ably_http_do walk the same      *)
(* chain; they differ in whether the Link header is kept.                  *)
(*                                                                         *)
(* A request is a record with a field fn, the function that makes it; what *)
(* else it holds is the caller's.  A response is a record [status, links,  *)
(* body]: links is the sequence of its Link header lines, each a sequence  *)
(* of links [rel, at, size], at being what the target names.               *)
EXTENDS Integers, Sequences

CONSTANTS Requests,   \* the requests the caller can make
          Responses,  \* the responses the peer can give
          LinkMax,    \* sizeof link_header, in the unit of a link's size
          None        \* no response, no request

ASSUME HttpAssumption == /\ None \notin Responses /\ None \notin Requests
                         /\ LinkMax \in Nat \ {0}

VARIABLES stage,         \* how far the current request has come
          net, ssl,      \* the socket and the TLS context
          held,          \* what the client has allocated
          request,       \* request_buf: the request being made
          wire,          \* what the peer has answered on this connection
          response_buf,  \* the part of the answer that was read
          http_status, link_header, result

httpVars == <<stage, net, ssl, held, request, wire, response_buf,
              http_status, link_header, result>>

Idle == {"idle", "returned"}
Connected == {"setup", "handshake", "send", "read", "parse"}
Stages == {"absent", "connect"} \cup Idle \cup Connected
Parts == {"none", "status", "headers", "whole"}

HttpInit ==
  /\ stage = "absent" /\ net = "closed" /\ ssl = "init" /\ held = {}
  /\ request = None /\ wire = None /\ response_buf = None
  /\ http_status = 0 /\ link_header = <<>> /\ result = "OK"
-----------------------------------------------------------------------------
(* What create has allocated when one of its steps fails.                  *)
Acquired(failing) ==
  CASE failing = "malloc"       -> {}
    [] failing = "request_buf"  -> {"client"}
    [] failing = "response_buf" -> {"client", "request_buf"}
    [] OTHER                    -> {"client", "request_buf", "response_buf", "tls"}

(* The two labels of create: fail_tls falls through to fail.               *)
Released(failing) ==
  IF failing \in {"seed", "config", "ca"}
  THEN {"tls", "request_buf", "response_buf", "client"}
  ELSE {"request_buf", "response_buf", "client"}

ably_http_client_create ==
  /\ stage = "absent"
  /\ \/ /\ stage' = "idle" /\ held' = Acquired("nothing")
     \/ /\ stage' = "absent"
        /\ \E f \in {"malloc", "request_buf", "response_buf", "seed", "config", "ca"} :
              held' = Acquired(f) \ Released(f)
  /\ UNCHANGED <<net, ssl, request, wire, response_buf, http_status,
                 link_header, result>>

ably_http_client_destroy ==
  /\ stage \in Idle
  /\ stage' = "absent" /\ held' = {} /\ ssl' = "init"
  /\ request' = None /\ response_buf' = None /\ link_header' = <<>>
  /\ UNCHANGED <<net, wire, http_status, result>>
-----------------------------------------------------------------------------
(* The first calls of a request: *http_status is cleared before anything   *)
(* can fail, and a request that does not fit never connects.               *)
Build(r, fits) ==
  /\ stage \in Idle
  /\ request' = r /\ http_status' = 0
  /\ IF fits THEN stage' = "connect" /\ result' = result
             ELSE stage' = "returned" /\ result' = "ERR_NETWORK"
  /\ UNCHANGED <<net, ssl, held, wire, response_buf, link_header>>

Return(err) ==
  /\ stage' = "returned" /\ result' = err

(* The common exit: close_notify, free and re-init of the context, close.  *)
Close == ssl' = "init" /\ net' = "closed" /\ wire' = None

Connect ==
  /\ stage = "connect"
  /\ \/ /\ net' = "open" /\ stage' = "setup" /\ result' = result
     \/ /\ net' = "closed" /\ Return("ERR_NETWORK")
  /\ UNCHANGED <<ssl, held, request, wire, response_buf, http_status, link_header>>

(* A failed mbedtls_ssl_setup leaves the context as it found it; only the  *)
(* socket is closed.                                                       *)
Setup ==
  /\ stage = "setup"
  /\ \/ /\ ssl' = "setup" /\ stage' = "handshake" /\ UNCHANGED <<net, result>>
     \/ /\ net' = "closed" /\ Return("ERR_NETWORK") /\ UNCHANGED ssl
  /\ UNCHANGED <<held, request, wire, response_buf, http_status, link_header>>

\* Mutant of Handshake: a failed handshake leaves the context and the socket.
Handshake_NoCleanup ==
  /\ stage = "handshake"
  /\ \/ ssl' = "established" /\ stage' = "send" /\ result' = result
     \/ ssl' = ssl /\ Return("ERR_NETWORK")
  /\ UNCHANGED <<net, wire, held, request, response_buf, http_status, link_header>>

Handshake ==
  /\ stage = "handshake"
  /\ \/ /\ ssl' = "established" /\ stage' = "send" /\ UNCHANGED <<net, wire, result>>
     \/ /\ Close /\ Return("ERR_NETWORK")
  /\ UNCHANGED <<held, request, response_buf, http_status, link_header>>

(* All the bytes are written, or an error ends the request.                *)
send_all(sent) ==
  /\ stage = "send"
  /\ IF sent THEN stage' = "read" /\ UNCHANGED <<net, ssl, wire, result>>
             ELSE Close /\ Return("ERR_NETWORK")
  /\ UNCHANGED <<held, request, response_buf, http_status, link_header>>

(* The read loop ends at the peer's close, whether or not the answer is    *)
(* complete, or at a full buffer; it fails at an error or a timeout.       *)
Read ==
  /\ stage = "read"
  /\ \/ \E part \in Parts :
          /\ wire = None => part = "none"
          /\ response_buf' = [answer |-> wire, part |-> part]
          /\ stage' = "parse" /\ UNCHANGED <<net, ssl, wire, result>>
     \/ /\ Close /\ Return("ERR_NETWORK") /\ UNCHANGED response_buf
  /\ UNCHANGED <<held, request, http_status, link_header>>

\* Mutant of KeptLinks: the first Link line is kept.
KeptLinks_First(lines) == IF lines = <<>> THEN <<>> ELSE lines[1]

(* The value of the last Link line, cut to the buffer: the links that fit  *)
(* whole are the ones that can still be recognised.                        *)
KeptLinks(lines) ==
  LET value == IF lines = <<>> THEN <<>> ELSE lines[Len(lines)]
      size[k \in 0 .. Len(value)] == IF k = 0 THEN 0 ELSE size[k - 1] + value[k].size
      kept == {k \in 0 .. Len(value) : size[k] < LinkMax}
  IN  SubSeq(value, 1, CHOOSE k \in kept : \A j \in kept : j <= k)

(* Status and Link of what was read.  The status is set as soon as the     *)
(* status line is there, even if the headers turn out to be incomplete.    *)
parse_response_headers(keepLink) ==
  LET part == response_buf.part
      done == part \in {"headers", "whole"}
  IN  /\ http_status' = IF part = "none" THEN 0 ELSE response_buf.answer.status
      /\ link_header' = IF ~keepLink THEN link_header
                        ELSE IF done THEN KeptLinks(response_buf.answer.links) ELSE <<>>
      /\ Return(IF done THEN "OK" ELSE "ERR_PROTOCOL")

Parse(keepLink) ==
  /\ stage = "parse"
  /\ parse_response_headers(keepLink)
  /\ Close
  /\ UNCHANGED <<held, request, response_buf>>

ably_http_last_link_header == link_header

(* The body the caller gets: the whole one, or what was read of it.        *)
BodyRead == [whole |-> response_buf.part = "whole", body |-> response_buf.answer.body]
-----------------------------------------------------------------------------
(* The rest of each of the three functions after its request is built;     *)
(* send_all is the step at which the request reaches the peer.             *)
Chain(keepLink) == Connect \/ Setup \/ Handshake \/ Read \/ Parse(keepLink)

ably_http_post == request.fn = "post" /\ Chain(FALSE)
ably_http_get  == request.fn = "get" /\ Chain(TRUE)
ably_http_do   == request.fn = "do" /\ Chain(TRUE)
HttpCall == stage \notin Idle \cup {"absent"} /\ (ably_http_post \/ ably_http_get \/ ably_http_do)

(* External: the peer answers on the connection the request came by.       *)
Answer(response) ==
  /\ stage = "read" /\ wire = None
  /\ wire' = response
  /\ UNCHANGED <<stage, net, ssl, held, request, response_buf, http_status,
                 link_header, result>>

(* The client on its own: any request, any answer, any failure.            *)
HttpNext ==
  \/ ably_http_client_create \/ ably_http_client_destroy
  \/ \E r \in Requests, fits \in BOOLEAN : Build(r, fits)
  \/ HttpCall
  \/ \E sent \in BOOLEAN : send_all(sent)
  \/ \E a \in Responses : Answer(a)

HttpSpec == HttpInit /\ [][HttpNext]_httpVars
-----------------------------------------------------------------------------
(* Every path out of a request, whichever of its calls failed, closes the  *)
(* socket and leaves a TLS context that is ready for the next setup, so a  *)
(* setup never meets a used context; and the client holds all its buffers  *)
(* or, after a failed create or a destroy, none.                           *)
CleanBetweenRequests ==
  /\ stage \in Idle \cup {"absent", "connect"} => net = "closed" /\ wire = None
  /\ stage \in Idle \cup {"absent", "connect", "setup"} => ssl = "init"
  /\ stage = "absent" <=> held = {}
=============================================================================
