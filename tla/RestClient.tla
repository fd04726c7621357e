----------------------------- MODULE RestClient -----------------------------
(* The REST client of rest_client.c on top of HttpClient, with the service *)
(* it talks to.  A call of the API is a Begin step, which builds the path  *)
(* and the body and enters the HTTP function, and an End step, which reads *)
(* what the HTTP function left; the network runs between the two.          *)
(*                                                                         *)
(* A channel name is a sequence of character classes, "u" for the          *)
(* unreserved ones and "e" for those that are percent-encoded.             *)
EXTENDS HttpClient, FiniteSets

CONSTANTS Channels,     \* names the application uses
          Paged,        \* the one whose history it pages through
          Keyed, Plain, \* messages published with an id, and without
          PublishEnc,   \* sizeof encoded_channel in the publish functions
          NameEnc,      \* sizeof encoded_channel in the other functions
          PathSizes,    \* sizes a path in a link can have, without the name
          CursorMax,    \* sizeof next_cursor
          PageSize,     \* items of a history page
          ResultsMax,   \* results_max of batch_publish
          Others,       \* messages of other clients
          Stored,       \* what the service holds of each name at the start
          MaxCalls      \* bound: calls of the API

ASSUME RestAssumption == /\ PageSize \in Nat \ {0} /\ MaxCalls \in Nat
                         /\ ResultsMax \in Nat /\ CursorMax \in Nat
                         /\ PathSizes \subseteq Nat /\ PathSizes # {}
                         /\ IsFiniteSet(Channels)
                         /\ \A c \in Channels : c \in Seq({"u", "e"})
                         /\ Paged \in Channels
                         /\ Keyed \cap Plain = {} /\ None \notin Keyed \cup Plain

VARIABLES last_http_status,
          op,        \* the call in progress
          ret,       \* what the last call returned
          told,      \* what the application was told is published
          pager,     \* an application that pages through a channel's history
          calls,
          log,       \* service: the messages of each channel, in order
          arrived    \* service: requests received and not yet handled

restVars == <<last_http_status, op, ret, told, pager, calls, log, arrived>>
vars == <<httpVars, restVars>>

Messages == Keyed \cup Plain
NoOp == [name |-> "none"]
Prefixes(c) == {SubSeq(c, 1, k) : k \in 0 .. Len(c)}
Names == UNION {Prefixes(c) : c \in Channels}

ASSUME StoredAssumption ==
  /\ Others \cap Messages = {}
  /\ Stored \in [Names -> Seq([data : Others, id : {None}])]
-----------------------------------------------------------------------------
EncodedSize(name) ==
  Len(name) + 2 * Cardinality({k \in 1 .. Len(name) : name[k] = "e"})

(* The loop of url_encode_channel: a character is written while four more  *)
(* bytes fit.  The text it writes denotes this prefix of the name.         *)
url_encode_channel(channel, dst_len) ==
  CHOOSE p \in Prefixes(channel) :
    /\ p = channel \/ EncodedSize(p) + 4 >= dst_len
    /\ \A q \in Prefixes(channel) : Len(q) < Len(p) => EncodedSize(q) + 4 < dst_len

(* The bodies of a publish: messages, each with its id when it has one.    *)
IdOf(m) == IF m \in Keyed THEN m ELSE None
\* Mutant of build_single_json_body: the id is left out.
build_single_json_body_NoId(data, id) == <<[data |-> data, id |-> None]>>

build_single_json_body(data, id) == <<[data |-> data, id |-> id]>>
build_batch_json_body(messages) ==
  [i \in 1 .. Len(messages) |-> [data |-> messages[i], id |-> IdOf(messages[i])]]

\* Mutant of NextCursor: the rel of the links is not looked at.
NextCursor_AnyRel(links) ==
  IF Len(links) > 0 /\ links[1].path < CursorMax - 1 THEN <<links[1].at>> ELSE <<>>

(* The cursor of a page: some link has rel="next"; the target taken is     *)
(* that of the first link of the header, if it fits next_cursor.           *)
NextCursor(links) ==
  IF /\ \E i \in 1 .. Len(links) : links[i].rel = "next"
     /\ links[1].path < CursorMax - 1
  THEN <<links[1].at>> ELSE <<>>

(* What a function that only looks at the status answers ...               *)
StatusVerdict ==
  IF result # "OK" THEN result
  ELSE IF http_status < 200 \/ http_status >= 300 THEN "ERR_HTTP" ELSE "OK"

(* ... and one that parses the body as well: cut JSON does not parse.      *)
JsonVerdict ==
  IF StatusVerdict = "OK" /\ ~BodyRead.whole THEN "ERR_PROTOCOL" ELSE StatusVerdict
-----------------------------------------------------------------------------
(* A request and the call that makes it.                                   *)
Request(fn, what, names, at, body) ==
  [fn |-> fn, what |-> what, names |-> names, at |-> at, body |-> body,
   no |-> calls + 1]

Begin(o, r) ==
  /\ op = NoOp /\ calls < MaxCalls /\ stage # "absent"
  /\ calls' = calls + 1
  /\ op' = o
  /\ \E fits \in BOOLEAN : Build(r, fits)
  /\ UNCHANGED <<last_http_status, ret, told, pager, log, arrived>>

(* Return from an API call.  What the HTTP function left in its buffers    *)
(* and results is dead, as the next call writes it before it reads it; the *)
(* Link header stays.                                                      *)
Finish(r) ==
  /\ stage = "returned" /\ stage' = "idle"
  /\ ret' = r /\ op' = NoOp
  /\ request' = None /\ response_buf' = None /\ http_status' = 0 /\ result' = "OK"
  /\ UNCHANGED <<net, ssl, held, wire, link_header>>
  /\ UNCHANGED <<calls, log, arrived>>

(* The HTTP function wrote its status straight into last_http_status.      *)
End(name, err) ==
  /\ op.name = name
  /\ Finish([err |-> err])
  /\ last_http_status' = http_status
  /\ UNCHANGED <<told, pager>>

Told(channel, sent) == {[channel |-> channel, data |-> sent[i].data] : i \in 1 .. Len(sent)}
-----------------------------------------------------------------------------
ably_rest_time ==
  \/ Begin([name |-> "time"], Request("get", "time", {}, 1, <<>>))
  \/ End("time", JsonVerdict)

\* Mutant of EndPublish: any response is a success.
EndPublish_AnyStatus(name) ==
  /\ op.name = name
  /\ Finish([err |-> result])
  /\ last_http_status' = http_status
  /\ told' = IF result = "OK" THEN told \cup Told(op.channel, request.body) ELSE told
  /\ UNCHANGED pager

(* The three publish functions end alike: the status decides.              *)
EndPublish(name) ==
  /\ op.name = name
  /\ Finish([err |-> StatusVerdict])
  /\ last_http_status' = http_status
  /\ told' = IF StatusVerdict = "OK" THEN told \cup Told(op.channel, request.body) ELSE told
  /\ UNCHANGED pager

BeginPublish(name, c, body) ==
  Begin([name |-> name, channel |-> c],
        Request("post", "publish", {url_encode_channel(c, PublishEnc)}, 1, body))

ably_rest_publish ==
  \/ \E c \in Channels, m \in Plain :
        BeginPublish("publish", c, build_single_json_body(m, None))
  \/ EndPublish("publish")

ably_rest_publish_with_id ==
  \/ \E c \in Channels, m \in Keyed :
        BeginPublish("publish_with_id", c, build_single_json_body(m, m))
  \/ EndPublish("publish_with_id")

ably_rest_publish_batch ==
  \/ \E c \in Channels, m \in Keyed, n \in Plain :
        BeginPublish("publish_batch", c, build_batch_json_body(<<m, n>>))
  \/ EndPublish("publish_batch")
-----------------------------------------------------------------------------
(* A history page.  A cursor of an earlier page is a path, used as it is,  *)
(* with the name it has in it; without one the path is built from ours.    *)
HistoryPath(channel, from) ==
  IF from = <<>> THEN Request("get", "history", {url_encode_channel(channel, NameEnc)}, 1, <<>>)
  ELSE Request("get", "history", {from[1].name}, from[1].from, <<>>)

BeginHistory ==
  /\ ~pager.done
  /\ Begin([name |-> "history", channel |-> pager.channel],
           HistoryPath(pager.channel, pager.cursor))

(* The items are copied out of the answer and the cursor out of its Link   *)
(* header; the application keeps both and stops at an empty cursor.        *)
EndHistory ==
  LET cursor == NextCursor(ably_http_last_link_header)
      page   == [err |-> "OK", cursor |-> cursor, next |-> BodyRead.body.next]
  IN  /\ op.name = "history"
      /\ last_http_status' = http_status
      /\ IF JsonVerdict = "OK"
         THEN /\ Finish(page)
              /\ pager' = [pager EXCEPT !.cursor = cursor, !.done = cursor = <<>>,
                                        !.got = @ \o BodyRead.body.items]
         ELSE /\ Finish([err |-> JsonVerdict])
              /\ UNCHANGED pager
      /\ UNCHANGED told

ably_rest_channel_history == BeginHistory \/ EndHistory
-----------------------------------------------------------------------------
(* The other GETs: a page or a record of the service, whole or not at all. *)
EndPage(name) ==
  /\ op.name = name
  /\ Finish(IF JsonVerdict = "OK"
            THEN [err |-> "OK", next |-> NextCursor(ably_http_last_link_header)]
            ELSE [err |-> JsonVerdict])
  /\ last_http_status' = http_status
  /\ UNCHANGED <<told, pager>>

ably_rest_stats ==
  \/ Begin([name |-> "stats"], Request("get", "stats", {}, 1, <<>>))
  \/ EndPage("stats")

ably_rest_channel_status ==
  \/ \E c \in Channels : Begin([name |-> "status"],
        Request("get", "status", {url_encode_channel(c, NameEnc)}, 1, <<>>))
  \/ End("status", JsonVerdict)

ably_rest_channel_list ==
  \/ Begin([name |-> "list"], Request("get", "list", {}, 1, <<>>))
  \/ EndPage("list")

ably_rest_presence_get ==
  \/ \E c \in Channels : Begin([name |-> "presence"],
        Request("get", "presence", {url_encode_channel(c, NameEnc)}, 1, <<>>))
  \/ EndPage("presence")

(* The generic request: any status is a success, the body is handed out as *)
(* it was read, and last_http_status is set only on success.               *)
ably_rest_request ==
  \/ \E fn \in {"do"} : Begin([name |-> "request"], Request(fn, "stats", {}, 1, <<>>))
  \/ /\ op.name = "request"
     /\ Finish(IF result = "OK"
               THEN [err |-> "OK", next |-> NextCursor(ably_http_last_link_header)]
               ELSE [err |-> result])
     /\ last_http_status' = IF result = "OK" THEN http_status ELSE last_http_status
     /\ UNCHANGED <<told, pager>>

ably_rest_request_token ==
  \/ Begin([name |-> "token"], Request("do", "token", {}, 1, <<>>))
  \/ End("token", JsonVerdict)
-----------------------------------------------------------------------------
(* One message for several channels at once.  A result is written for each *)
(* entry of the answer while there is room; an answer that does not parse  *)
(* gives no result at all, and success.                                    *)
BeginBatch ==
  \E cs \in SUBSET Channels, m \in Messages :
    /\ cs # {}
    /\ Begin([name |-> "batch"],
             Request("do", "batch", cs, 1, build_single_json_body(m, IdOf(m))))

BatchResults ==
  LET entries == BodyRead.body.entries
  IN  IF BodyRead.whole
      THEN SubSeq(entries, 1, IF Len(entries) < ResultsMax THEN Len(entries) ELSE ResultsMax)
      ELSE <<>>

EndBatch ==
  LET results == IF StatusVerdict = "OK" THEN BatchResults ELSE <<>>
      fine    == {i \in 1 .. Len(results) : ~results[i].error}
  IN  /\ op.name = "batch"
      /\ Finish([err |-> StatusVerdict])
      /\ last_http_status' = http_status
      /\ told' = told \cup UNION {Told(results[i].channel, request.body) : i \in fine}
      /\ UNCHANGED pager

ably_rest_batch_publish == BeginBatch \/ EndBatch
-----------------------------------------------------------------------------
(* A call that fails before it has a request: no body could be built, or   *)
(* the API key has no secret to sign a token request with.                 *)
FailBeforeRequest ==
  /\ op = NoOp /\ calls < MaxCalls /\ stage # "absent"
  /\ calls' = calls + 1
  /\ \E e \in {"ERR_INTERNAL", "ERR_CAPACITY", "ERR_INVALID_ARG"} : ret' = [err |-> e]
  /\ UNCHANGED <<httpVars, last_http_status, op, told, pager, log, arrived>>

(* create and destroy; a destroyed client takes its last status along.     *)
ably_rest_client_create ==
  /\ ably_http_client_create
  /\ last_http_status' = 0
  /\ UNCHANGED <<op, ret, told, pager, calls, log, arrived>>

ably_rest_client_destroy ==
  /\ op = NoOp
  /\ ably_http_client_destroy
  /\ UNCHANGED restVars
-----------------------------------------------------------------------------
(* External: the service.  A message whose id the channel already has is   *)
(* accepted and not stored again.  A body is one message, or a batch of    *)
(* two.                                                                    *)
Store(seq, m) ==
  IF m.id = None \/ \A i \in 1 .. Len(seq) : seq[i].id # m.id
  THEN Append(seq, m) ELSE seq

StoreBody(seq, body) ==
  IF Len(body) = 1 THEN Store(seq, body[1]) ELSE Store(Store(seq, body[1]), body[2])

(* A path in a link carries the name and, in its query, a position; how    *)
(* long the query is is the service's choice.                              *)
Link(rel, name, at, base) ==
  LET path == base + EncodedSize(name)
  IN  [rel |-> rel, at |-> [name |-> name, from |-> at], path |-> path, size |-> path + 2]

HistoryPage(name, at, base) ==
  LET last  == at + PageSize > Len(log[name])
      to    == IF last THEN Len(log[name]) ELSE at + PageSize - 1
      first == <<Link("first", name, 1, base)>>
      next  == IF last THEN <<>> ELSE <<Link("next", name, at + PageSize, base)>>
  IN  [status |-> 200,
       links  |-> IF last THEN <<first>> ELSE <<first, next>>,
       body   |-> [items |-> SubSeq(log[name], at, to), next |-> next]]

Acknowledgement(entries) == [status |-> 201, links |-> <<>>, body |-> [entries |-> entries]]
SomePage(base) ==
  [status |-> 200, links |-> << <<Link("next", <<>>, 2, base)>> >>, body |-> [kind |-> "page"]]
Refusal == [status |-> 500, links |-> <<>>, body |-> [kind |-> "error"]]

(* The answer goes to the connection the request came by, if the client is *)
(* still there; what the request asked for happens all the same.           *)
Respond(r, response) ==
  /\ arrived' = arrived \ {r}
  /\ IF stage = "read" /\ request = r THEN Answer(response) ELSE UNCHANGED httpVars
  /\ UNCHANGED <<last_http_status, op, ret, told, pager, calls>>

(* The messages of a publish go to its channels but the bad ones, which a  *)
(* batch can have; the entries of the answer are in any order.             *)
Publish(r, bad) ==
  /\ \E order \in [1 .. Cardinality(r.names) -> r.names] :
       /\ \A i, j \in DOMAIN order : order[i] = order[j] => i = j
       /\ Respond(r, Acknowledgement([i \in DOMAIN order |->
                       [channel |-> order[i], error |-> order[i] \in bad]]))
  /\ log' = [c \in Names |-> IF c \in r.names \ bad
                             THEN StoreBody(log[c], r.body) ELSE log[c]]

Serve ==
  \E r \in arrived :
    \/ Respond(r, Refusal) /\ UNCHANGED log
    \/ r.what = "publish" /\ Publish(r, {})
    \/ r.what = "batch" /\ \E bad \in SUBSET r.names : Publish(r, bad)
    \/ /\ r.what = "history"
       /\ \E name \in r.names, base \in PathSizes : Respond(r, HistoryPage(name, r.at, base))
       /\ UNCHANGED log
    \/ /\ r.what \notin {"publish", "batch", "history"}
       /\ \E base \in PathSizes : Respond(r, SomePage(base))
       /\ UNCHANGED log

(* A read that the client has given up has no effect left and is dropped.  *)
Send ==
  \E sent \in BOOLEAN :
    /\ send_all(sent)
    /\ arrived' = {r \in arrived : r.what \in {"publish", "batch"}}
                    \cup (IF sent THEN {request} ELSE {})
    /\ UNCHANGED <<last_http_status, op, ret, told, pager, calls, log>>

Network == HttpCall /\ UNCHANGED restVars
-----------------------------------------------------------------------------
Init ==
  /\ HttpInit
  /\ last_http_status = 0 /\ op = NoOp /\ ret = [err |-> "OK"] /\ told = {} /\ calls = 0
  /\ log = Stored /\ arrived = {}
  /\ pager = [channel |-> Paged, cursor |-> <<>>, got |-> <<>>, done |-> FALSE]

Next ==
  \/ ably_rest_client_create \/ ably_rest_client_destroy
  \/ ably_rest_time \/ ably_rest_publish \/ ably_rest_publish_with_id
  \/ ably_rest_publish_batch \/ ably_rest_channel_history \/ ably_rest_stats
  \/ ably_rest_channel_status \/ ably_rest_channel_list \/ ably_rest_presence_get
  \/ ably_rest_request \/ ably_rest_request_token \/ ably_rest_batch_publish
  \/ FailBeforeRequest \/ Network \/ Send \/ Serve

Spec == Init /\ [][Next]_vars
-----------------------------------------------------------------------------
TypeOK ==
  /\ stage \in Stages /\ net \in {"closed", "open"}
  /\ ssl \in {"init", "setup", "established"}
  /\ http_status \in {0, 200, 201, 500} /\ last_http_status \in {0, 200, 201, 500}
  /\ calls \in 0 .. MaxCalls
  /\ \A t \in told : t.channel \in Channels /\ t.data \in Messages
  /\ pager.channel \in Channels /\ pager.done \in BOOLEAN

(* What a publish that returned ABLY_OK carried is in the log of the       *)
(* channel it was called with, whatever was retried, refused or answered   *)
(* too late before.                                                        *)
ToldIsStored ==
  \A t \in told : \E i \in 1 .. Len(log[t.channel]) : log[t.channel][i].data = t.data

(* A message with an id is in a channel once, although an attempt that     *)
(* failed for the client may still reach the service after its retry.      *)
KeyedOnce ==
  \A c \in Names : \A i, j \in 1 .. Len(log[c]) :
    log[c][i].data \in Keyed /\ log[c][i].data = log[c][j].data => i = j

(* Paging with next_cursor, through failed pages and with other calls in   *)
(* between, collects the channel's messages in order, none twice and none  *)
(* left out.                                                               *)
PagesInOrder ==
  /\ Len(pager.got) <= Len(log[pager.channel])
  /\ pager.got = SubSeq(log[pager.channel], 1, Len(pager.got))

\* The whole link reaches the client's header buffer, its path next_cursor.
Fits(link) == link.size < LinkMax /\ link.path < CursorMax - 1

(* The next_cursor of a page is the place where the service goes on.  It   *)
(* is empty after the last page, and for one more cause, which ends the    *)
(* paging short of the end without an error: the link did not fit.         *)
CursorIsNextPage ==
  "cursor" \in DOMAIN ret =>
    \/ ret.next = <<>> /\ ret.cursor = <<>>
    \/ ret.next # <<>> /\ Fits(ret.next[1]) /\ ret.cursor = <<ret.next[1].at>>
    \/ ret.next # <<>> /\ ~Fits(ret.next[1]) /\ ret.cursor = <<>>
=============================================================================
