----------------------------- MODULE RestProofs -----------------------------
(***************************************************************************)
(* Proofs about HttpClient and RestClient, for every set of names and      *)
(* messages, every size of buffer and every bound: a request leaves the    *)
(* connection clean whichever of its calls failed; a message with an id is *)
(* stored once; when the names fit the buffer of the publish functions,    *)
(* what publish() reported is stored; and the pages of a history, put      *)
(* together, are the history.                                              *)
(***************************************************************************)
EXTENDS RestClient, FiniteSetTheorems, SequenceTheorems, TLAPS

(* Part 1: the HTTP client.                                                *)

HttpInv == /\ CleanBetweenRequests /\ stage \in Stages
           /\ stage = "setup" => wire = None

\* What a step of its user does to the HTTP client.
HttpMove ==
  \/ ably_http_client_create \/ ably_http_client_destroy
  \/ \E r : \E fits \in BOOLEAN : Build(r, fits)
  \/ HttpCall
  \/ \E sent \in BOOLEAN : send_all(sent)
  \/ \E a : Answer(a)
  \/ UNCHANGED httpVars

LEMMA HttpStep ==
  ASSUME HttpInv, HttpMove
  PROVE  HttpInv'
<1> USE DEF HttpInv, CleanBetweenRequests, Stages, Idle, Connected
<1>1. CASE ably_http_client_create
  <2>1. \A f \in {"malloc", "request_buf", "response_buf", "seed", "config", "ca"} :
          Acquired(f) \ Released(f) = {}
    BY DEF Acquired, Released
  <2>2. Acquired("nothing") # {}
    BY DEF Acquired
  <2>3. QED
    BY <1>1, <2>1, <2>2 DEF ably_http_client_create
<1>2. CASE ably_http_client_destroy
  BY <1>2 DEF ably_http_client_destroy
<1>3. CASE \E r : \E fits \in BOOLEAN : Build(r, fits)
  BY <1>3 DEF Build
<1>4. CASE HttpCall
  <2>1. \/ Connect \/ Setup \/ Handshake \/ Read
        \/ \E keepLink \in BOOLEAN : Parse(keepLink)
    BY <1>4 DEF HttpCall, ably_http_post, ably_http_get, ably_http_do, Chain
  <2>2. CASE Connect \/ Setup \/ Handshake \/ Read
    BY <2>2 DEF Connect, Setup, Handshake, Read, Close, Return
  <2>3. CASE \E keepLink \in BOOLEAN : Parse(keepLink)
    <3>1. net' = "closed" /\ ssl' = "init" /\ wire' = None /\ stage' = "returned"
            /\ stage = "parse" /\ held' = held
      BY <2>3 DEF Parse, parse_response_headers, Close, Return
    <3>2. QED
      BY <3>1
  <2>4. QED
    BY <2>1, <2>2, <2>3
<1>5. CASE \E sent \in BOOLEAN : send_all(sent)
  BY <1>5 DEF send_all, Close, Return
<1>6. CASE \E a : Answer(a)
  BY <1>6 DEF Answer
<1>7. CASE UNCHANGED httpVars
  BY <1>7 DEF httpVars
<1>8. QED
  BY <1>1, <1>2, <1>3, <1>4, <1>5, <1>6, <1>7 DEF HttpMove

LEMMA HttpStart == HttpInit => HttpInv
BY DEF HttpInit, HttpInv, CleanBetweenRequests, Stages, Idle, Connected

\* The HTTP client of any user: between two requests the socket is closed and the
\* TLS context ready, whichever call of the one before failed, and its buffers
\* are all there or none is.
THEOREM HttpClean == HttpSpec => []CleanBetweenRequests
<1>1. HttpInv /\ [HttpNext]_httpVars => HttpInv'
  BY HttpStep DEF HttpNext, HttpMove
<1>2. HttpInv => CleanBetweenRequests
  BY DEF HttpInv
<1>3. QED
  BY HttpStart, <1>1, <1>2, PTL DEF HttpSpec

(* Part 2: the calls of the REST client.                                   *)

NamesFit == \A c \in Channels : url_encode_channel(c, PublishEnc) = c

PublishNames == {"publish", "publish_with_id", "publish_batch"}

Item(m) == [data |-> m, id |-> IdOf(m)]
Bodies == {<<Item(m)>> : m \in Messages}
            \cup {<<Item(m), Item(n)>> : m \in Messages, n \in Messages}

\* A request that carries messages bears ids and goes to names of the application.
GoodRequest(r) ==
  r.what \in {"publish", "batch"} =>
    r.body \in Bodies /\ (NamesFit => r.names \subseteq Channels)

\* The call o is the one that makes the request r.
GoodCall(o, r) ==
  /\ GoodRequest(r)
  /\ o.name # "none"
  /\ o.name \in PublishNames =>
       /\ r.what = "publish" /\ o.channel \in Channels
       /\ NamesFit => r.names = {o.channel}
  /\ o.name = "batch" => r.what = "batch" /\ r.names \subseteq Channels

CallInv ==
  /\ op = NoOp <=> stage \in {"absent", "idle"}
  /\ op # NoOp => GoodCall(op, request)
  /\ \A r \in arrived : GoodRequest(r)

LEMMA BodyItems ==
  /\ \A m \in Plain : build_single_json_body(m, None) \in Bodies
  /\ \A m \in Keyed : build_single_json_body(m, m) \in Bodies
  /\ \A m \in Messages : build_single_json_body(m, IdOf(m)) \in Bodies
  /\ \A m, n \in Messages : build_batch_json_body(<<m, n>>) \in Bodies
<1>1. \A m \in Plain : m \in Messages /\ IdOf(m) = None
  BY RestAssumption DEF Messages, IdOf
<1>2. \A m \in Keyed : m \in Messages /\ IdOf(m) = m
  BY DEF Messages, IdOf
<1>3. \A m \in Messages : build_single_json_body(m, IdOf(m)) \in Bodies
  BY DEF build_single_json_body, Bodies, Item
<1>4. ASSUME NEW m \in Messages, NEW n \in Messages
      PROVE  build_batch_json_body(<<m, n>>) \in Bodies
  <2>1. build_batch_json_body(<<m, n>>) = <<Item(m), Item(n)>>
    BY DEF build_batch_json_body, Item
  <2>2. QED
    BY <2>1 DEF Bodies
<1>5. QED
  BY <1>1, <1>2, <1>3, <1>4

\* A request for history asks for what the pager has not got yet.
Asks(o, r) ==
  o.name = "history" =>
    /\ ~pager.done
    /\ r.fn = "get" /\ r.what = "history"
    /\ IF pager.cursor = <<>>
       THEN r.names = {url_encode_channel(pager.channel, NameEnc)} /\ r.at = 1
       ELSE r.names = {pager.cursor[1].name} /\ r.at = pager.cursor[1].from

\* The calls that begin, and the requests they make.
Begins ==
  \E o, r : /\ GoodCall(o, r) /\ Asks(o, r)
            /\ op = NoOp /\ op' = o /\ stage # "absent"
            /\ \E fits \in BOOLEAN : Build(r, fits)
            /\ UNCHANGED <<told, pager, ret, log, arrived>>

LEMMA BeginGood ==
  ASSUME NEW o, NEW r, GoodCall(o, r), Asks(o, r), Begin(o, r)
  PROVE  Begins
BY DEF Begins, Begin

LEMMA RequestFields ==
  ASSUME NEW fn, NEW what, NEW names, NEW at, NEW body
  PROVE  /\ Request(fn, what, names, at, body).what = what
         /\ Request(fn, what, names, at, body).names = names
         /\ Request(fn, what, names, at, body).body = body
         /\ Request(fn, what, names, at, body).fn = fn
         /\ Request(fn, what, names, at, body).at = at
BY DEF Request

LEMMA OtherCallGood ==
  ASSUME NEW o, NEW r, Begin(o, r),
         o.name \notin PublishNames \cup {"batch", "none"}, Asks(o, r),
         r.what \notin {"publish", "batch"}
  PROVE  Begins
BY BeginGood DEF GoodCall, GoodRequest

LEMMA PublishGood ==
  ASSUME NEW name \in PublishNames, NEW c \in Channels, NEW body \in Bodies,
         BeginPublish(name, c, body)
  PROVE  Begins
<1> DEFINE o == [name |-> name, channel |-> c]
           r == Request("post", "publish", {url_encode_channel(c, PublishEnc)}, 1, body)
<1>1. r.what = "publish" /\ r.body = body /\ r.names = {url_encode_channel(c, PublishEnc)}
  BY RequestFields
<1>2. Begin(o, r)
  BY DEF BeginPublish
<1>3. NamesFit => r.names = {c}
  BY <1>1 DEF NamesFit
<1> HIDE DEF r
<1>4. GoodCall(o, r)
  BY <1>1, <1>3 DEF GoodCall, GoodRequest, PublishNames
<1>5. Asks(o, r)
  BY DEF Asks, PublishNames
<1>6. QED
  BY <1>2, <1>4, <1>5, BeginGood

\* The calls that end, ...
NoCursor(e) == "cursor" \notin DOMAIN e

Finishes ==
  /\ \E e : Finish(e)
  /\ \/ UNCHANGED told
     \/ \E name \in PublishNames : EndPublish(name)
     \/ EndBatch
  /\ \/ NoCursor(ret') /\ UNCHANGED pager
     \/ EndHistory

\* ... and the client that comes and goes.
Lifecycle ==
  /\ \/ ably_http_client_create
     \/ ably_http_client_destroy /\ op = NoOp
  /\ UNCHANGED <<op, told, pager, ret, log, arrived>>

LEMMA Returned ==
  /\ \A err : NoCursor([err |-> err])
  /\ \A err, n : NoCursor([err |-> err, next |-> n])
BY DEF NoCursor

LEMMA GetCases ==
  /\ ably_rest_time => Begins \/ Finishes
  /\ ably_rest_stats => Begins \/ Finishes
  /\ ably_rest_channel_status => Begins \/ Finishes
  /\ ably_rest_channel_list => Begins \/ Finishes
  /\ ably_rest_presence_get => Begins \/ Finishes
  /\ ably_rest_request => Begins \/ Finishes
  /\ ably_rest_request_token => Begins \/ Finishes
<1>1. ASSUME NEW n \in {"time", "stats", "status", "list", "presence", "request", "token"}
      PROVE  n \notin PublishNames \cup {"batch", "none", "history"}
  BY DEF PublishNames
<1>2. ASSUME NEW n \in {"time", "stats", "status", "list", "presence", "request", "token"},
             NEW fn, NEW w \in {"time", "stats", "status", "list", "presence", "token"},
             NEW names, Begin([name |-> n], Request(fn, w, names, 1, <<>>))
      PROVE  Begins
  <2> DEFINE o == [name |-> n]
             r == Request(fn, w, names, 1, <<>>)
  <2>1. r.what = w /\ o.name = n
    BY RequestFields
  <2>2. /\ r.what \notin {"publish", "batch"}
        /\ o.name \notin PublishNames \cup {"batch", "none"} /\ Asks(o, r)
    BY <1>1, <2>1 DEF Asks
  <2>3. Begin(o, r)
    BY <1>2
  <2> HIDE DEF o, r
  <2>4. QED
    BY <2>2, <2>3, OtherCallGood
<1>3. \A n, err : End(n, err) => Finishes
  BY Returned DEF End, Finish, Finishes
<1>4. \A n : EndPage(n) => Finishes
  BY Returned DEF EndPage, Finish, Finishes
<1>5. ably_rest_time => Begins \/ Finishes
  BY <1>2, <1>3 DEF ably_rest_time
<1>6. ably_rest_stats => Begins \/ Finishes
  BY <1>2, <1>4 DEF ably_rest_stats
<1>7. ably_rest_channel_status => Begins \/ Finishes
  BY <1>2, <1>3 DEF ably_rest_channel_status
<1>8. ably_rest_channel_list => Begins \/ Finishes
  BY <1>2, <1>4 DEF ably_rest_channel_list
<1>9. ably_rest_presence_get => Begins \/ Finishes
  BY <1>2, <1>4 DEF ably_rest_presence_get
<1>10. ably_rest_request => Begins \/ Finishes
  BY <1>2, Returned DEF ably_rest_request, Finish, Finishes
<1>11. ably_rest_request_token => Begins \/ Finishes
  BY <1>2, <1>3 DEF ably_rest_request_token
<1>12. QED
  BY <1>5, <1>6, <1>7, <1>8, <1>9, <1>10, <1>11

LEMMA PublishCases ==
  /\ ably_rest_publish => Begins \/ Finishes
  /\ ably_rest_publish_with_id => Begins \/ Finishes
  /\ ably_rest_publish_batch => Begins \/ Finishes
  /\ ably_rest_channel_history => Begins \/ Finishes
  /\ ably_rest_batch_publish => Begins \/ Finishes
<1>1. \A n \in PublishNames : EndPublish(n) => Finishes
  BY Returned DEF EndPublish, Finish, Finishes
<1>2. {"publish", "publish_with_id", "publish_batch"} = PublishNames
  BY DEF PublishNames
<1>3. Keyed \subseteq Messages /\ Plain \subseteq Messages
  BY DEF Messages
<1>4. ably_rest_publish => Begins \/ Finishes
  BY <1>1, <1>2, PublishGood, BodyItems DEF ably_rest_publish
<1>5. ably_rest_publish_with_id => Begins \/ Finishes
  BY <1>1, <1>2, PublishGood, BodyItems DEF ably_rest_publish_with_id
<1>6. ably_rest_publish_batch => Begins \/ Finishes
  BY <1>1, <1>2, <1>3, PublishGood, BodyItems DEF ably_rest_publish_batch
<1>7. BeginHistory => Begins
  <2> SUFFICES ASSUME BeginHistory PROVE Begins
    OBVIOUS
  <2> DEFINE o == [name |-> "history", channel |-> pager.channel]
             r == HistoryPath(pager.channel, pager.cursor)
  <2>1. r.what = "history"
    BY RequestFields DEF HistoryPath
  <2>2. o.name \notin PublishNames \cup {"batch", "none"}
    BY DEF PublishNames
  <2>3. Begin(o, r) /\ ~pager.done
    BY DEF BeginHistory
  <2>4. /\ r.fn = "get"
        /\ pager.cursor = <<>> =>
             r.names = {url_encode_channel(pager.channel, NameEnc)} /\ r.at = 1
        /\ pager.cursor # <<>> =>
             r.names = {pager.cursor[1].name} /\ r.at = pager.cursor[1].from
    BY RequestFields DEF HistoryPath
  <2> HIDE DEF r
  <2>5. Asks(o, r)
    BY <2>1, <2>3, <2>4 DEF Asks
  <2> HIDE DEF o
  <2>6. QED
    BY <2>1, <2>2, <2>3, <2>5, OtherCallGood
<1>8. EndHistory => Finishes
  BY DEF EndHistory, Finishes
<1>9. BeginBatch => Begins
  <2> SUFFICES ASSUME BeginBatch PROVE Begins
    OBVIOUS
  <2>1. PICK cs \in SUBSET Channels, m \in Messages :
          Begin([name |-> "batch"],
                Request("do", "batch", cs, 1, build_single_json_body(m, IdOf(m))))
    BY DEF BeginBatch
  <2> DEFINE o == [name |-> "batch"]
             r == Request("do", "batch", cs, 1, build_single_json_body(m, IdOf(m)))
  <2>2. r.what = "batch" /\ r.names = cs /\ r.body \in Bodies
    BY RequestFields, BodyItems
  <2>3. o.name = "batch" /\ Begin(o, r) /\ Asks(o, r)
    BY <2>1 DEF Asks
  <2> HIDE DEF o, r
  <2>4. GoodCall(o, r)
    BY <2>2, <2>3 DEF GoodCall, GoodRequest, PublishNames
  <2>5. QED
    BY <2>3, <2>4, BeginGood
<1>10. EndBatch => Finishes
  BY Returned DEF EndBatch, Finish, Finishes
<1>11. QED
  BY <1>4, <1>5, <1>6, <1>7, <1>8, <1>9, <1>10
  DEF ably_rest_channel_history, ably_rest_batch_publish

\* A call that makes no request, and no step at all.
Nothing ==
  /\ UNCHANGED <<httpVars, op, told, pager, log, arrived>>
  /\ ret' = ret \/ NoCursor(ret')

LEMMA NextCases ==
  ASSUME [Next]_vars
  PROVE  \/ Begins \/ Finishes \/ Lifecycle \/ Network \/ Send \/ Serve
         \/ Nothing
<1>1. FailBeforeRequest \/ UNCHANGED vars => Nothing
  BY Returned DEF FailBeforeRequest, vars, restVars, Nothing
<1>2. ably_rest_client_create \/ ably_rest_client_destroy => Lifecycle
  BY DEF ably_rest_client_create, ably_rest_client_destroy, Lifecycle, restVars
<1>3. QED
  BY <1>1, <1>2, GetCases, PublishCases DEF Next

(* Part 3: the invariants.                                                 *)

\* A log: messages of others without an id, ours as they are sent, those with
\* an id once.
GoodLog(s) ==
  /\ s \in Seq({Item(d) : d \in Others \cup Messages})
  /\ \A i, j \in 1 .. Len(s) : s[i].data \in Keyed /\ s[i].data = s[j].data => i = j

LogInv == log \in [Names -> Seq({Item(d) : d \in Others \cup Messages})]
          /\ \A c \in Names : GoodLog(log[c])

Has(s, d) == \E i \in 1 .. Len(s) : s[i].data = d
HasAll(s, body) == \A i \in 1 .. Len(body) : Has(s, body[i].data)

\* What an answer of success to a request means: all of its names have the
\* message, or those of a batch whose entry has no error.
Success(status) == ~(status < 200 \/ status >= 300)
Confirms(l, a, r) ==
  Success(a.status) =>
    /\ r.what = "publish" => \A c \in r.names : HasAll(l[c], r.body)
    /\ r.what = "batch" =>
         /\ a.body.entries \in Seq([channel : r.names, error : BOOLEAN])
         /\ \A i \in 1 .. Len(a.body.entries) :
              ~a.body.entries[i].error => HasAll(l[a.body.entries[i].channel], r.body)

AnswerInv ==
  /\ wire # None => Confirms(log, wire, request)
  /\ stage = "parse" /\ response_buf.part # "none" =>
       Confirms(log, response_buf.answer, request)
  /\ stage = "returned" /\ result = "OK" =>
       /\ http_status = response_buf.answer.status
       /\ Confirms(log, response_buf.answer, request)

ToldInv == \A t \in told : t.channel \in Channels /\ Has(log[t.channel], t.data)

(* Part 4: the operators of the service.                                   *)

LEMMA ItemFields ==
  ASSUME NEW d
  PROVE  /\ Item(d).data = d /\ Item(d).id = IdOf(d)
         /\ Item(d).id = None \/ (d \in Keyed /\ Item(d).id = d)
         /\ d \in Keyed => Item(d).id = d /\ Item(d).id # None
BY RestAssumption DEF Item, IdOf

\* The log t is s with more at its end.
Grown(s, t) == Len(s) <= Len(t) /\ \A i \in 1 .. Len(s) : t[i] = s[i]

LEMMA GrownHas ==
  ASSUME NEW X, NEW Y, NEW s \in Seq(X), NEW t \in Seq(Y), Grown(s, t), NEW d, Has(s, d)
  PROVE  Has(t, d)
<1>1. Len(s) \in Nat /\ Len(t) \in Nat
  OBVIOUS
<1>2. QED
  BY <1>1 DEF Grown, Has

LEMMA StoreKeeps ==
  ASSUME NEW s, GoodLog(s), NEW m \in Messages
  PROVE  /\ GoodLog(Store(s, Item(m))) /\ Has(Store(s, Item(m)), m)
         /\ Grown(s, Store(s, Item(m)))
<1> DEFINE Items == {Item(d) : d \in Others \cup Messages}
           new == Store(s, Item(m))
<1>1. s \in Seq(Items) /\ Item(m) \in Items
  BY DEF GoodLog
<1>2. \A i \in 1 .. Len(s) : s[i] = Item(s[i].data)
  <2> TAKE i \in 1 .. Len(s)
  <2>1. s[i] \in Items
    BY <1>1
  <2>2. PICK d \in Others \cup Messages : s[i] = Item(d)
    BY <2>1
  <2>3. QED
    BY <2>2, ItemFields
<1>3. \A i, j \in 1 .. Len(s) : s[i].data \in Keyed /\ s[i].data = s[j].data => i = j
  BY DEF GoodLog
<1> HIDE DEF Items
<1>4. CASE Item(m).id # None /\ \E i \in 1 .. Len(s) : s[i].id = Item(m).id
  <2>1. new = s
    BY <1>4 DEF Store
  <2>2. PICK i \in 1 .. Len(s) : s[i].id = Item(m).id
    BY <1>4
  <2>3. Item(s[i].data).id = Item(m).id
    BY <1>2, <2>2
  <2>4. s[i].data = m
    BY <1>4, <2>3, ItemFields
  <2>5. Has(s, m)
    BY <2>4 DEF Has
  <2>6. Grown(s, s)
    BY <1>1 DEF Grown
  <2>7. QED
    BY <2>1, <2>5, <2>6
<1>5. CASE Item(m).id = None \/ \A i \in 1 .. Len(s) : s[i].id # Item(m).id
  <2>1. new = Append(s, Item(m))
    BY <1>5 DEF Store
  <2>2. /\ new \in Seq(Items) /\ Len(new) = Len(s) + 1 /\ Len(s) \in Nat
        /\ \A i \in 1 .. Len(s) : new[i] = s[i]
        /\ new[Len(s) + 1] = Item(m)
    BY <1>1, <2>1
  <2>3. new[Len(s) + 1].data = m
    BY <2>2, ItemFields
  <2>4. Has(new, m)
    BY <2>2, <2>3 DEF Has
  <2>5. Grown(s, new)
    BY <2>2 DEF Grown
  <2>6. m \in Keyed => \A i \in 1 .. Len(s) : s[i].data # m
    <3> SUFFICES ASSUME m \in Keyed, NEW i \in 1 .. Len(s), s[i].data = m PROVE FALSE
      OBVIOUS
    <3>1. s[i].id = Item(m).id
      BY <1>2
    <3>2. QED
      BY <1>5, <3>1, ItemFields
  <2>7. \A i, j \in 1 .. Len(new) :
          new[i].data \in Keyed /\ new[i].data = new[j].data => i = j
    <3> SUFFICES ASSUME NEW i \in 1 .. Len(new), NEW j \in 1 .. Len(new),
                        new[i].data \in Keyed, new[i].data = new[j].data
                 PROVE  i = j
      OBVIOUS
    <3> HIDE DEF new
    <3>1. (i \in 1 .. Len(s) \/ i = Len(s) + 1) /\ (j \in 1 .. Len(s) \/ j = Len(s) + 1)
      BY <2>2
    <3>2. CASE i \in 1 .. Len(s) /\ j \in 1 .. Len(s)
      <4>1. s[i].data \in Keyed /\ s[i].data = s[j].data
        BY <2>2, <3>2
      <4>2. QED
        BY <1>3, <3>2, <4>1
    <3>3. CASE i \in 1 .. Len(s) /\ j = Len(s) + 1
      <4>1. s[i].data = m /\ m \in Keyed
        BY <2>2, <2>3, <3>3
      <4>2. QED
        BY <2>6, <3>3, <4>1
    <3>4. CASE i = Len(s) + 1 /\ j \in 1 .. Len(s)
      <4>1. s[j].data = m /\ m \in Keyed
        BY <2>2, <2>3, <3>4
      <4>2. QED
        BY <2>6, <3>4, <4>1
    <3>5. QED
      BY <3>1, <3>2, <3>3, <3>4
  <2>8. GoodLog(new)
    BY <2>2, <2>7 DEF GoodLog, Items
  <2>9. QED
    BY <2>4, <2>5, <2>8
<1>6. QED
  BY <1>4, <1>5

LEMMA StoreBodyKeeps ==
  ASSUME NEW s, GoodLog(s), NEW body \in Bodies
  PROVE  /\ GoodLog(StoreBody(s, body)) /\ HasAll(StoreBody(s, body), body)
         /\ Grown(s, StoreBody(s, body))
<1>1. CASE \E m \in Messages : body = <<Item(m)>>
  <2>1. PICK m \in Messages : body = <<Item(m)>>
    BY <1>1
  <2>2. Len(body) = 1 /\ body[1] = Item(m)
    BY <2>1
  <2>3. StoreBody(s, body) = Store(s, Item(m))
    BY <2>2 DEF StoreBody
  <2>4. \A i \in 1 .. Len(body) : body[i].data = m
    BY <2>2, ItemFields
  <2>5. QED
    BY <2>3, <2>4, StoreKeeps DEF HasAll
<1>2. CASE \E m, n \in Messages : body = <<Item(m), Item(n)>>
  <2>1. PICK m \in Messages, n \in Messages : body = <<Item(m), Item(n)>>
    BY <1>2
  <2>2. Len(body) = 2 /\ body[1] = Item(m) /\ body[2] = Item(n)
    BY <2>1
  <2> DEFINE one == Store(s, Item(m))
             two == Store(one, Item(n))
  <2>3. StoreBody(s, body) = two
    BY <2>2 DEF StoreBody
  <2>4. GoodLog(one) /\ Has(one, m) /\ Grown(s, one)
    BY StoreKeeps
  <2> HIDE DEF one
  <2>5. GoodLog(two) /\ Has(two, n) /\ Grown(one, two)
    BY <2>4, StoreKeeps
  <2> HIDE DEF two
  <2>6. Len(s) \in Nat /\ Len(one) \in Nat /\ Len(two) \in Nat
    BY <2>4, <2>5 DEF GoodLog
  <2>7. Grown(s, two)
    BY <2>4, <2>5, <2>6 DEF Grown
  <2>8. Has(two, m)
    BY <2>4, <2>5, GrownHas DEF GoodLog
  <2>9. \A i \in 1 .. Len(body) : body[i].data = m \/ body[i].data = n
    BY <2>2, ItemFields
  <2>10. HasAll(two, body)
    BY <2>5, <2>9, <2>8 DEF HasAll
  <2>11. QED
    BY <2>3, <2>5, <2>10, <2>7
<1>3. QED
  BY <1>1, <1>2 DEF Bodies

LEMMA ChannelsAreNames == Channels \subseteq Names
<1> SUFFICES ASSUME NEW c \in Channels PROVE c \in Names
  OBVIOUS
<1>1. c \in Seq({"u", "e"})
  BY RestAssumption
<1>2. Len(c) \in 0 .. Len(c) /\ c = SubSeq(c, 1, Len(c))
  BY <1>1
<1>3. c \in Prefixes(c)
  BY <1>2, Zenon DEF Prefixes
<1>4. QED
  BY <1>3 DEF Names

(* Part 5: the steps.                                                      *)

LEMMA Moves ==
  ASSUME [Next]_vars
  PROVE  HttpMove \/ Finishes
<1>1. Serve => HttpMove
  <2> SUFFICES ASSUME Serve PROVE HttpMove
    OBVIOUS
  <2>1. \A r, a : Respond(r, a) => (\E b : Answer(b)) \/ UNCHANGED httpVars
    BY DEF Respond
  <2>2. \E r, a : Respond(r, a)
    BY DEF Serve, Publish
  <2>3. QED
    BY <2>1, <2>2 DEF HttpMove
<1>2. Begins => HttpMove
  BY DEF Begins, HttpMove
<1>3. Lifecycle \/ Network \/ Send => HttpMove
  BY DEF Lifecycle, Network, Send, HttpMove
<1>4. QED
  BY NextCases, <1>1, <1>2, <1>3 DEF HttpMove, Nothing

LEMMA HttpInvStep ==
  ASSUME HttpInv, [Next]_vars
  PROVE  HttpInv'
<1>1. CASE Finishes
  <2>1. stage = "returned" /\ stage' = "idle" /\ UNCHANGED <<net, ssl, held, wire>>
    BY <1>1 DEF Finishes, Finish
  <2>2. QED
    BY <2>1 DEF HttpInv, CleanBetweenRequests, Stages, Idle, Connected
<1>2. CASE HttpMove
  BY <1>2, HttpStep
<1>3. QED
  BY <1>1, <1>2, Moves

\* The same under the REST client, whose calls come one after the other: no
\* call meets what a failed one left on the connection.
THEOREM CleanUnderRest == Spec => []CleanBetweenRequests
<1>1. Init => HttpInv
  BY HttpStart DEF Init
<1>2. HttpInv => CleanBetweenRequests
  BY DEF HttpInv
<1>3. QED
  BY <1>1, <1>2, HttpInvStep, PTL DEF Spec

LEMMA NetworkStep ==
  ASSUME HttpCall
  PROVE  /\ stage \notin {"absent", "idle", "returned"}
         /\ stage' \notin {"absent", "idle"}
         /\ request' = request
<1>1. \/ Connect \/ Setup \/ Handshake \/ Read
      \/ \E keepLink \in BOOLEAN : Parse(keepLink)
  BY DEF HttpCall, ably_http_post, ably_http_get, ably_http_do, Chain
<1>2. stage \notin {"absent", "idle", "returned"}
  BY DEF HttpCall, Idle
<1>3. Connect \/ Setup \/ Handshake \/ Read =>
        stage' \notin {"absent", "idle"} /\ request' = request
  BY DEF Connect, Setup, Handshake, Read, Return
<1>4. (\E keepLink \in BOOLEAN : Parse(keepLink)) =>
        stage' \notin {"absent", "idle"} /\ request' = request
  <2> SUFFICES ASSUME NEW k \in BOOLEAN, Parse(k)
               PROVE  stage' \notin {"absent", "idle"} /\ request' = request
    OBVIOUS
  <2>1. stage' = "returned" /\ request' = request
    BY DEF Parse, parse_response_headers, Return
  <2>2. QED
    BY <2>1
<1>5. QED
  BY <1>1, <1>2, <1>3, <1>4

LEMMA RespondStep ==
  ASSUME NEW r, NEW a, Respond(r, a)
  PROVE  /\ UNCHANGED <<stage, request, response_buf, http_status, result, op, told>>
         /\ arrived' \subseteq arrived
         /\ wire' = wire \/ (wire' = a /\ request = r)
<1>1. CASE stage = "read" /\ request = r
  BY <1>1 DEF Respond, Answer
<1>2. CASE ~(stage = "read" /\ request = r)
  BY <1>2 DEF Respond, httpVars
<1>3. QED
  BY <1>1, <1>2

LEMMA ServeResponds == Serve => \E r \in arrived : \E a : Respond(r, a)
BY DEF Serve, Publish

LEMMA CallStep ==
  ASSUME HttpInv, CallInv, [Next]_vars
  PROVE  CallInv'
<1> USE DEF CallInv
<1>1. CASE Begins
  <2>1. PICK o, r : /\ GoodCall(o, r) /\ op' = o /\ request' = r
                    /\ stage' \in {"connect", "returned"} /\ arrived' = arrived
    BY <1>1 DEF Begins, Build
  <2>2. o # NoOp
    BY <2>1 DEF GoodCall, NoOp
  <2>3. QED
    BY <2>1, <2>2 DEF GoodCall, GoodRequest, NamesFit
<1>2. CASE Finishes
  BY <1>2 DEF Finishes, Finish, GoodRequest, NamesFit
<1>3. CASE Lifecycle
  <2>1. op = NoOp /\ op' = NoOp /\ stage' \in {"absent", "idle"} /\ arrived' = arrived
    BY <1>3 DEF Lifecycle, ably_http_client_create, ably_http_client_destroy
  <2>2. QED
    BY <2>1 DEF GoodRequest, NamesFit
<1>4. CASE Network
  <2>1. UNCHANGED <<op, arrived>>
    BY <1>4 DEF Network, restVars
  <2>2. QED
    BY <1>4, <2>1, NetworkStep DEF Network, GoodCall, GoodRequest, NamesFit
<1>5. CASE Send
  <2>1. PICK sent \in BOOLEAN : send_all(sent)
          /\ arrived' = {r \in arrived : r.what \in {"publish", "batch"}}
                          \cup (IF sent THEN {request} ELSE {})
          /\ op' = op
    BY <1>5 DEF Send
  <2>2. stage = "send" /\ stage' \in {"read", "returned"} /\ request' = request
    BY <2>1 DEF send_all, Return
  <2>3. \A r \in arrived' : r \in arrived \/ r = request
    BY <2>1
  <2>4. GoodCall(op, request)
    BY <2>2
  <2>5. QED
    BY <2>1, <2>2, <2>3, <2>4 DEF GoodCall, GoodRequest, NamesFit
<1>6. CASE Serve
  <2>1. UNCHANGED <<stage, request, op>> /\ arrived' \subseteq arrived
    BY <1>6, ServeResponds, RespondStep
  <2>2. QED
    BY <2>1 DEF GoodCall, GoodRequest, NamesFit
<1>7. CASE Nothing
  BY <1>7 DEF Nothing, httpVars, GoodCall, GoodRequest, NamesFit
<1>8. QED
  BY NextCases, <1>1, <1>2, <1>3, <1>4, <1>5, <1>6, <1>7

\* No log loses what it has.
Kept ==
  \A c \in Names : /\ Grown(log[c], log'[c])
                   /\ \A d : Has(log[c], d) => Has(log'[c], d)

LEMMA PublishLog ==
  ASSUME CallInv, LogInv, NEW r \in arrived, r.what \in {"publish", "batch"},
         NEW bad, Publish(r, bad)
  PROVE  /\ LogInv' /\ Kept
         /\ \A c \in Names : c \in r.names \ bad => HasAll(log'[c], r.body)
<1> DEFINE Items == {Item(d) : d \in Others \cup Messages}
           new(c) == IF c \in r.names \ bad THEN StoreBody(log[c], r.body) ELSE log[c]
<1>1. r.body \in Bodies
  BY DEF CallInv, GoodRequest
<1>2. log' = [c \in Names |-> new(c)]
  BY DEF Publish
<1>3. ASSUME NEW c \in Names
      PROVE  /\ GoodLog(new(c)) /\ Grown(log[c], new(c))
             /\ \A d : Has(log[c], d) => Has(new(c), d)
             /\ c \in r.names \ bad => HasAll(new(c), r.body)
  <2>1. GoodLog(log[c])
    BY DEF LogInv
  <2>2. Grown(log[c], log[c])
    BY <2>1 DEF Grown, GoodLog
  <2>3. GoodLog(new(c)) /\ Grown(log[c], new(c))
    BY <1>1, <2>1, <2>2, StoreBodyKeeps
  <2>4. \A d : Has(log[c], d) => Has(new(c), d)
    BY <2>1, <2>3, GrownHas DEF GoodLog
  <2>5. c \in r.names \ bad => HasAll(new(c), r.body)
    BY <1>1, <2>1, StoreBodyKeeps
  <2> HIDE DEF new
  <2>6. QED
    BY <2>3, <2>4, <2>5
<1>4. \A c \in Names : new(c) \in Seq(Items)
  BY <1>3 DEF GoodLog
<1> HIDE DEF new
<1>5. \A c \in Names : log'[c] = new(c)
  BY <1>2
<1>6. log' \in [Names -> Seq(Items)]
  BY <1>2, <1>4
<1>7. \A c \in Names : GoodLog(log'[c])
  BY <1>3, <1>5
<1>8. LogInv'
  BY <1>6, <1>7 DEF LogInv, GoodLog
<1>9. QED
  BY <1>3, <1>5, <1>8 DEF Kept

\* The answer to a publish in these entries, and a publish that is answered so.
Entries(order, bad) ==
  Acknowledgement([i \in DOMAIN order |-> [channel |-> order[i], error |-> order[i] \in bad]])

Published(r, a) ==
  \E bad : /\ Publish(r, bad) /\ (r.what = "publish" => bad = {})
           /\ \E order \in [1 .. Cardinality(r.names) -> r.names] : a = Entries(order, bad)

\* An answer that promises nothing, and what a request for history is answered.
Silent(r, a) == r.what \in {"publish", "batch"} => a.status = 500

Pages(r, a) ==
  r.what = "history" =>
    a = Refusal \/ \E name \in r.names, base \in PathSizes : a = HistoryPage(name, r.at, base)

LEMMA PublishResponds ==
  ASSUME NEW r, NEW bad, Publish(r, bad), r.what = "publish" => bad = {}
  PROVE  \E a : Respond(r, a) /\ Published(r, a)
<1>1. \E order \in [1 .. Cardinality(r.names) -> r.names] : Respond(r, Entries(order, bad))
  BY DEF Publish, Entries
<1>2. PICK order \in [1 .. Cardinality(r.names) -> r.names] : Respond(r, Entries(order, bad))
  BY <1>1
<1>3. Published(r, Entries(order, bad))
  BY DEF Published
<1>4. QED
  BY <1>2, <1>3

LEMMA ServeCases ==
  ASSUME Serve
  PROVE  \E r \in arrived : \E a :
           /\ Respond(r, a) /\ Pages(r, a)
           /\ \/ log' = log /\ Silent(r, a)
              \/ r.what \in {"publish", "batch"} /\ Published(r, a)
<1>1. PICK r \in arrived :
        \/ Respond(r, Refusal) /\ UNCHANGED log
        \/ r.what = "publish" /\ Publish(r, {})
        \/ r.what = "batch" /\ \E bad \in SUBSET r.names : Publish(r, bad)
        \/ /\ r.what = "history"
           /\ \E name \in r.names, base \in PathSizes : Respond(r, HistoryPage(name, r.at, base))
           /\ UNCHANGED log
        \/ /\ r.what \notin {"publish", "batch", "history"}
           /\ \E base \in PathSizes : Respond(r, SomePage(base))
           /\ UNCHANGED log
  BY DEF Serve
<1>2. Silent(r, Refusal) /\ Pages(r, Refusal)
  BY DEF Refusal, Silent, Pages
<1>3. CASE r.what = "publish" /\ Publish(r, {})
  BY <1>3, PublishResponds DEF Pages
<1>4. CASE r.what = "batch" /\ \E bad \in SUBSET r.names : Publish(r, bad)
  BY <1>4, PublishResponds DEF Pages
<1>5. CASE Respond(r, Refusal) /\ UNCHANGED log
  BY <1>2, <1>5
<1>6. CASE /\ r.what = "history"
           /\ \E name \in r.names, base \in PathSizes : Respond(r, HistoryPage(name, r.at, base))
           /\ UNCHANGED log
  BY <1>6 DEF Silent, Pages
<1>7. CASE /\ r.what \notin {"publish", "batch", "history"}
           /\ \E base \in PathSizes : Respond(r, SomePage(base))
           /\ UNCHANGED log
  BY <1>7 DEF Silent, Pages
<1>8. QED
  BY <1>1, <1>3, <1>4, <1>5, <1>6, <1>7

LEMMA LogStep ==
  ASSUME CallInv, LogInv, [Next]_vars
  PROVE  LogInv' /\ Kept
<1>1. log' = log => LogInv' /\ Kept
  <2>1. \A c \in Names : Grown(log[c], log[c])
    BY DEF LogInv, GoodLog, Grown
  <2>2. QED
    BY <2>1 DEF LogInv, GoodLog, Kept
<1>2. CASE Serve
  BY <1>1, <1>2, ServeCases, PublishLog DEF Published
<1>3. Begins \/ Finishes \/ Lifecycle \/ Network \/ Send => log' = log
  BY DEF Begins, Finishes, Finish, Lifecycle, Network, restVars, Send
<1>4. QED
  BY NextCases, <1>1, <1>2, <1>3 DEF Nothing

LEMMA StartsGood == Init => CallInv /\ LogInv
<1> SUFFICES ASSUME Init PROVE CallInv /\ LogInv
  OBVIOUS
<1> DEFINE Others1 == [data : Others, id : {None}]
           Items == {Item(d) : d \in Others \cup Messages}
<1>1. CallInv
  BY DEF Init, HttpInit, CallInv, NoOp
<1>2. log = Stored /\ Stored \in [Names -> Seq(Others1)]
  BY StoredAssumption DEF Init
<1>3. ASSUME NEW e \in Others1
      PROVE  e \in Items /\ e.data \notin Keyed
  <2>1. e.data \in Others /\ e.data \notin Keyed /\ e = [data |-> e.data, id |-> None]
    BY StoredAssumption DEF Messages
  <2>2. e = Item(e.data)
    BY <2>1 DEF Item, IdOf
  <2>3. QED
    BY <2>1, <2>2
<1> HIDE DEF Others1, Items
<1>4. ASSUME NEW c \in Names
      PROVE  log[c] \in Seq(Items) /\ \A k \in 1 .. Len(log[c]) : log[c][k].data \notin Keyed
  <2>1. log[c] \in Seq(Others1)
    BY <1>2
  <2>2. \A k \in 1 .. Len(log[c]) : log[c][k] \in Others1
    BY <2>1
  <2>3. log[c] \in Seq(Items)
    BY <1>3, <2>1, <2>2
  <2>4. QED
    BY <1>3, <2>2, <2>3
<1>5. \A c \in Names : GoodLog(log[c])
  BY <1>4 DEF GoodLog, Items
<1>6. log \in [Names -> Seq(Items)]
  BY <1>2, <1>4
<1>7. QED
  BY <1>1, <1>5, <1>6 DEF LogInv, Items

\* A message published with an id is in a channel's log once, however often the
\* client and the network repeated the request that carries it.
THEOREM StoredOnce == Spec => []KeyedOnce
<1> DEFINE IInv == HttpInv /\ CallInv /\ LogInv
<1>1. Init => IInv
  BY HttpStart, StartsGood DEF Init
<1>2. IInv /\ [Next]_vars => IInv'
  BY HttpInvStep, CallStep, LogStep
<1>3. IInv => KeyedOnce
  BY DEF LogInv, GoodLog, KeyedOnce
<1> HIDE DEF IInv
<1>4. QED
  BY <1>1, <1>2, <1>3, PTL DEF Spec

(* Part 6: what the application was told.                                  *)

LEMMA HasAllKept ==
  ASSUME Kept, NEW c \in Names, NEW body, HasAll(log[c], body)
  PROVE  HasAll(log'[c], body)
BY DEF Kept, HasAll

\* A confirmation stays true.
LEMMA ConfirmsKept ==
  ASSUME Kept, NEW a, NEW r, Confirms(log, a, r),
         r.what \in {"publish", "batch"} => r.names \subseteq Names
  PROVE  Confirms(log', a, r)
<1> SUFFICES ASSUME Success(a.status)
             PROVE  /\ r.what = "publish" => \A c \in r.names : HasAll(log'[c], r.body)
                    /\ r.what = "batch" =>
                         /\ a.body.entries \in Seq([channel : r.names, error : BOOLEAN])
                         /\ \A i \in 1 .. Len(a.body.entries) :
                              ~a.body.entries[i].error =>
                                HasAll(log'[a.body.entries[i].channel], r.body)
  BY DEF Confirms
<1>1. r.what = "publish" => \A c \in r.names : HasAll(log'[c], r.body)
  BY HasAllKept DEF Confirms
<1>2. ASSUME r.what = "batch"
      PROVE  a.body.entries \in Seq([channel : r.names, error : BOOLEAN])
  BY <1>2 DEF Confirms
<1>3. ASSUME r.what = "batch", NEW i \in 1 .. Len(a.body.entries), ~a.body.entries[i].error
      PROVE  HasAll(log'[a.body.entries[i].channel], r.body)
  <2> DEFINE e == a.body.entries
             Answers == [channel : r.names, error : BOOLEAN]
  <2>4. \A x \in Answers : x.channel \in Names
    BY <1>3
  <2>5. e \in Seq(Answers) /\ i \in 1 .. Len(e)
    BY <1>2, <1>3
  <2> HIDE DEF Answers
  <2>6. e[i] \in Answers
    BY <2>5
  <2>1. a.body.entries[i].channel \in Names
    BY <2>4, <2>6
  <2>2. HasAll(log[a.body.entries[i].channel], r.body)
    BY <1>3 DEF Confirms
  <2>3. QED
    BY <2>1, <2>2, HasAllKept
<1>4. QED
  BY <1>1, <1>2, <1>3

\* The answer to a publish is true when it is given.
LEMMA PublishedConfirms ==
  ASSUME NamesFit, CallInv, LogInv, NEW r \in arrived, NEW a,
         r.what \in {"publish", "batch"}, Published(r, a)
  PROVE  Confirms(log', a, r)
<1>1. r.names \subseteq Channels /\ r.names \subseteq Names
  BY ChannelsAreNames DEF CallInv, GoodRequest
<1>2. PICK bad : /\ Publish(r, bad) /\ (r.what = "publish" => bad = {})
                 /\ \E order \in [1 .. Cardinality(r.names) -> r.names] :
                      a = Entries(order, bad)
  BY DEF Published
<1>3. PICK order \in [1 .. Cardinality(r.names) -> r.names] : a = Entries(order, bad)
  BY <1>2
<1>4. \A c \in r.names \ bad : HasAll(log'[c], r.body)
  BY <1>1, <1>2, PublishLog
<1>5. Cardinality(r.names) \in Nat
  BY <1>1, RestAssumption, FS_Subset, FS_CardinalityType
<1> DEFINE e == a.body.entries
<1>6. e = [i \in 1 .. Cardinality(r.names) |->
             [channel |-> order[i], error |-> order[i] \in bad]]
  BY <1>3 DEF Entries, Acknowledgement
<1> DEFINE Answers == [channel : r.names, error : BOOLEAN]
           n == Cardinality(r.names)
           entry(i) == [channel |-> order[i], error |-> order[i] \in bad]
<1>12. \A i \in 1 .. n : /\ entry(i) \in Answers
                         /\ ~entry(i).error => entry(i).channel \in r.names \ bad
  <2> TAKE i \in 1 .. n
  <2>1. order[i] \in r.names /\ (order[i] \in bad) \in BOOLEAN
    OBVIOUS
  <2>2. entry(i) \in Answers
    BY <2>1
  <2>3. entry(i).error = (order[i] \in bad) /\ entry(i).channel = order[i]
    BY Zenon
  <2>4. ~entry(i).error => order[i] \notin bad
    BY <2>3
  <2>5. QED
    BY <2>1, <2>2, <2>3, <2>4
<1> HIDE DEF e, n, entry, Answers
<1>13. e = [i \in 1 .. n |-> entry(i)] /\ n \in Nat
  BY <1>5, <1>6 DEF e, n, entry
<1>7. e \in Seq(Answers) /\ Len(e) = n
  BY <1>12, <1>13
<1>8. \A i \in 1 .. Len(e) : ~e[i].error => e[i].channel \in r.names \ bad
  BY <1>7, <1>12, <1>13
<1>9. \A i \in 1 .. Len(e) : ~e[i].error => HasAll(log'[e[i].channel], r.body)
  BY <1>4, <1>8
<1>10. r.what = "publish" => \A c \in r.names : HasAll(log'[c], r.body)
  BY <1>2, <1>4
<1>11. QED
  BY <1>7, <1>9, <1>10 DEF Confirms, e, Answers

LEMMA NetworkAnswer ==
  ASSUME AnswerInv, HttpCall, log' = log
  PROVE  AnswerInv'
<1>1. \/ Connect \/ Setup \/ Handshake \/ Read
      \/ \E keepLink \in BOOLEAN : Parse(keepLink)
  BY DEF HttpCall, ably_http_post, ably_http_get, ably_http_do, Chain
<1>2. CASE Connect \/ Setup \/ Handshake
  <2>1. (wire' = wire \/ wire' = None) /\ request' = request /\ stage' # "parse"
    BY <1>2 DEF Connect, Setup, Handshake, Close, Return
  <2>2. stage' = "returned" => result' = "ERR_NETWORK"
    BY <1>2 DEF Connect, Setup, Handshake, Close, Return
  <2>3. QED
    BY <2>1, <2>2 DEF AnswerInv
<1>3. CASE Read
  <2>1. CASE \E part \in Parts :
               /\ wire = None => part = "none"
               /\ response_buf' = [answer |-> wire, part |-> part]
               /\ stage' = "parse" /\ UNCHANGED <<net, ssl, wire, result>>
    <3>1. PICK part \in Parts :
            /\ wire = None => part = "none"
            /\ response_buf' = [answer |-> wire, part |-> part]
            /\ stage' = "parse" /\ wire' = wire
      BY <2>1
    <3>2. request' = request
      BY <1>3 DEF Read
    <3>3. response_buf'.answer = wire /\ response_buf'.part = part
      BY <3>1
    <3>4. wire # None => Confirms(log, wire, request)
      BY DEF AnswerInv
    <3>5. QED
      BY <3>1, <3>2, <3>3, <3>4 DEF AnswerInv
  <2>2. CASE Close /\ Return("ERR_NETWORK")
    <3>1. wire' = None /\ stage' = "returned" /\ result' = "ERR_NETWORK"
      BY <2>2 DEF Close, Return
    <3>2. QED
      BY <3>1 DEF AnswerInv
  <2>3. QED
    BY <1>3, <2>1, <2>2 DEF Read
<1>4. CASE \E keepLink \in BOOLEAN : Parse(keepLink)
  <2>1. /\ stage = "parse" /\ stage' = "returned" /\ wire' = None
        /\ UNCHANGED <<request, response_buf>>
        /\ http_status' = IF response_buf.part = "none" THEN 0 ELSE response_buf.answer.status
        /\ result' = IF response_buf.part \in {"headers", "whole"} THEN "OK" ELSE "ERR_PROTOCOL"
    BY <1>4 DEF Parse, parse_response_headers, Return, Close
  <2>2. result' = "OK" => response_buf.part # "none"
    BY <2>1
  <2>3. QED
    BY <2>1, <2>2 DEF AnswerInv
<1>5. QED
  BY <1>1, <1>2, <1>3, <1>4

LEMMA ServeAnswer ==
  ASSUME NamesFit, HttpInv, CallInv, LogInv, AnswerInv, Serve
  PROVE  AnswerInv'
<1>0. PICK r \in arrived : \E a :
        /\ Respond(r, a)
        /\ \/ log' = log /\ Silent(r, a)
           \/ r.what \in {"publish", "batch"} /\ Published(r, a)
  BY ServeCases
<1>1. PICK a :
        /\ Respond(r, a)
        /\ \/ log' = log /\ Silent(r, a)
           \/ r.what \in {"publish", "batch"} /\ Published(r, a)
  BY <1>0
<1>2. /\ UNCHANGED <<stage, request, response_buf, http_status, result, op, told>>
      /\ wire' = wire \/ (wire' = a /\ request = r)
  BY <1>1, RespondStep
<1>3. Kept
  BY LogStep DEF Next
<1>4. Confirms(log', a, r)
  <2>1. CASE log' = log /\ Silent(r, a)
    <3>1. a.status = 500 => ~Success(a.status)
      BY DEF Success
    <3>2. QED
      BY <2>1, <3>1 DEF Silent, Confirms
  <2>2. CASE r.what \in {"publish", "batch"} /\ Published(r, a)
    BY <2>2, PublishedConfirms
  <2>3. QED
    BY <1>1, <2>1, <2>2
<1>5. wire # None \/ stage \in {"parse", "returned"} =>
        (request.what \in {"publish", "batch"} => request.names \subseteq Names)
  <2>1. wire # None \/ stage \in {"parse", "returned"} => stage \notin {"absent", "idle"}
    BY DEF HttpInv, CleanBetweenRequests, Idle
  <2>2. QED
    BY <2>1, ChannelsAreNames DEF CallInv, GoodCall, GoodRequest
<1>6. wire # None => Confirms(log', wire, request)
  BY <1>3, <1>5, ConfirmsKept DEF AnswerInv
<1>7. stage = "parse" /\ response_buf.part # "none" =>
        Confirms(log', response_buf.answer, request)
  BY <1>3, <1>5, ConfirmsKept DEF AnswerInv
<1>8. stage = "returned" /\ result = "OK" =>
        /\ http_status = response_buf.answer.status
        /\ Confirms(log', response_buf.answer, request)
  BY <1>3, <1>5, ConfirmsKept DEF AnswerInv
<1>9. QED
  BY <1>2, <1>4, <1>6, <1>7, <1>8 DEF AnswerInv

LEMMA AnswerStep ==
  ASSUME NamesFit, HttpInv, CallInv, LogInv, AnswerInv, [Next]_vars
  PROVE  AnswerInv'
<1>1. stage \in {"absent", "idle", "returned"} => wire = None
  BY DEF HttpInv, CleanBetweenRequests, Idle
<1>2. CASE Begins
  <2>1. /\ wire' = None /\ stage' # "parse"
        /\ stage' = "returned" => result' = "ERR_NETWORK"
    BY <1>1, <1>2 DEF Begins, Build, Idle
  <2>2. QED
    BY <2>1 DEF AnswerInv
<1>3. CASE Finishes
  BY <1>1, <1>3 DEF Finishes, Finish, AnswerInv
<1>4. CASE Lifecycle
  <2>1. wire' = None /\ stage' \in {"absent", "idle"}
    BY <1>1, <1>4 DEF Lifecycle, ably_http_client_create, ably_http_client_destroy, Idle
  <2>2. QED
    BY <2>1 DEF AnswerInv
<1>5. CASE Network
  BY <1>5, NetworkAnswer DEF Network, restVars
<1>6. CASE Send
  <2>1. /\ wire' = wire \/ wire' = None
        /\ log' = log /\ request' = request /\ stage' \in {"read", "returned"}
        /\ stage' = "returned" => result' = "ERR_NETWORK"
    BY <1>6 DEF Send, send_all, Close, Return
  <2>2. QED
    BY <2>1 DEF AnswerInv
<1>7. CASE Serve
  BY <1>7, ServeAnswer
<1>8. CASE Nothing
  BY <1>8 DEF Nothing, httpVars, AnswerInv
<1>9. QED
  BY NextCases, <1>2, <1>3, <1>4, <1>5, <1>6, <1>7, <1>8

\* What the application is told by a call that returned ABLY_OK is there.
LEMMA TellsTheTruth ==
  ASSUME NamesFit, CallInv, AnswerInv, Finishes
  PROVE  \A t \in told' \ told : t.channel \in Channels /\ Has(log[t.channel], t.data)
<1>1. stage = "returned" /\ GoodCall(op, request)
  BY DEF Finishes, Finish, CallInv
<1>2. ASSUME NEW c, HasAll(log[c], request.body), NEW t \in Told(c, request.body)
      PROVE  t.channel = c /\ Has(log[c], t.data)
  <2>1. PICK i \in 1 .. Len(request.body) :
          t = [channel |-> c, data |-> request.body[i].data]
    BY <1>2 DEF Told
  <2>2. QED
    BY <1>2, <2>1 DEF HasAll
<1>3. StatusVerdict = "OK" => Confirms(log, response_buf.answer, request)
                              /\ Success(response_buf.answer.status)
  BY <1>1 DEF StatusVerdict, AnswerInv, Success
<1>4. ASSUME NEW name \in PublishNames, EndPublish(name)
      PROVE  \A t \in told' \ told : t.channel \in Channels /\ Has(log[t.channel], t.data)
  <2>1. /\ request.what = "publish" /\ op.channel \in Channels
        /\ request.names = {op.channel}
    BY <1>1, <1>4 DEF EndPublish, GoodCall
  <2>2. StatusVerdict = "OK" => HasAll(log[op.channel], request.body)
    BY <1>3, <2>1 DEF Confirms
  <2>3. \A t \in told' \ told : StatusVerdict = "OK" /\ t \in Told(op.channel, request.body)
    BY <1>4 DEF EndPublish
  <2>4. QED
    BY <1>2, <2>1, <2>2, <2>3
<1>5. ASSUME EndBatch
      PROVE  \A t \in told' \ told : t.channel \in Channels /\ Has(log[t.channel], t.data)
  <2> DEFINE results == IF StatusVerdict = "OK" THEN BatchResults ELSE <<>>
             entries == response_buf.answer.body.entries
             Answers == [channel : request.names, error : BOOLEAN]
  <2>1. request.what = "batch" /\ request.names \subseteq Channels
    BY <1>1, <1>5 DEF EndBatch, GoodCall
  <2>2. ASSUME NEW t \in told' \ told
        PROVE  \E i \in 1 .. Len(results) :
                 ~results[i].error /\ t \in Told(results[i].channel, request.body)
    BY <1>5 DEF EndBatch
  <2>3. ASSUME NEW i \in 1 .. Len(results), ~results[i].error
        PROVE  /\ results[i].channel \in Channels
               /\ HasAll(log[results[i].channel], request.body)
    <3>1. StatusVerdict = "OK" /\ results = BatchResults
      BY <2>3
    <3>2. /\ entries \in Seq(Answers)
          /\ \A k \in 1 .. Len(entries) :
               ~entries[k].error => HasAll(log[entries[k].channel], request.body)
      BY <1>3, <2>1, <3>1 DEF Confirms
    <3>3. results = <<>> \/ results =
            SubSeq(entries, 1, IF Len(entries) < ResultsMax THEN Len(entries) ELSE ResultsMax)
      BY <3>1 DEF BatchResults, BodyRead
    <3> HIDE DEF results, entries, Answers
    <3>4. i \in 1 .. Len(entries) /\ results[i] = entries[i]
      BY <2>3, <3>2, <3>3, RestAssumption
    <3>5. entries[i] \in Answers
      BY <3>2, <3>4
    <3>6. entries[i].channel \in request.names
      BY <3>5 DEF Answers
    <3>7. QED
      BY <2>1, <2>3, <3>2, <3>4, <3>6
  <2> HIDE DEF results
  <2>4. QED
    BY <1>2, <2>2, <2>3
<1>6. QED
  BY <1>4, <1>5 DEF Finishes

LEMMA ToldStep ==
  ASSUME NamesFit, CallInv, LogInv, AnswerInv, ToldInv, [Next]_vars
  PROVE  ToldInv'
<1>1. Kept
  BY LogStep
<1>2. \A t \in told : t.channel \in Channels /\ Has(log'[t.channel], t.data)
  BY <1>1, ChannelsAreNames DEF ToldInv, Kept
<1>3. CASE Finishes
  <2>1. log' = log
    BY <1>3 DEF Finishes, Finish
  <2>2. QED
    BY <1>2, <1>3, <2>1, TellsTheTruth DEF ToldInv
<1>4. Begins \/ Lifecycle \/ Network \/ Send => told' = told
  BY DEF Begins, Lifecycle, Network, restVars, Send
<1>5. Serve => told' = told
  BY ServeResponds, RespondStep
<1>6. told' = told => ToldInv'
  BY <1>2 DEF ToldInv
<1>7. QED
  BY NextCases, <1>3, <1>4, <1>5, <1>6 DEF Nothing

\* What a publish that returned ABLY_OK carried is in its channel's log, when
\* every name fits the buffer the publish functions encode it in.  Without that it
\* is false: LongNames of MCRestClient.
THEOREM ToldIsTrue ==
  ASSUME NamesFit
  PROVE  Spec => []ToldIsStored
<1> DEFINE IInv == HttpInv /\ CallInv /\ LogInv /\ AnswerInv /\ ToldInv
<1>1. Init => IInv
  <2>1. Init => AnswerInv /\ ToldInv
    BY DEF Init, HttpInit, AnswerInv, ToldInv
  <2>2. QED
    BY <2>1, HttpStart, StartsGood DEF Init
<1>2. IInv /\ [Next]_vars => IInv'
  BY HttpInvStep, CallStep, LogStep, AnswerStep, ToldStep
<1>3. IInv => ToldIsStored
  BY DEF ToldInv, Has, ToldIsStored
<1> HIDE DEF IInv
<1>4. QED
  BY <1>1, <1>2, <1>3, PTL DEF Spec

(* Part 7: the pages of a history.                                         *)

PagedFits == url_encode_channel(Paged, NameEnc) = Paged

FirstLine(base) == <<Link("first", Paged, 1, base)>>
NextLine(at, base) == <<Link("next", Paged, at, base)>>

\* The answer a ends its links with one to the position at, if any is left.
LinksTo(a, at) ==
  \E base \in PathSizes :
    \/ a.body.next = <<>> /\ a.links = <<FirstLine(base)>>
    \/ /\ a.body.next = NextLine(at, base)
       /\ a.links = <<FirstLine(base), NextLine(at, base)>>

\* The answer a is an error, or the page of the log l from a position on.
PageOf(l, a, at) ==
  a.status # 500 =>
    \E to \in 0 .. Len(l) :
      /\ at <= to + 1
      /\ a.body.items = SubSeq(l, at, to)
      /\ LinksTo(a, to + 1)

\* What the application has got, and where it will go on.
GotInv ==
  /\ pager.channel = Paged /\ PagesInOrder /\ pager.got \in Seq({Item(d) : d \in Others \cup Messages})
  /\ ~pager.done =>
       \/ pager.cursor = <<>> /\ pager.got = <<>>
       \/ pager.cursor = << [name |-> Paged, from |-> Len(pager.got) + 1] >>

\* A request for history in progress asks for the rest ...
AskInv ==
  op.name = "history" =>
    /\ ~pager.done
    /\ request.fn = "get" /\ request.what = "history"
    /\ request.names = {Paged} /\ request.at = Len(pager.got) + 1

\* ... and what comes back is a page of the log, also when it has grown since.
PageInv ==
  op.name = "history" =>
    /\ wire # None => PageOf(log[Paged], wire, request.at)
    /\ stage = "parse" /\ response_buf.part # "none" =>
         PageOf(log[Paged], response_buf.answer, request.at)
    /\ stage = "returned" /\ result = "OK" =>
         /\ http_status = response_buf.answer.status
         /\ PageOf(log[Paged], response_buf.answer, request.at)
         /\ link_header = KeptLinks(response_buf.answer.links)

LEMMA PagedLog ==
  ASSUME LogInv
  PROVE  Paged \in Names /\ log[Paged] \in Seq({Item(d) : d \in Others \cup Messages})
BY ChannelsAreNames, RestAssumption DEF LogInv

LEMMA SameSub ==
  ASSUME NEW X, NEW Y, NEW s \in Seq(X), NEW t \in Seq(Y), Grown(s, t),
         NEW to \in 0 .. Len(s), NEW at \in Nat \ {0}
  PROVE  SubSeq(t, at, to) = SubSeq(s, at, to) /\ to \in 0 .. Len(t)
<1>1. Len(s) \in Nat /\ Len(t) \in Nat
  OBVIOUS
<1>2. \A i \in at .. to : t[i] = s[i]
  BY <1>1 DEF Grown
<1>3. to \in 0 .. Len(t)
  BY <1>1 DEF Grown
<1>4. SubSeq(t, at, to) = [i \in 1 .. to - at + 1 |-> t[i + at - 1]]
  BY <1>1, <1>3
<1>5. SubSeq(s, at, to) = [i \in 1 .. to - at + 1 |-> s[i + at - 1]]
  BY <1>1
<1>6. \A i \in 1 .. to - at + 1 : i + at - 1 \in at .. to
  OBVIOUS
<1>7. [i \in 1 .. to - at + 1 |-> t[i + at - 1]] = [i \in 1 .. to - at + 1 |-> s[i + at - 1]]
  BY <1>2, <1>6
<1>8. QED
  BY <1>3, <1>4, <1>5, <1>7

LEMMA PageKept ==
  ASSUME NEW X, NEW Y, NEW l \in Seq(X), NEW m \in Seq(Y), Grown(l, m),
         NEW at \in Nat \ {0}, NEW a, PageOf(l, a, at)
  PROVE  PageOf(m, a, at)
<1> SUFFICES ASSUME a.status # 500
             PROVE  \E to \in 0 .. Len(m) :
                      /\ at <= to + 1
                      /\ a.body.items = SubSeq(m, at, to)
                      /\ LinksTo(a, to + 1)
  BY DEF PageOf
<1>1. PICK to \in 0 .. Len(l) :
        /\ at <= to + 1
        /\ a.body.items = SubSeq(l, at, to)
        /\ LinksTo(a, to + 1)
  BY DEF PageOf
<1>2. SubSeq(m, at, to) = SubSeq(l, at, to) /\ to \in 0 .. Len(m)
  BY SameSub
<1>3. QED
  BY <1>1, <1>2

\* A page that the service cuts is a page of its log.
LEMMA PageIs ==
  ASSUME LogInv, NEW at \in Nat \ {0}, at <= Len(log[Paged]) + 1, NEW base \in PathSizes
  PROVE  PageOf(log[Paged], HistoryPage(Paged, at, base), at)
<1> DEFINE l == log[Paged]
           a == HistoryPage(Paged, at, base)
           last == at + PageSize > Len(l)
           to == IF last THEN Len(l) ELSE at + PageSize - 1
<1>1. Len(l) \in Nat /\ PageSize \in Nat \ {0}
  BY PagedLog, RestAssumption
<1>2. to \in 0 .. Len(l) /\ at <= to + 1 /\ (~last => at + PageSize = to + 1)
  BY <1>1
<1>3. /\ a.body.items = SubSeq(l, at, to)
      /\ a.body.next = IF last THEN <<>> ELSE NextLine(at + PageSize, base)
      /\ a.links = IF last THEN << FirstLine(base) >>
                   ELSE <<FirstLine(base), NextLine(at + PageSize, base)>>
  BY DEF HistoryPage, FirstLine, NextLine
<1> HIDE DEF l, a, last, to
<1>4. LinksTo(a, to + 1)
  BY <1>2, <1>3 DEF LinksTo
<1>5. PageOf(l, a, at)
  BY <1>2, <1>3, <1>4 DEF PageOf
<1>6. QED
  BY <1>5 DEF l, a

LEMMA LinkIs ==
  ASSUME NEW rel, NEW at, NEW base \in PathSizes
  PROVE  /\ Link(rel, Paged, at, base).rel = rel
         /\ Link(rel, Paged, at, base).at = [name |-> Paged, from |-> at]
         /\ Link(rel, Paged, at, base).path \in Nat
         /\ Link(rel, Paged, at, base).size \in Nat
<1>1. Paged \in Seq({"u", "e"})
  BY RestAssumption
<1>2. Cardinality({k \in 1 .. Len(Paged) : Paged[k] = "e"}) \in Nat
  <2>1. IsFiniteSet(1 .. Len(Paged))
    BY <1>1, FS_Interval
  <2>2. QED
    BY <2>1, FS_Subset, FS_CardinalityType
<1>3. base + EncodedSize(Paged) \in Nat /\ base + EncodedSize(Paged) + 2 \in Nat
  BY <1>1, <1>2, RestAssumption DEF EncodedSize
<1>4. QED
  BY <1>3 DEF Link

\* Of a header whose last line is one link the whole link is kept, if it fits.
LEMMA KeptOne ==
  ASSUME NEW k, k.size \in Nat, NEW lines,
         lines = << <<k>> >> \/ \E f : lines = <<f, <<k>>>>
  PROVE  KeptLinks(lines) = IF k.size < LinkMax THEN <<k>> ELSE <<>>
<1> DEFINE value == IF lines = <<>> THEN <<>> ELSE lines[Len(lines)]
           size == CHOOSE s : s = [n \in 0 .. Len(value) |->
                              IF n = 0 THEN 0 ELSE s[n - 1] + value[n].size]
           kept == {n \in 0 .. Len(value) : size[n] < LinkMax}
           best == CHOOSE n \in kept : \A j \in kept : j <= n
<1>1. value = <<k>> /\ Len(value) = 1 /\ value[1] = k
  <2>1. CASE lines = << <<k>> >>
    BY <2>1
  <2>2. CASE \E f : lines = <<f, <<k>>>>
    <3>1. PICK f : lines = <<f, <<k>>>>
      BY <2>2
    <3>2. lines # <<>> /\ Len(lines) = 2 /\ lines[2] = <<k>>
      BY <3>1
    <3>3. value = <<k>>
      BY <3>2
    <3>4. QED
      BY <3>3
  <2>3. QED
    BY <2>1, <2>2
<1>2. KeptLinks(lines) = SubSeq(value, 1, best)
  BY DEF KeptLinks
<1> HIDE DEF value
<1>3. size = [n \in 0 .. Len(value) |-> IF n = 0 THEN 0 ELSE size[n - 1] + value[n].size]
  <2> DEFINE t == [n \in 0 .. 1 |-> IF n = 0 THEN 0 ELSE k.size]
  <2>1. t = [n \in 0 .. Len(value) |-> IF n = 0 THEN 0 ELSE t[n - 1] + value[n].size]
    BY <1>1
  <2>2. QED
    BY <2>1
<1> HIDE DEF size
<1>4. size[0] = 0 /\ size[1] = k.size
  BY <1>1, <1>3
<1>5. LinkMax \in Nat \ {0}
  BY HttpAssumption
<1>6. kept = IF k.size < LinkMax THEN {0, 1} ELSE {0}
  BY <1>1, <1>4, <1>5
<1>7. best = IF k.size < LinkMax THEN 1 ELSE 0
  BY <1>6
<1> HIDE DEF kept, best
<1>8. SubSeq(<<k>>, 1, 1) = <<k>> /\ SubSeq(<<k>>, 1, 0) = <<>>
  <2>1. <<k>> \in Seq({k}) /\ Len(<<k>>) = 1 /\ <<k>>[1] = k
    OBVIOUS
  <2>2. SubSeq(<<k>>, 1, 1) = [i \in 1 .. 1 |-> <<k>>[i + 1 - 1]]
    BY <2>1
  <2>3. [i \in 1 .. 1 |-> <<k>>[i + 1 - 1]] = [i \in 1 .. 1 |-> k]
    BY <2>1
  <2>4. [i \in 1 .. 1 |-> k] = <<k>>
    OBVIOUS
  <2>5. SubSeq(<<k>>, 1, 0) = <<>>
    OBVIOUS
  <2>6. SubSeq(<<k>>, 1, 1) = <<k>>
    BY <2>2, <2>3, <2>4
  <2>7. QED
    BY <2>5, <2>6
<1>9. QED
  BY <1>1, <1>2, <1>7, <1>8

LEMMA CursorOfOne ==
  ASSUME NEW k
  PROVE  /\ NextCursor(<<>>) = <<>>
         /\ NextCursor(<<k>>) = IF k.rel = "next" /\ k.path < CursorMax - 1
                                THEN <<k.at>> ELSE <<>>
<1>1. Len(<<>>) = 0 /\ Len(<<k>>) = 1 /\ <<k>>[1] = k
  OBVIOUS
<1>2. NextCursor(<<>>) = <<>>
  BY <1>1 DEF NextCursor
<1>3. ASSUME NEW s, Len(s) = 1, s[1] = k
      PROVE  NextCursor(s) = IF k.rel = "next" /\ k.path < CursorMax - 1
                             THEN <<k.at>> ELSE <<>>
  <2>1. (\E i \in 1 .. Len(s) : s[i].rel = "next") <=> k.rel = "next"
    BY <1>3
  <2>2. QED
    BY <1>3, <2>1 DEF NextCursor
<1>4. NextCursor(<<k>>) = IF k.rel = "next" /\ k.path < CursorMax - 1
                          THEN <<k.at>> ELSE <<>>
  BY <1>1, <1>3
<1>5. QED
  BY <1>2, <1>4

\* The cursor out of a page's header: none on the last one, on the others the
\* position behind the page, if its link fits.
CursorFrom(next, cursor) ==
  \/ next = <<>> /\ cursor = <<>>
  \/ next # <<>> /\ Fits(next[1]) /\ cursor = <<next[1].at>>
  \/ next # <<>> /\ ~Fits(next[1]) /\ cursor = <<>>

LEMMA CursorIs ==
  ASSUME NEW a, NEW at \in Nat, LinksTo(a, at), NEW cursor,
         cursor = NextCursor(KeptLinks(a.links))
  PROVE  /\ CursorFrom(a.body.next, cursor)
         /\ cursor = <<>> \/ cursor = << [name |-> Paged, from |-> at] >>
<1>1. PICK base \in PathSizes :
        \/ a.body.next = <<>> /\ a.links = <<FirstLine(base)>>
        \/ /\ a.body.next = NextLine(at, base)
           /\ a.links = <<FirstLine(base), NextLine(at, base)>>
  BY DEF LinksTo
<1> DEFINE f == Link("first", Paged, 1, base)
           k == Link("next", Paged, at, base)
<1>2. /\ f.rel = "first" /\ f.size \in Nat
      /\ k.rel = "next" /\ k.at = [name |-> Paged, from |-> at] /\ k.size \in Nat
  <2>1. f.rel = "first" /\ f.size \in Nat
    BY LinkIs
  <2>2. k.rel = "next" /\ k.at = [name |-> Paged, from |-> at] /\ k.size \in Nat
    BY LinkIs
  <2> HIDE DEF f, k
  <2>3. QED
    BY <2>1, <2>2
<1>3. FirstLine(base) = <<f>> /\ NextLine(at, base) = <<k>>
  BY DEF FirstLine, NextLine
<1> HIDE DEF f, k
<1>4. CASE a.body.next = <<>> /\ a.links = << <<f>> >>
  <2>1. KeptLinks(a.links) = IF f.size < LinkMax THEN <<f>> ELSE <<>>
    BY <1>2, <1>4, KeptOne
  <2>2. cursor = <<>>
    BY <1>2, <2>1, CursorOfOne
  <2>3. QED
    BY <1>4, <2>2 DEF CursorFrom
<1>5. CASE a.body.next = <<k>> /\ a.links = << <<f>>, <<k>> >>
  <2>1. KeptLinks(a.links) = IF k.size < LinkMax THEN <<k>> ELSE <<>>
    BY <1>2, <1>5, KeptOne
  <2>2. cursor = IF Fits(k) THEN <<k.at>> ELSE <<>>
    BY <1>2, <2>1, CursorOfOne DEF Fits
  <2>3. a.body.next # <<>> /\ a.body.next[1] = k
    BY <1>5
  <2>4. CursorFrom(a.body.next, cursor)
    BY <2>2, <2>3 DEF CursorFrom
  <2>5. QED
    BY <1>2, <2>2, <2>4
<1>6. QED
  BY <1>1, <1>3, <1>4, <1>5

LEMMA Joined ==
  ASSUME NEW X, NEW s \in Seq(X), NEW n \in Nat, NEW to \in 0 .. Len(s), n <= to
  PROVE  /\ SubSeq(s, 1, n) \o SubSeq(s, n + 1, to) = SubSeq(s, 1, to)
         /\ Len(SubSeq(s, 1, to)) = to /\ SubSeq(s, 1, to) \in Seq(X)
<1> DEFINE a == SubSeq(s, 1, n)
           b == SubSeq(s, n + 1, to)
           c == SubSeq(s, 1, to)
<1>1. a \in Seq(X) /\ Len(a) = n /\ \A i \in 1 .. n : a[i] = s[i]
  OBVIOUS
<1>2. b \in Seq(X) /\ Len(b) = to - n /\ \A i \in 1 .. to - n : b[i] = s[i + n]
  OBVIOUS
<1>3. c \in Seq(X) /\ Len(c) = to /\ \A i \in 1 .. to : c[i] = s[i]
  OBVIOUS
<1> HIDE DEF a, b, c
<1>4. to \in Nat /\ n + (to - n) = to
  OBVIOUS
<1>5. a \o b \in Seq(X) /\ Len(a \o b) = to
  BY <1>1, <1>2, <1>4, ConcatProperties
<1>6. \A i \in 1 .. to : (a \o b)[i] = s[i]
  <2> TAKE i \in 1 .. to
  <2>1. (a \o b)[i] = IF i <= n THEN a[i] ELSE b[i - n]
    BY <1>1, <1>2, <1>4, ConcatProperties
  <2>2. CASE i <= n
    BY <1>1, <2>1, <2>2
  <2>3. CASE ~(i <= n)
    <3>1. i - n \in 1 .. to - n /\ (i - n) + n = i
      BY <1>4, <2>3
    <3>2. QED
      BY <1>2, <2>1, <2>3, <3>1
  <2>4. QED
    BY <2>2, <2>3
<1>7. a \o b = c
  BY <1>3, <1>5, <1>6, SeqEqual
<1>8. QED
  BY <1>3, <1>7 DEF a, b, c

\* Where the answer to a request for history can be, as the network moves it.
LEMMA NetworkPage ==
  ASSUME AskInv, PageInv, HttpCall, op.name = "history",
         UNCHANGED <<op, pager, log>>
  PROVE  PageInv'
<1>1. request.fn = "get"
  BY DEF AskInv
<1>2. Connect \/ Setup \/ Handshake \/ Read \/ Parse(TRUE)
  BY <1>1 DEF HttpCall, ably_http_post, ably_http_get, ably_http_do, Chain
<1>3. CASE Connect \/ Setup \/ Handshake
  <2>1. (wire' = wire \/ wire' = None) /\ request' = request /\ stage' # "parse"
    BY <1>3 DEF Connect, Setup, Handshake, Close, Return
  <2>2. stage' = "returned" => result' = "ERR_NETWORK"
    BY <1>3 DEF Connect, Setup, Handshake, Close, Return
  <2>3. QED
    BY <2>1, <2>2 DEF PageInv
<1>4. CASE Read
  <2>1. request' = request
    BY <1>4 DEF Read
  <2>2. CASE stage' = "parse"
    <3>1. PICK part \in Parts :
            /\ wire = None => part = "none"
            /\ response_buf' = [answer |-> wire, part |-> part]
            /\ wire' = wire
      BY <1>4, <2>2 DEF Read, Return
    <3>2. response_buf'.answer = wire /\ response_buf'.part = part
      BY <3>1
    <3>3. QED
      BY <2>1, <2>2, <3>1, <3>2 DEF PageInv
  <2>3. CASE stage' # "parse"
    <3>1. wire' = None /\ stage' = "returned" /\ result' = "ERR_NETWORK"
      BY <1>4, <2>3 DEF Read, Close, Return
    <3>2. QED
      BY <3>1 DEF PageInv
  <2>4. QED
    BY <2>2, <2>3
<1>5. CASE Parse(TRUE)
  <2>1. /\ stage = "parse" /\ stage' = "returned" /\ wire' = None
        /\ UNCHANGED <<request, response_buf>>
        /\ http_status' = IF response_buf.part = "none" THEN 0 ELSE response_buf.answer.status
        /\ result' = IF response_buf.part \in {"headers", "whole"} THEN "OK" ELSE "ERR_PROTOCOL"
    BY <1>5 DEF Parse, parse_response_headers, Return, Close
  <2>2. response_buf.part \in {"headers", "whole"} =>
          link_header' = KeptLinks(response_buf.answer.links)
    BY <1>5 DEF Parse, parse_response_headers
  <2>3. result' = "OK" => response_buf.part # "none"
    BY <2>1
  <2>4. QED
    BY <2>1, <2>2, <2>3 DEF PageInv
<1>6. QED
  BY <1>2, <1>3, <1>4, <1>5

\* The same pages, of a log that has grown.
LEMMA PagesKept ==
  ASSUME LogInv, LogInv', Kept, PageInv, GotInv,
         op.name = "history" => request.at \in Nat \ {0}
  PROVE  op.name = "history" =>
           /\ wire # None => PageOf(log'[Paged], wire, request.at)
           /\ stage = "parse" /\ response_buf.part # "none" =>
                PageOf(log'[Paged], response_buf.answer, request.at)
           /\ stage = "returned" /\ result = "OK" =>
                /\ http_status = response_buf.answer.status
                /\ PageOf(log'[Paged], response_buf.answer, request.at)
                /\ link_header = KeptLinks(response_buf.answer.links)
<1> DEFINE Items == {Item(d) : d \in Others \cup Messages}
<1>1. Paged \in Names /\ log[Paged] \in Seq(Items)
  BY PagedLog
<1>2. log'[Paged] \in Seq(Items)
  BY <1>1 DEF LogInv
<1>3. Grown(log[Paged], log'[Paged])
  BY <1>1 DEF Kept
<1> HIDE DEF Items
<1>4. ASSUME NEW a, NEW at \in Nat \ {0}, PageOf(log[Paged], a, at)
      PROVE  PageOf(log'[Paged], a, at)
  BY <1>1, <1>2, <1>3, <1>4, PageKept
<1>5. QED
  BY <1>4 DEF PageInv

\* What the pager has stays the beginning of the log.
LEMMA GotKept ==
  ASSUME LogInv, LogInv', Kept, GotInv, pager' = pager
  PROVE  GotInv'
<1> DEFINE Items == {Item(d) : d \in Others \cup Messages}
           n == Len(pager.got)
<1>1. /\ Paged \in Names /\ log[Paged] \in Seq(Items) /\ log'[Paged] \in Seq(Items)
      /\ Grown(log[Paged], log'[Paged])
  BY PagedLog DEF LogInv, Kept
<1>2. pager.got \in Seq(Items) /\ n \in 0 .. Len(log[Paged])
      /\ pager.got = SubSeq(log[Paged], 1, n)
  BY <1>1 DEF GotInv, PagesInOrder
<1> HIDE DEF Items, n
<1>3. SubSeq(log'[Paged], 1, n) = SubSeq(log[Paged], 1, n) /\ n \in 0 .. Len(log'[Paged])
  <2>1. ASSUME NEW s \in Seq(Items), NEW t \in Seq(Items), Grown(s, t), NEW k \in 0 .. Len(s)
        PROVE  SubSeq(t, 1, k) = SubSeq(s, 1, k) /\ k \in 0 .. Len(t)
    <3>1. 1 \in Nat \ {0}
      OBVIOUS
    <3>2. QED
      BY <2>1, <3>1, SameSub
  <2>2. QED
    BY <1>1, <1>2, <2>1
<1>4. n <= Len(log'[Paged])
  BY <1>1, <1>3
<1>5. pager.got = SubSeq(log'[Paged], 1, n)
  BY <1>2, <1>3
<1>6. PagesInOrder'
  BY <1>4, <1>5 DEF PagesInOrder, GotInv, n
<1>7. QED
  BY <1>6 DEF GotInv

LEMMA PageTaken ==
  ASSUME LogInv, GotInv, AskInv, PageInv, EndHistory
  PROVE  /\ GotInv'
         /\ CursorIsNextPage'
<1> DEFINE Items == {Item(d) : d \in Others \cup Messages}
           l == log[Paged]
           n == Len(pager.got)
           a == response_buf.answer
           cursor == NextCursor(link_header)
<1>1. l \in Seq(Items) /\ log' = log
  BY PagedLog DEF EndHistory, Finish
<1>2. /\ pager.channel = Paged /\ n \in Nat
      /\ pager.got = SubSeq(l, 1, n) /\ n <= Len(l)
  BY DEF GotInv, PagesInOrder
<1>3. op.name = "history" /\ stage = "returned" /\ request.at = n + 1
  BY DEF EndHistory, Finish, AskInv
<1>4. CASE JsonVerdict # "OK"
  <2>1. pager' = pager /\ NoCursor(ret')
    BY <1>4, Returned DEF EndHistory, Finish
  <2>2. QED
    BY <1>1, <2>1 DEF GotInv, PagesInOrder, CursorIsNextPage, NoCursor
<1>5. CASE JsonVerdict = "OK"
  <2>1. result = "OK" /\ http_status # 500
    BY <1>5 DEF JsonVerdict, StatusVerdict
  <2>2. http_status = a.status /\ PageOf(l, a, n + 1) /\ link_header = KeptLinks(a.links)
    BY <1>3, <2>1 DEF PageInv
  <2>3. PICK to \in 0 .. Len(l) :
          /\ n + 1 <= to + 1
          /\ a.body.items = SubSeq(l, n + 1, to)
          /\ LinksTo(a, to + 1)
    BY <2>1, <2>2 DEF PageOf
  <2>4. /\ ret' = [err |-> "OK", cursor |-> cursor, next |-> a.body.next]
        /\ pager' = [pager EXCEPT !.cursor = cursor, !.done = cursor = <<>>,
                                  !.got = pager.got \o a.body.items]
    BY <1>5 DEF EndHistory, Finish, BodyRead, ably_http_last_link_header
  <2>5. to \in Nat /\ n <= to
    BY <1>1, <1>2, <2>3
  <2> HIDE DEF a, l, n, Items
  <2>6. /\ CursorFrom(a.body.next, cursor)
        /\ cursor = <<>> \/ cursor = << [name |-> Paged, from |-> to + 1] >>
    <3>1. to + 1 \in Nat /\ cursor = NextCursor(KeptLinks(a.links))
      BY <2>2, <2>5
    <3> HIDE DEF cursor
    <3>2. QED
      BY <2>3, <3>1, CursorIs
  <2>7. pager.got \o a.body.items = SubSeq(l, 1, to) /\ Len(SubSeq(l, 1, to)) = to
        /\ SubSeq(l, 1, to) \in Seq(Items)
    BY <1>1, <1>2, <2>3, <2>5, Joined
  <2> HIDE DEF cursor
  <2>8. /\ pager'.channel = Paged /\ pager'.got = SubSeq(l, 1, to)
        /\ pager'.cursor = cursor /\ pager'.done = (cursor = <<>>)
    BY <1>2, <2>4, <2>7 DEF GotInv
  <2>9. GotInv'
    <3>1. PagesInOrder'
      BY <1>1, <2>3, <2>5, <2>7, <2>8 DEF PagesInOrder, l
    <3>2. ~pager'.done => pager'.cursor = << [name |-> Paged, from |-> Len(pager'.got) + 1] >>
      BY <2>6, <2>7, <2>8
    <3>3. pager'.got \in Seq({Item(d) : d \in Others \cup Messages})
      BY <2>7, <2>8 DEF Items
    <3>4. QED
      BY <2>8, <3>1, <3>2, <3>3 DEF GotInv
  <2>10. CursorIsNextPage'
    <3>1. ret'.cursor = cursor /\ ret'.next = a.body.next
      BY <2>4
    <3>2. QED
      BY <2>6, <3>1 DEF CursorIsNextPage, CursorFrom
  <2>11. QED
    BY <2>9, <2>10
<1>6. QED
  BY <1>4, <1>5

\* An answer to a request for history is the page it asks for.
LEMMA ServePage ==
  ASSUME HttpInv, CallInv, LogInv, LogInv', Kept, GotInv, AskInv, PageInv, Serve
  PROVE  PageInv'
<1> SUFFICES ASSUME op'.name = "history" PROVE PageInv'
  BY DEF PageInv
<1>1. PICK r \in arrived : \E a : Respond(r, a) /\ Pages(r, a)
  BY ServeCases
<1>2. PICK a : Respond(r, a) /\ Pages(r, a)
  BY <1>1
<1>3. /\ UNCHANGED <<stage, request, response_buf, http_status, result, op>>
      /\ wire' = wire \/ (wire' = a /\ request = r)
      /\ pager' = pager /\ link_header' = link_header
  BY <1>2, RespondStep DEF Respond, Answer, httpVars
<1>4. request.at = Len(pager.got) + 1 /\ request.names = {Paged} /\ request.what = "history"
  BY <1>3 DEF AskInv
<1>5. /\ Len(pager.got) \in Nat /\ Len(pager.got) <= Len(log[Paged])
  BY DEF GotInv, PagesInOrder
<1>6. request.at \in Nat \ {0} /\ request.at <= Len(log[Paged]) + 1
  <2>1. Len(log[Paged]) \in Nat
    BY PagedLog
  <2>2. QED
    BY <1>4, <1>5, <2>1
<1>7. request = r => PageOf(log'[Paged], a, request.at)
  <2> SUFFICES ASSUME request = r PROVE PageOf(log'[Paged], a, request.at)
    OBVIOUS
  <2> DEFINE Items == {Item(d) : d \in Others \cup Messages}
             at == request.at
  <2>1. a = Refusal \/ \E base \in PathSizes : a = HistoryPage(Paged, at, base)
    BY <1>2, <1>4 DEF Pages
  <2>2. \A base \in PathSizes : PageOf(log[Paged], HistoryPage(Paged, at, base), at)
    BY <1>6, PageIs
  <2>3. PageOf(log[Paged], Refusal, at)
    BY DEF PageOf, Refusal
  <2>4. PageOf(log[Paged], a, at)
    BY <2>1, <2>2, <2>3
  <2>5. /\ log[Paged] \in Seq(Items) /\ log'[Paged] \in Seq(Items)
        /\ Grown(log[Paged], log'[Paged])
    BY PagedLog DEF LogInv, Kept
  <2> HIDE DEF Items
  <2>6. QED
    BY <1>6, <2>4, <2>5, PageKept
<1>8. QED
  BY <1>3, <1>6, <1>7, PagesKept DEF PageInv

LEMMA BeginPage ==
  ASSUME PagedFits, HttpInv, GotInv, Begins
  PROVE  AskInv' /\ PageInv'
<1>1. PICK o, r : /\ GoodCall(o, r) /\ Asks(o, r) /\ op' = o /\ stage \in Idle
                  /\ request' = r /\ pager' = pager /\ wire' = wire
                  /\ stage' = "connect" \/ (stage' = "returned" /\ result' = "ERR_NETWORK")
  BY DEF Begins, Build
<1>2. wire' = None
  BY <1>1 DEF HttpInv, CleanBetweenRequests
<1>3. PageInv'
  BY <1>1, <1>2 DEF PageInv
<1>4. ASSUME o.name = "history"
      PROVE  /\ ~pager.done
             /\ r.fn = "get" /\ r.what = "history"
             /\ r.names = {Paged} /\ r.at = Len(pager.got) + 1
  <2>1. ~pager.done /\ r.fn = "get" /\ r.what = "history"
    BY <1>1, <1>4 DEF Asks
  <2>2. CASE pager.cursor = <<>> /\ pager.got = <<>>
    <3>1. r.names = {url_encode_channel(pager.channel, NameEnc)} /\ r.at = 1
      BY <1>1, <1>4, <2>2 DEF Asks
    <3>2. r.names = {Paged}
      BY <3>1 DEF PagedFits, GotInv
    <3>3. Len(pager.got) + 1 = 1
      BY <2>2
    <3>4. QED
      BY <2>1, <3>1, <3>2, <3>3
  <2>3. CASE pager.cursor = << [name |-> Paged, from |-> Len(pager.got) + 1] >>
    <3>1. pager.cursor # <<>> /\ pager.cursor[1].name = Paged
          /\ pager.cursor[1].from = Len(pager.got) + 1
      BY <2>3
    <3>2. r.names = {Paged} /\ r.at = Len(pager.got) + 1
      BY <1>1, <1>4, <3>1 DEF Asks
    <3>3. QED
      BY <2>1, <3>2
  <2>4. QED
    BY <2>1, <2>2, <2>3 DEF GotInv
<1>5. AskInv'
  BY <1>1, <1>4 DEF AskInv
<1>6. QED
  BY <1>3, <1>5

\* The application's paging, step by step.
PagerInv == GotInv /\ AskInv /\ PageInv

LEMMA PagerStep ==
  ASSUME PagedFits, HttpInv, CallInv, LogInv, LogInv', PagerInv, [Next]_vars
  PROVE  PagerInv'
<1> USE DEF PagerInv
<1>1. Kept
  BY LogStep
<1>2. pager' = pager => GotInv'
  BY <1>1, GotKept
<1>3. ASSUME UNCHANGED <<op, request, pager>>
      PROVE  AskInv'
  BY <1>3 DEF AskInv
<1>4. ASSUME op'.name # "history"
      PROVE  AskInv' /\ PageInv'
  BY <1>4 DEF AskInv, PageInv
<1>5. CASE Begins
  <2>1. pager' = pager
    BY <1>5 DEF Begins
  <2>2. QED
    BY <1>2, <1>5, <2>1, BeginPage
<1>6. CASE Finishes
  <2>1. op'.name # "history"
    BY <1>6 DEF Finishes, Finish, NoOp
  <2>2. GotInv'
    BY <1>2, <1>6, PageTaken DEF Finishes
  <2>3. QED
    BY <1>4, <2>1, <2>2
<1>7. CASE Lifecycle
  <2>1. op = NoOp /\ op' = NoOp /\ pager' = pager
    BY <1>7 DEF Lifecycle, ably_http_client_create, CallInv
  <2>2. op'.name # "history"
    BY <2>1 DEF NoOp
  <2>3. QED
    BY <1>2, <1>4, <2>1, <2>2
<1>8. CASE Network
  <2>1. HttpCall /\ UNCHANGED <<op, pager, log>>
    BY <1>8 DEF Network, restVars
  <2>2. request' = request
    BY <2>1, NetworkStep
  <2>3. PageInv'
    <3>1. CASE op.name = "history"
      BY <2>1, <3>1, NetworkPage
    <3>2. CASE op.name # "history"
      BY <1>4, <2>1, <3>2
    <3>3. QED
      BY <3>1, <3>2
  <2>4. QED
    BY <1>2, <1>3, <2>1, <2>2, <2>3
<1>9. CASE Send
  <2>1. /\ UNCHANGED <<op, pager, log, request>>
        /\ wire' = wire \/ wire' = None
        /\ stage' \in {"read", "returned"}
        /\ stage' = "returned" => result' = "ERR_NETWORK"
    BY <1>9 DEF Send, send_all, Close, Return
  <2>2. PageInv'
    BY <2>1 DEF PageInv
  <2>3. QED
    BY <1>2, <1>3, <2>1, <2>2
<1>10. CASE Serve
  <2>1. UNCHANGED <<op, request>>
    BY <1>10, ServeResponds, RespondStep
  <2>2. pager' = pager
    BY <1>10, ServeResponds DEF Respond
  <2>3. PageInv'
    BY <1>1, <1>10, ServePage
  <2>4. QED
    BY <1>2, <1>3, <2>1, <2>2, <2>3
<1>11. CASE Nothing
  <2>1. UNCHANGED <<httpVars, op, pager, log>>
    BY <1>11 DEF Nothing
  <2>2. PageInv'
    BY <2>1 DEF PageInv, httpVars
  <2>3. request' = request
    BY <2>1 DEF httpVars
  <2>4. QED
    BY <1>2, <1>3, <2>1, <2>2, <2>3
<1>12. QED
  BY NextCases, <1>5, <1>6, <1>7, <1>8, <1>9, <1>10, <1>11

LEMMA PagerStart ==
  ASSUME Init
  PROVE  PagerInv /\ CursorIsNextPage
<1>1. pager = [channel |-> Paged, cursor |-> <<>>, got |-> <<>>, done |-> FALSE]
  BY DEF Init
<1>2. op.name # "history" /\ NoCursor(ret)
  BY Returned DEF Init, NoOp
<1>3. Len(log[Paged]) \in Nat
  BY StartsGood, PagedLog
<1>4. SubSeq(log[Paged], 1, 0) = <<>>
  BY SubSeqEmpty
<1>5. PagesInOrder
  BY <1>1, <1>3, <1>4 DEF PagesInOrder
<1>6. GotInv
  BY <1>1, <1>5 DEF GotInv
<1>7. QED
  BY <1>2, <1>6 DEF PagerInv, AskInv, PageInv, CursorIsNextPage, NoCursor

LEMMA PagerAlways ==
  ASSUME PagedFits
  PROVE  Spec => [](HttpInv /\ CallInv /\ LogInv /\ PagerInv)
<1> DEFINE IInv == HttpInv /\ CallInv /\ LogInv /\ PagerInv
<1>1. Init => IInv
  BY HttpStart, StartsGood, PagerStart DEF Init
<1>2. IInv /\ [Next]_vars => IInv'
  BY HttpInvStep, CallStep, LogStep, PagerStep
<1>3. QED
  BY <1>1, <1>2, PTL DEF Spec

\* Paging with next_cursor collects the channel's messages in order, none twice
\* and none left out, however often a page fails, whatever other calls come between
\* and however the log grows: what was cut, sent, read and parsed is always the
\* page behind the last one.  The name must fit the buffer it is encoded in.
THEOREM PagesAreInOrder ==
  ASSUME PagedFits
  PROVE  Spec => []PagesInOrder
<1>1. PagerInv => PagesInOrder
  BY DEF PagerInv, GotInv
<1>2. QED
  BY <1>1, PagerAlways, PTL

\* The next_cursor of a page is the place behind it when there is a next page
\* whose link fits next_cursor and the header buffer, and empty after the last
\* page and where it does not fit, for every length of the links.
THEOREM CursorIsTheNextPage ==
  ASSUME PagedFits
  PROVE  Spec => []CursorIsNextPage
<1> DEFINE IInv == HttpInv /\ CallInv /\ LogInv /\ PagerInv
<1>1. Init => CursorIsNextPage
  BY PagerStart
<1>2. ASSUME IInv, CursorIsNextPage, [Next]_vars
      PROVE  CursorIsNextPage'
  <2>1. EndHistory => CursorIsNextPage'
    BY <1>2, PageTaken DEF PagerInv
  <2>2. ret' = ret => CursorIsNextPage'
    BY <1>2 DEF CursorIsNextPage
  <2>3. NoCursor(ret') => CursorIsNextPage'
    BY DEF CursorIsNextPage, NoCursor
  <2>4. Begins \/ Lifecycle \/ Network \/ Send => ret' = ret
    BY DEF Begins, Lifecycle, Network, restVars, Send
  <2>5. Serve => ret' = ret
    BY ServeResponds DEF Respond
  <2>6. Finishes \/ Nothing => ret' = ret \/ NoCursor(ret') \/ EndHistory
    BY DEF Finishes, Nothing
  <2>7. QED
    BY <1>2, NextCases, <2>1, <2>2, <2>3, <2>4, <2>5, <2>6
<1> HIDE DEF IInv
<1>3. Spec => []IInv
  BY PagerAlways DEF IInv
<1>4. QED
  BY <1>1, <1>2, <1>3, PTL DEF Spec

=============================================================================
