# Verification of ably-connectors

TLA+ models, TLC runs and TLAPS proofs of the two programs of this repository:
`ably-c`, a C client of the Ably real-time service, and `flink-sql-sink`, a Flink
SQL sink that publishes rows to Ably over REST.  Everything is translated from the
code under `src/`; line numbers of each definition are in `PROJECT.json` ("map").

## 1. The system

### ably-c

| Part | State | Operations | Correct when |
|---|---|---|---|
| Connection (`realtime_client.c`) | `state`, `close_requested`, `reconnect_attempt`, host index, token and backoff flags, the service thread | `connect`, `close`, `destroy`; the thread dials, receives, retries | no thread outlives close, no retry after a fatal error, a lost connection is dialled again |
| Outbound path (`realtime_client.c`) | `send_ring`, `outbound_msg_serial` | claim a serial, enqueue, drain, reset at each dial | a FIFO queue; unique serials; each thread's order kept |
| Channel (`channel.c`) | `state`, `reattach_pending`, pending queue | `attach`, `detach`, `publish`, frames of the server | ATTACHED only while the server agrees, or has told it in an ERROR; nothing refused is sent; order |
| Subscribers (`channel.c`) | slots with token, filter, callback | `subscribe`, `unsubscribe`, dispatch | each sees what it asked for, in order |
| Gap recovery (`realtime_client.c`) | `channel_serial` | history fetch after a gap | nothing missed, and it ends |
| Delta (`channel.c`, `vcdiff.c`) | base payload, two buffers | VCDIFF decoding | the base is the one the server used |
| Presence (`presence.c`, `hashmap.c`) | member pool, hash map, `syncing`, own entry | `enter`, `leave`, `update`, PRESENCE and SYNC frames, re-entry | set and events agree with the server |
| Event loop API (`realtime_client.c`) | as Connection, without a thread | `connect_async`, `step` | as Connection |
| WebSocket (`ws_client.c`) | socket, TLS, wslay context, close flags | connect, send, receive, close | CONNECTED is usable; a failed connect leaves nothing; close ends |
| HTTP (`http_client.c`) | socket, TLS, buffers | get, post, do | a failure leaves nothing for the next request |
| REST (`rest_client.c`) | last status, paging cursors | publish, batch, history, stats, presence, channels, tokens, time | the answer given is what the service did |
| Codecs (`protocol*.c`, `base64.c`) | none | encode, decode | round trip |

Three kinds of thread meet here.  Application threads call the API.  The service
thread (one per connected client) runs `service_thread_fn`: it dials, drains one
frame of the ring, receives one frame of the server and dispatches it to the
connection or to a channel, and retries when the socket is lost.  They share
`state_mutex`/`state_cond` (connection), `send_mutex` (ring, serials) and one
`sub_mutex` per channel.  An API call takes several of these in turn, never
together, so what was read under one may be stale under the next; that is where
most of the hazards listed in `PROJECT.json` are.  Subscribers and state listeners run
on the service thread, subscribers with the lock released.

The REST and HTTP clients have no thread of their own and no lock: what is hard there is
a failure at any of the calls of a request, and a request that the service handled
though the client gave it up.

### flink-sql-sink

One sink instance per subtask: `AblySinkFunction` (Flink 1) or `AblySinkWriter`
(Flink 2) buffers rows and calls `AblyBatchPublisher.publish` when the buffer holds
`batch.size` rows, and on `close()`.  Flink 2 also calls `flush()` at checkpoints.

### What is hard

* Calls made of several critical sections, interleaved with the service thread:
  attach against its answer, claim against enqueue, close against every wait,
  unsubscribe against a dispatch that is under way, enter against the re-entry.
* Queues at their limit: the ring, the pending queue, the subscriber slots; results
  that are ignored.
* Loss of the connection between any two steps, and what a new connection inherits:
  frames, serials, a delta base, a presence set, a SYNC half done.
* Retry logic spread over flags that one cycle sets and another reads.
* Chains of network calls, each with its own cleanup.
* Failures between a row, its checkpoint and the end of its task (Flink).

## 2. Modules

| Module | Models | Notes |
|---|---|---|
| `BoundedFifo` | the promise of the outbound ring | abstract specification |
| `SendRing` | ring, serials, publishing threads, the drain | refines `BoundedFifo` |
| `Connection` | connect, close, destroy, `service_thread_fn` | |
| `Channel` | attach, detach, publish, pending queue, re-attach | with a ring, a server and a connection reduced to what a channel sees |
| `Receive` | subscribers, dispatch, delta base, gap recovery | one channel, its server and its history |
| `HashMap` | put, get and remove of the open-addressing map | operators |
| `Presence` | the member pool, its map, SYNC and the events | extends `HashMap` |
| `OwnPresence` | enter, update, leave against the re-entry | |
| `WsTransport` | `ws_client.c` as the service thread drives it | |
| `HttpClient` | `http_client.c`: one request as its chain of network calls | |
| `RestClient` | the calls of `rest_client.c`, and the service | extends `HttpClient` |
| `Vcdiff`, `Base64` | the two decoders | operators, and an encoder that drives them |
| `FlinkSink` | both Flink sinks under a Flink runtime that fails | |
| `ClientProofs`, `ChannelProofs`, `ReceiveProofs`, `PresenceProofs`, `WsProofs`, `RestProofs`, `CodecProofs`, `FlinkSinkProofs` | | 48 theorems listed in `PROJECT.json`, and their lemmas |
| `MC*` | instances for TLC | |

### SendRing

One action is one critical section.  A publish is `BeginPublish`, `ClaimMsgSerial`,
then `EnqueueFrame` (or `EncodeFail`); an attach, detach or presence frame is
`BeginControl`, `EnqueueFrame`.  The service thread cycles through `Dial` (which
resets the counter and keeps the ring), `DrainOne`, `SendOk` or `SendFail`, and
`Recv` or `RecvDrop`; while it receives, its handlers may publish too (the flush of
a pending queue).  A frame is its producer, its serial and the connection attempt in
which the serial was claimed; payloads are not modelled.

### Connection

`threadPc` is the program counter of the service thread, one value for each place where
another thread can see or change what it has done; `app` is that of one application
thread, which calls connect, close and destroy in any order, connect also on a running client.  Frames are
nondeterministic: HEARTBEAT, CONNECTED, DISCONNECTED and ERROR with each class of
code, CLOSED.  The heartbeat watchdog and a lost socket are the two ways in which the
receive loop ends by itself.  `connect()` asks for nothing: called on top of a service
thread it starts a second one and overwrites the handle.  So `threadPc` is a function of the
thread, `service_thread` the handle, and `overwritten` has the threads that no `close()`
can join any more; the threads share everything else, as in the code.  What they do to the memory of the
transport they share is undefined, and the model does not go on after a client was
freed.  `writing` has the threads in `wslay_send_callback`, from which `WriteReturns`
need never come back.  `close()` is `CloseBegin`, `CloseWait` (its timed wait
returns when the state is terminal, or by timeout) and `CloseJoin`; a `destroy()` is a `close()`,
if a thread is running, and `Destroy`.  The backoff
and SUSPENDED waits end by a broadcast or by time.

### Channel

One thread attaches and detaches, one publishes messages 1, 2, ..., the service
thread sends the ring, handles answers and re-attaches after CONNECTED.  The server
is external: it confirms an ATTACH or refuses it, with DETACHED and a code or with an ERROR
that names the channel, and sends any of these, or a plain DETACHED, by itself.  `rt_dispatch_frame`
has three ways with an ERROR (`realtime_client.c:291-314`) and none of them leads to the channel:
`RecvError` is the fatal code, which ends the client; `RecvMild` is the code that `auth_cb`
renews and every other one, behind which the link stays CONNECTED and the channel as it was.
The history variable `swallowed` says that the last frame handled about the channel was such a
one; `AttachedIsConfirmed` and `AttachingIsAnswered` name it as an exception, and the
header says otherwise (`ErrorIsRecorded`, section 6).
`attach()` is four steps (channel state, connection state, enqueue, set ATTACHING),
as the code takes and releases three mutexes.  Ring and pending queue are sequences
with a bound; that the ring implements such a queue is the refinement of `SendRing`.

### Receive

The service thread is a sequence of critical sections: it takes a MESSAGE frame, decodes
it, and calls one subscriber after the other.  `DispatchFrom` is the piece of the loop
between two callbacks; while `CallbackReturn` is due, other threads and the callback
itself may subscribe and unsubscribe, and a slot whose token has changed ends the loop, as
the code does.  A payload is the message it is the text of, so a delta decoded on a wrong
base gives a payload that is no message.  `Store` and `Clear` are what becomes of the base.
An ATTACHED frame may be resumed or not, have a backlog or not, and carry a serial or
not; the recovery then reads pages of the history, each of which can fail, be the last,
or give a cursor already followed.  Server, history and wire are external.

### Presence and OwnPresence

In `Presence` a frame is one step, since only the service thread changes the set.  `pool`
and `map` are the two structures of the code; the map is the array of slots with its states,
and `Hash` is a parameter, so that chains can be made to collide.  A frame with several
members acts as several frames with one.  `Attached` is the presence part of the
handler of ATTACHED, `Disconnect` the loss of a connection, which leaves all of it as
it is.  The server is external: it has a set, sends its changes, and after an ATTACHED
with HAS_PRESENCE owes a SYNC.  The history variables say which SYNCs were seen as a
whole, for whom there was no room, whom the events leave present and for whom a LEAVE
was made up.

`OwnPresence` has what `Presence` leaves out: `own_entered` and `own_data` are written by
the application with no lock, field by field, and read by the service thread in the re-entry
(`ReenterRead`, `ReenterSend`); `ensure_pres` is two steps.  Frames of both go through one
ring and outlive the connection.

### WsTransport

`pc` walks through `ably_ws_connect` (`Dial`, `TlsSetup`, `TlsHandshake`, `FinishConnect`,
every one with its failure exit), the turns of the receive loop, `recv_once` with the
echo of a heartbeat, and `ably_ws_close` with its rounds of waiting.  `sockets` is what
the kernel has open, apart from `net`, the number in the client's hands, so a leaked or
reused one can be told apart, and `keys` is the connection whose handshake made the keys
of the TLS context: a connection that is lost leaves its context, `mbedtls_ssl_setup` does not
reset it, the next handshake on it returns at once, and the upgrade then runs under the keys
of the old connection, with which no peer answers (`PeerHasKeys`, external).  `writing` is a frame
that `wslay_send_callback` still writes: it tries for as long as the peer takes nothing, so
`WriteReturns` is an action of its own, which need never happen.  wslay is vendored: an
external queue of frames.

### HttpClient and RestClient

A request is `Build`, `Connect`, `Setup`, `Handshake`, the sending, the reading of headers
and body piece by piece, and `Return`, each step with the resources it has acquired and the
ones its failure exit releases.  `RestClient` puts every call of the API around it: a
`Begin` step with its buffer limits, an `End` step that reads what the HTTP function left.
The service stores messages, drops a second one with the same id, serves pages with a
Link header, and may handle a request whose answer is lost or comes too late.

### Vcdiff and Base64

`ably_vcdiff_decode` and `ably_base64_decode` are operators on sequences of bytes, down to
varints, the code table, both address caches, windows and checksums.  The state machine beside
the first is an encoder that composes a delta opcode by opcode from RFC 3284's meaning of the
instructions and keeps the text the delta stands for; the one beside the second writes bytes or
characters.  The decoder never looks at what the encoder computes.  Every loop of the C code
is a function on the numbers of its turns (`OpcodesRun`, `WindowsRun`, `CopyBytes`, `VarintValue`,
`Groups`), one turn a definition of its own (`Opcode`, `NextWindow`, `CopyByte`, `NextGroup`).

### FlinkSink

`Write`, `Finish` and `Cleanup` are the code; `Snapshot`, `Complete`, `Cancel`,
`Crash` and `Restart` are what Flink does around it and are marked external.
`FlushOnCheckpoint` is TRUE for the Flink 2 writer.  A publish may have been accepted
for any subset of its channels, whether it throws or returns: `AblyBatchPublisher`
throws for a status of 400 or more and reads nothing else, so a redirect and a 2xx
answer that refuses some of the channels (the one `RestClient` models) count as success.
The rows such an answer refuses go to `refused`, the one named cause for which
`AtLeastOnce` and `FinishedIsDelivered` let a row be lost.

## 3. Runs

| Run | Bounds | Shows |
|---|---|---|
| `ring_safety` | one application thread and the service thread, 3 slots, two serials on each of 2 connections | the ring is a FIFO of two places (full, empty, wrapped around, refused), serials are unique, each thread's publishes leave in order, also over a reconnection; every accepted frame is taken out |
| `conn_life` | primary and a fallback host, limit of 1 attempt, auth callback present, 2 service threads at a time | no thread left behind but one whose handle a connect overwrote, no close slept through in the backoff, a thread ends only for a reason, no dial after a fatal error; close returns unless a write never does; a lost connection is dialled again |
| `chan_life` | ring of 1, pending queue of 2, 3 messages, 2 calls, 2 events | no refused message sent, none sent twice, order on each path, ATTACHED only while the server agrees, an ATTACHING channel has an answer or a re-attach coming, both but for an ERROR the code hands to no channel; a re-attach is taken |
| `chan_pending` | same | finding |
| `receive` | 2 slots, 2 subscriptions, 3 messages (text, text or too large, binary), pages of 2, 2 pages, 1 frame on the wire, 1 loss or failure | live and recovered messages in order, no stale base, garbled only for one cause, nothing else missed; the recovery ends |
| `receive_gap` | same | finding |
| `presence_set` | 4 clients, map of 4 slots (3 places), 3 hashes in the last slot | pool and map agree, a whole SYNC makes the set exact, events tell the same as the set |
| `own_presence` | 2 payloads, ring of 2, 4 calls, 3 events | with all quiet, the server has the member the client thinks it is, but for known causes |
| `rest_calls` | 3 calls, 2 names, buffers scaled down to 8, 20, 14 and 32 units, pages of 2, next-page links that fit and that do not | nothing left over between requests, success only for what is stored, an id is stored once, pages in order, a cursor is the next page's, and empty only behind the last page or when its link does not fit |
| `ws_transport` | 3 connects, 3 frames of the peer on each, 2 rounds of a close | CONNECTED is usable, also behind a connect on an old TLS context, a failed connect leaves nothing, no text behind a close; close returns unless a write of it never does |
| `flink_writer` | 5 rows (one not an INSERT), 2 channels, batches of 3, 2 failures | at-least-once and nothing left behind at the end, but for rows refused in an answer that publish does not read; no row requested twice in an attempt |
| `codec` | 3 opcodes of 6 kinds in 2 windows, 3 indicators; 5 bytes, 5 characters of 6 kinds | every delta decodes to its text, a cut one or one with a short base is refused; base64 both ways |

Why the bounds are enough: each is the smallest at which every branch of the code
is taken (TLC's coverage reports every disjunct of every action as reached) and at
which the boundary in question is met with something on both sides.  A ring of three
slots holds two frames, so it is empty, partly full, full and wrapped; two failures
let a second failure hit the recovery of the first; two connections let the second
inherit from the first, and a third connect meets what two failures left.  Four clients
for three places meet the load limit, tombstones and a chain that wraps around.  Two
subscriber slots let a subscriber go, and another take its slot, while the first one's
callback runs.  The service may give a link either of two lengths (`PathSizes`), of which the paged name's next page
just fits `next_cursor` with the one and not with the other.  The buffers of `rest_calls` are scaled
so that the longer of the two names just fits the buffer of the publish functions (`LongNames` of `MCRestClient` has one
that does not).  The six opcodes are an ADD
and a COPY of each kind of address (self, here, near, same) and a double instruction.  The
rings of the code have 256 and 64 places; no action depends on the number except through full
and empty, and `RingIsFifo` is proved for every capacity.  `Capacity` and `MaxSection` bound the
text and the sections of a window that the encoder writes; the proofs leave them free,
with the source, below 2^27 (`VcdiffAssumption`), so that every integer of a delta has four
bytes at most; a message is far smaller.

Clients with equal hashes are interchangeable, which is the symmetry set of `MCPresence`; the
fourth hash is outside of it.  `OrderState`, the view of `MCSendRing`, leaves out what no action
reads before it is written again: the slots outside of `tail` and `head`, and the
answers given to callers.  `LiveState` of `MCConnection` does the same for the connection state before
a dial sets it, the flags of the transport outside of the receive loop, the handle of a thread that was
joined, and a client that was freed.  Two states with the same view are bisimilar and satisfy the same
properties, so it is sound for the liveness property too.

Type invariants: `TypeOK` of every module holds in its run when added to its `.cfg`;
those of `SendRing`, `Connection`, `Channel`, `Receive`, `Presence`, `OwnPresence`, `WsTransport` and
`FlinkSink` are proved.

Deadlock is checked where the system runs for ever (`SendRing`, `Presence`).  A closed client,
a channel or a client whose bounded calls are used up and a finished job may stop.

### Fairness

Only the service thread is assumed to be scheduled (`WF` on its steps): it is a
thread that the application started and that blocks only in calls with a timeout, but for
the write of a frame.  `wslay_send_callback` tries again for as long as the peer takes nothing, whatever
its poll said (`ws_client.c:165`), so the return of a write has no fairness in `Connection` and
`WsTransport`, and both `CloseReturns` name that one exception.  `SendRing`, `Channel` and
`Receive` leave stalled writes out: there the service thread goes on.
In `SendRing` strong fairness of the receive step stands for a handler that makes
finitely many calls, and in `Connection` for a receive call that takes finitely many frames: a peer
that sent without a pause, and faster than it is read, would hold one call of `wslay_event_recv` for ever.
In `Connection` the application thread inside `close()` is
scheduled too.  In `WsTransport` the waits of a close and the return of `recv_once` are
fair, since each of their polls has a time limit; the return of a write is not, since a peer that
stops reading holds it for ever (`ws_client.c:165`).  In `Receive` it is the steps of the
recovery (a request ends, with an answer or with its timeout) and the return of a
callback; an application callback that never returns blocks the thread, in the code as well.
Nothing is assumed of application calls, of the server or of the network: a dial may
fail for ever.

## 4. Proofs

Checked by TLAPS for every value of the constants that their assumptions allow.

* `ClientProofs`, about `SendRing`: `TypeCorrect`; `RingIsFifo`, that `SendRing` implements
  `BoundedFifo` for every capacity of at least two.  The refinement maps the slots
  between `tail` and `head` (modulo the capacity) to the queue; the lemmas say what
  an enqueue and a consume do to that sequence.  `%` is kept behind `Wrap` with a
  linear description of its value.  `PublishesInOrder` and `NoSerialTwice` rest on
  `SerialInv`: the frames of the connection attempt at hand are numbered below the counter,
  those of earlier attempts belong to earlier connections, and a thread between
  `rt_claim_msg_serial` and `rt_enqueue_frame` holds a number nobody else has.
* `ClientProofs`, about `Connection` (whose specification is named `ConnSpec` so that one
  module can hold both): the inductive invariant is the conjunction of the type
  invariant, `NoOrphanThread`, `BackoffSeesClose`, a strict bound on the attempts at
  the places before the count, and that a fatal error leaves `close_requested` set
  until the next connect.  The last two are the strengthening: neither
  `AttemptsLimited` (theorem `RetryLimit`, for a client on top of which connect was never called) nor
  `NoRetryAfterFatal` is inductive by itself.  All of it is for any number of service threads.
  `NoThreadGivesUp` and `FatalEndsSession` look at what a step does to the program counter of
  one thread while any other one moves (`PcOfApplication`, `PcOfFrames`, `PcOfThread`).
* `ChannelProofs`: five theorems.  `RefusalIsFinal` and `PathsKeepOrder` rest on `OutInv`:
  what is queued, in the ring or at the server was accepted (`Accepted`), the messages sent
  at once and those out of the pending queue are each in order in the log, the ring and the
  queue (`OrderedParts`), and what is behind is younger than what is ahead (`Across`).
  `AttachedIsTrue` and `AttachingEnds` rest on `BeliefInv`, which follows the news from the
  server: nothing is in the inbox of a lost connection, CONNECTED comes first in it, a server
  that has detached has its news behind every older ATTACHED, and an ATTACHING
  channel has a request in the ring, an answer in the inbox or a re-attach ahead, unless its
  answer was an ERROR that no channel hears of (`swallowed`).
* `ReceiveProofs`: six theorems, one for each invariant of the run `receive` and one for the
  types.  See below.
* `PresenceProofs`: eight theorems, about `HashMap` and `Presence` and, in its last parts,
  `OwnPresence`, whose names carry a prefix so that one module can hold both.  See below.
  `ServerFollowsEntry` rests on `ChannelInv`, what the client knows of
  the attachment, and `FollowInv`: the last word on the member, in the ring or at the
  server, is that of the last call (`Says`), or the re-entry is still to come (`Reentry`).
* `WsProofs`: `TypeCorrect`, `ConnectedIsUsable`, `NoSocketOfAFailedConnect`,
  `DeliveryInOrder` and `CloseIsLast`, for any number of connects, frames and rounds.  The
  invariant says, per place of the program counter, which of the socket, the TLS context and
  the wslay context exist and which flags are set (`SocketOK`, `FlagsOK`, `ClosingOK`), and
  that what was delivered of a connection is a prefix of what its peer sent (`FramesOK`).
  `connected` alone does not imply a usable transport: it needs to be known where in
  the chain of calls it is set, and that a TLS context that is past its handshake may be that of
  another connection up to the upgrade.  A write can be under way only in `recv_once` and in a
  close, and no text while a close frame is.
* `FlinkSinkProofs`: `WriterAtLeastOnce` and `WriterFinishesDelivered` rest on
  `Covered`: a running sink holds in its buffer every row it was given that no returned
  publish carried, and a checkpoint under way covers carried rows only.
  `RequestsInOrder` rests on `OrderInv`: the buffer is in source order and behind all
  that was requested in the attempt.

* `RestProofs`: `HttpClean` of `HttpClient` for any requests, and under `RestClient`
  `CleanUnderRest`, `StoredOnce` and `ToldIsTrue`.  A request that carries messages keeps
  their ids and goes to names of the application (`CallInv`), the logs hold nothing else
  (`LogInv`), an answer that means success is given only when the messages are stored
  (`AnswerInv`), and logs only grow (`ToldInv`).  `ToldIsTrue` has the hypothesis `NamesFit`, that
  the publish functions have room for the encoded name of every channel: without it the
  statement is false, since the name is cut and the message goes to another channel.
  `PagesAreInOrder` and `CursorIsTheNextPage` follow one page: what the pager has is the beginning
  of the log and its cursor the position behind it (`GotInv`), a request in progress asks for that
  position (`AskInv`), and the answer is the page cut there, in the wire, the buffer or the
  results (`PageInv`), also when the log has grown since (`Grown`).  The hypothesis is that the
  name fits the buffer it is encoded in (`PagedFits`).  Nothing is assumed of the length of the
  links: `CursorIsTheNextPage` says what becomes of a link that does not fit.

* `CodecProofs`: `Base64IsExact`, `DeltaIsDecoded` and `UnfitIsRefused`.  See below.

The idea of the proof about `Receive` is one number, the position in the channel:
the server is at `srvPos`; each frame on the wire begins where the one before ends
(`WireInv`); the client has taken the channel off the wire up to `Reached`, and dispatched it
up to `Done` in a frame or towards `Goal` in a page of the history (`PlaceInv`); a
subscriber has been given everything it wants up to `Front(i)`, which is one message less for
the slots behind the running callback (`FillInv`, `LiveInv`).  Every action moves one of these
numbers, and the lemma about it says which.  `SlotInv` says a token is in one slot at most, so
that a subscriber that left, and another in its slot, are told apart.  `ConnInv` counts
connections and losses, which bounds `conn`.  `DeltaInv` says what the active buffer holds:
nothing when detached, a payload of this connection otherwise, and the text of
the message before when every message so far was a text that fits; a server may send as a
delta only what is behind a message of the same attachment.  `GarbledInv` needs it.  All
nine conjuncts were model-checked under the bounds of the run `receive` first.

The proof about `HashMap` and `Presence` goes from the map up.  `MapOK` says what the probing
keeps: a key is in one slot (`OneSlot`), and no slot that was never used comes before it in its
probe sequence (`ChainOK`), which is what a tombstone is for.  From it follow the laws of a map,
`PutThenGet` and `RemoveThenGet`, and that the probing stops.  `Paired` says that pool and map
are the same set, entry for key, and that the load limit is never passed: a member that would
pass it is refused in both.  The sweep of `end_sync` is a recursion over the pool;
that every step of it keeps the two paired is shown by a smallest counterexample, since an induction
theorem with an operator as parameter cannot be used here.  `SetOK` adds the events, and
`PhaseInv` and `ExactInv` the SYNC: while one is under way that was seen from its first page, what
is not stale is what the server has sent of its members so far (`Kept`).

The proof about `Base64` is arithmetic on one group of four characters, for each number of
padding characters, and an induction over the groups: after n of them the decoder has 3n bytes of
what was encoded (`CodeState`), and the buffer has room for exactly what `encode_len` and the size of the
output promise.  For a text that is not the encoder's, `Groups` is compared with the bits of the
sextets.

The proof about `Vcdiff` is the longest.  What a run of one text shows is stated of all that may
follow it: the sections, the windows and the delta are read from the front, so a lemma about a
loop has the bytes still ahead as a variable.  `OpenReads(q)` says so of the three sections of the
open window `q`: the loop over the opcodes, on `data`, `inst` and `addr` with anything behind them,
reaches the text and the caches that the encoder has (`StateOf`).  An opcode more keeps this
(`OpenReadsEmit`): each half is read by its type, a COPY with its address in whichever of
the nine modes it was written (`CopyFrom`, near and same caches as the decoder has left them), a
copy that overlaps what it writes byte by byte (`CopyReads`), and sizes that are in the table or follow
as an integer (`ReadVint`, the digits of an integer of one to four bytes).  `BodyDecodes` and
`WindowTurn` put the lengths, the segment and the checksum around it.  The inductive invariant
`EncInv` (theorem `EncInvariant`) has, of the windows that are closed, `Decodes`: whatever follows
them, that many turns of the loop over the windows give the text they stand for, or an error when
the base is too short for a segment one of them takes from it; of the open window `Open`, which is
`OpenReads` with the types and sizes, and `SegmentFits`.  `DeltaDecodes` and the short bases of
`UnfitRefused` follow with nothing behind; the deltas cut off need that every integer, section and
checksum that is missing a byte is noticed (`CutTurn`), and that a loop that has failed does
nothing more (`WindowsIdle`).  `EncInv` ranges over all bytes that may follow and cannot be
evaluated by TLC; `DeltaDecodes`, its instance with nothing behind, was checked first.

In both, induction is over a set of numbers without a smallest counterexample (`NatInduct`), and a
loop defined by a recursive function is unfolded turn by turn from functions on an initial part of
the numbers, which exist by such an induction (`CopyLoop`, `ConcatLoop`, `WindowLoop`).

Only model-checked: all liveness (`EveryFrameTaken`, both `CloseReturns`, `Redials`,
`ReattachTaken`, `RecoveryEnds`), since fairness and ENABLED are out of the prover's reach.
Every safety property that a passing run checks is proved.

## 5. Not modelled

* The protocol codecs (`protocol_json.c`, `protocol_msgpack.c`): stateless formatting
  around vendored libraries; frames are records in the models.  The C++ header, the
  umbrella header, allocator, logging and the CA bundle: no protocol state.
* The clock: timeouts, the backoff and the heartbeat watchdog can elapse at any time, so a
  watchdog that counts only HEARTBEAT and CONNECTED frames as activity (`realtime_client.c:226`)
  cannot be told from a right one.
* The slots of the presence subscribers, which are those of the message subscribers again.
* The host program of the event loop: `connect_async` and `step` are one dial and one turn
  of the loop that `WsTransport` and `SendRing` have as actions.
* TLS inside mbedTLS and the framing inside wslay: vendored, external actions that
  succeed or fail.
* `next_token` as an `int` that wraps, the string pool of the msgpack decoder, memory
  allocation of a history page, varints beyond the integers of TLC.
* Flink's row serializer and table factory: formatting and options.

`PROJECT.json` lists every component with the reason.

## 6. Findings

Each is a violated property of its own run, with the line of the repository that
promises the property.

* `chan_pending`: a flush into a full ring drops messages that `publish()` accepted
  (`channel.c:599`).
* `receive_gap`: the handler of ATTACHED overwrites `channel_serial` before
  the recovery starts from it, so what was published in the gap is not fetched (`channel.c:116`).

### Seen while modelling

Definitions in the modules, violated when put in the `.cfg` of the run named:

* `FirstSerialIsZero` (`ring_safety`): frames queued before a reconnection keep their old serials,
  so the first one of a new connection need not have serial 0
  (`realtime_client.c:416`, "msgSerial resets to 0 on every new connection").
* `DestroyEndsThreads` (`conn_life`): `destroy()` frees the client under a service thread on top of
  which `connect()` was called (`realtime_client.c:796`), against "Closes first if still connected"
  (`ably_realtime.h:127`); nothing in the header rules such a call out.
* `ExitLeavesTerminalState` (`conn_life`): a close that meets a lost socket ends the thread
  without CLOSED, and `close()` reports a timeout.
* `ConfirmedIsAttached` (`chan_life`): the ATTACHED answer can be handled before `attach()` sets
  ATTACHING, which then stays.
* `ErrorIsRecorded` (`chan_life`): an ERROR frame that names a channel is handled as one of the
  connection, so the last error of the channel is not set and `channel.c:337` never reached; with
  a code that is not fatal the channel stays ATTACHED, or ATTACHING, for good
  (`realtime_client.c:291`, against "Updated on DETACHED (with error) and channel ERROR frames",
  `ably_realtime.h:234`).
* `SetUpOncePerContext` (`ws_transport`): after a lost connection `ably_ws_connect` sets up the same
  TLS context again (`ws_client.c:517`), against "must be called exactly once per context"
  (`vendor/mbedtls/include/mbedtls/ssl.h:2072`); that connect fails in the upgrade and frees
  the context, and the one behind it can succeed.
* `NoFalseLeave` (`presence_set`): an ATTACHED with HAS_PRESENCE is taken for a complete SYNC
  without members, so members whom the server has are announced as gone (`presence.h:23`).
* `AtLeastOnce` with `FlushOnCheckpoint = FALSE` (`flink_writer`): rows the Flink 1 sink holds
  over a checkpoint are lost with the task, against "at-least-once" in its README.
* `ckpt`'s rows all in `delivered` (`flink_writer`): a 3xx answer, or a 2xx answer that
  refuses a channel, returns from `publish` as a success and its rows are not sent again,
  against the same line.
* `ToldIsStored` with `Channels <- LongNames` (`rest_calls`): a name that is longer than
  `encoded_channel` is cut, and the message goes to another channel.
* The third case of `CursorIsNextPage` (`rest_calls`): a next-page path of 255 bytes or more
  is dropped, and the caller, who reads an empty cursor as the end, stops short
  (`rest_client.c:556`).  The run reaches it with every kind of page.
* `DestroyedHoldsNothing` (`ws_transport`): a lost connection is never given to `ably_ws_close`,
  and the next connect overwrites its socket (`ws_client.c:502`).
* `StandardDeltaDecodes` (`codec`): the code table is not that of RFC 3284 section 5.6: NOOP at 0,
  RUN at 18, the double instructions in another order and none at 255, against
  "standard default code table" (`vcdiff.h:18`).  Encoder and decoder of `codec` share
  the table of the code; deltas in the standard codes do not decode to their text.

Read in the code, without a property:

* Connection: the SUSPENDED wait does not look at `close_requested` first, so a close that comes
  just before is slept through (`realtime_client.c:561`); `need_token_refresh` is cleared before an
  `auth_cb` that fails (`:519`); `skip_backoff` may be used in a later cycle (`:533`); the
  result of a send is ignored (`:474`); state callbacks run with `state_mutex` held (`:136`), so
  one that calls back into the client deadlocks; a refused re-attach clears `reattach_pending` (`:669`).
* Own presence: `enter()` returns `ABLY_OK` also when the ring refused the frame; a `leave()`
  that was refused leaves the member on the server; a re-entry that read the fields before an
  update or a leave has the last word.  These are the causes `OwnEntryFollows` excepts.
* Receiving: a message that is binary or too large leaves an old base behind and the next
  delta comes out garbled, since its `from` is never checked; a recovered message may come a
  second time as a live one; a slot that changed hands ends the dispatch for the slots behind it;
  `unsubscribe()` may return while the callback runs; an ATTACHED without HAS_PRESENCE starts
  no SYNC, so the old members stay (`channel.c:127`).
* REST: the last HTTP status stays when a request fails without one (`rest_client.c:862`);
  `ABLY_ERR_TIMEOUT` is never returned; of a Link header with several links in one line the
  first target is taken; the nonce of a token is derived from the second; `batch_publish` takes an
  answer it cannot parse for success without results.
* WebSocket: bytes that come behind the 101 answer in the same read are dropped;
  `wslay_send_callback` ignores the result of its poll; `Sec-WebSocket-Accept` is not compared.
* Flink: `AblyRowSerializer.rowToMap` keeps the channel column in the payload, which
  `flink-sql-sink/README.md` excludes.

## 7. Plan

1. The slots of the presence subscribers, once their module can share the dispatch of
   `Receive`.
2. A clock for the watchdog, and the event-loop API with a host program that may call `step`
   late.
