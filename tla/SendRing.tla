------------------------------ MODULE SendRing ------------------------------
(***************************************************************************)
(* The outbound path of the real-time client (realtime_client.c).  Any     *)
(* number of threads put encoded frames into one ring under send_mutex;    *)
(* the service thread takes them out one at a time and writes them to the  *)
(* WebSocket after it has released the mutex.  A publish first claims a    *)
(* msgSerial and only then, in a second critical section, enqueues the     *)
(* frame that carries it.  The service thread resets the serial counter on *)
(* every connection attempt; it does not empty the ring.                   *)
(*                                                                         *)
(* One action is one critical section, so that everything another thread   *)
(* can do between two of them is explored.                                 *)
(***************************************************************************)
EXTENDS Integers, Sequences

CONSTANTS AppThreads,    \* application threads that publish or attach
          Svc,           \* the service thread, itself a producer
          RingCapacity,  \* ABLY_SEND_RING_CAPACITY
          MaxSerial,     \* bound: serials claimed per connection
          MaxConn        \* bound: connection attempts

ASSUME RingAssumption == RingCapacity \in Nat /\ RingCapacity >= 2
ASSUME BoundAssumption == MaxSerial \in Nat /\ MaxConn \in Nat \ {0}
ASSUME ThreadAssumption == Svc \notin AppThreads

Threads == AppThreads \cup {Svc}
Index   == 0 .. RingCapacity - 1

NoSerial == -1
\* A frame: who built it, the serial it carries, and the connection attempt
\* during which that serial was claimed.  ATTACH, DETACH and PRESENCE frames
\* carry no serial and are not told apart.
Frame == [from : Threads, serial : Nat \cup {NoSerial}, conn : Nat]
Control == [from |-> Svc, serial |-> NoSerial, conn |-> 0]
NoFrame == Control   \* what an unused slot or buffer holds

VARIABLES
  ring,       \* send_ring: the slots
  head, tail, \* send_head, send_tail
  msgSerial,  \* outbound_msg_serial
  pc,         \* per thread, the next critical section of its call
  frame,      \* per thread, the frame in its stack buffer
  answer,     \* the latest rt_enqueue_frame return: thread and code
  svc,        \* where the service thread is in its loop
  link,       \* "down", "open", "connected", "attached"
  conn,       \* the number of connection attempts so far
  taken,      \* the payload_copy of the service thread
  wire        \* the publish frames written on the current connection

ringVars == <<ring, head, tail>>
callVars == <<pc, frame, answer>>
svcVars  == <<svc, link, conn, taken, wire>>
vars     == <<ring, head, tail, msgSerial, pc, frame, answer,
              svc, link, conn, taken, wire>>

Wrap(n) == n % RingCapacity

Succ(i) == Wrap(i + 1)

Init ==
  /\ ring = [i \in Index |-> NoFrame]
  /\ head = 0 /\ tail = 0
  /\ msgSerial = 0
  /\ pc     = [t \in Threads |-> "idle"]
  /\ frame  = [t \in Threads |-> NoFrame]
  /\ answer = << >>
  /\ svc = "dial" /\ link = "down" /\ conn = 0
  /\ taken = NoFrame /\ wire = << >>

-----------------------------------------------------------------------------
(* Producers.  The service thread produces frames from its receive handler *)
(* only: the pending queue of a channel and the ATTACH of a reattachment.  *)

MayCall(t) == pc[t] = "idle" /\ (t = Svc => svc = "recv")

\* Room for one more serial, counting the one another thread is about to claim.
WithinBound ==
  msgSerial + (IF \E u \in Threads : pc[u] = "claim" THEN 1 ELSE 0) < MaxSerial

\* publish: the channel state is read under sub_mutex and must be ATTACHED.
BeginPublish(t) ==
  /\ MayCall(t)
  /\ link = "attached"
  /\ WithinBound
  /\ pc' = [pc EXCEPT ![t] = "claim"]
  /\ UNCHANGED <<ringVars, msgSerial, frame, answer, svcVars>>

\* attach, detach, presence: the connection state is read under state_mutex.
BeginControl(t) ==
  /\ MayCall(t)
  /\ link \in {"connected", "attached"}
  /\ pc' = [pc EXCEPT ![t] = "enqueue"]
  /\ frame' = [frame EXCEPT ![t] = Control]
  /\ UNCHANGED <<ringVars, msgSerial, answer, svcVars>>

\* Mutant of ClaimMsgSerial: the counter is read and the increment is lost.
ClaimMsgSerial_Lost(t) ==
  /\ pc[t] = "claim"
  /\ frame' = [frame EXCEPT ![t] = [from |-> t, serial |-> msgSerial, conn |-> conn]]
  /\ pc' = [pc EXCEPT ![t] = "enqueue"]
  /\ UNCHANGED <<ringVars, msgSerial, answer, svcVars>>

ClaimMsgSerial(t) ==
  /\ pc[t] = "claim"
  /\ msgSerial' = msgSerial + 1
  /\ frame' = [frame EXCEPT ![t] = [from |-> t, serial |-> msgSerial, conn |-> conn]]
  /\ pc' = [pc EXCEPT ![t] = "enqueue"]
  /\ UNCHANGED <<ringVars, answer, svcVars>>

\* The encoder returns 0 (the frame does not fit): the serial stays claimed.
EncodeFail(t) ==
  /\ pc[t] = "enqueue"
  /\ frame[t].serial # NoSerial
  /\ pc' = [pc EXCEPT ![t] = "idle"]
  /\ frame' = [frame EXCEPT ![t] = NoFrame]
  /\ UNCHANGED <<ringVars, msgSerial, answer, svcVars>>

\* Mutant of EnqueueFrame: the test for a full ring is missing.
EnqueueFrame_NoFullTest(t) ==
  /\ pc[t] = "enqueue"
  /\ ring' = [ring EXCEPT ![head] = frame[t]]
  /\ head' = Succ(head)
  /\ answer' = <<t, "ok">>
  /\ pc' = [pc EXCEPT ![t] = "idle"]
  /\ frame' = [frame EXCEPT ![t] = NoFrame]
  /\ UNCHANGED <<tail, msgSerial, svcVars>>

EnqueueFrame(t) ==
  /\ pc[t] = "enqueue"
  /\ \/ /\ Succ(head) = tail
        /\ answer' = <<t, "capacity">>
        /\ UNCHANGED ringVars
     \/ /\ Succ(head) # tail
        /\ ring' = [ring EXCEPT ![head] = frame[t]]
        /\ head' = Succ(head)
        /\ answer' = <<t, "ok">>
        /\ UNCHANGED tail
  /\ pc' = [pc EXCEPT ![t] = "idle"]
  /\ frame' = [frame EXCEPT ![t] = NoFrame]
  /\ UNCHANGED <<msgSerial, svcVars>>

-----------------------------------------------------------------------------
(* The service thread.  close() and the retry timers belong to Connection. *)

\* Top of the outer loop: the serial counter is reset before the dial; the
\* attempt succeeds or fails.  The last attempt within the bound succeeds.
Dial ==
  /\ svc = "dial"
  /\ conn < MaxConn
  /\ conn' = conn + 1
  /\ msgSerial' = 0
  /\ wire' = << >>
  /\ \/ svc' = "drain" /\ link' = "open"
     \/ conn + 1 < MaxConn /\ UNCHANGED <<svc, link>>
  /\ UNCHANGED <<ringVars, callVars, taken>>

\* Mutant of DrainOne: nothing is sent until CONNECTED has come.
DrainOne_WhenConnected ==
  /\ svc = "drain"
  /\ \/ /\ head = tail \/ link = "open"
        /\ svc' = "recv"
        /\ UNCHANGED <<tail, taken>>
     \/ /\ head # tail /\ link # "open"
        /\ taken' = ring[tail]
        /\ tail' = Succ(tail)
        /\ svc' = "send"
  /\ UNCHANGED <<ring, head, msgSerial, callVars, link, conn, wire>>

\* ring_peek, memcpy and ring_consume in one critical section.
DrainOne ==
  /\ svc = "drain"
  /\ \/ /\ head = tail
        /\ svc' = "recv"
        /\ UNCHANGED <<tail, taken>>
     \/ /\ head # tail
        /\ taken' = ring[tail]
        /\ tail' = Succ(tail)
        /\ svc' = "send"
  /\ UNCHANGED <<ring, head, msgSerial, callVars, link, conn, wire>>

SendOk ==
  /\ svc = "send"
  /\ wire' = IF taken.serial = NoSerial THEN wire ELSE Append(wire, taken)
  /\ taken' = NoFrame
  /\ svc' = "recv"
  /\ UNCHANGED <<ringVars, msgSerial, callVars, link, conn>>

\* Mutant of SendFail: the frame is put back, behind the ones that followed it.
SendFail_Requeue ==
  /\ svc = "send"
  /\ conn < MaxConn
  /\ IF Succ(head) = tail
     THEN UNCHANGED <<ring, head>>
     ELSE ring' = [ring EXCEPT ![head] = taken] /\ head' = Succ(head)
  /\ taken' = NoFrame
  /\ svc' = "dial" /\ link' = "down"
  /\ UNCHANGED <<tail, msgSerial, callVars, conn, wire>>

\* ably_ws_send_text fails: the copy is gone and the connection is lost.
SendFail ==
  /\ svc = "send"
  /\ conn < MaxConn
  /\ taken' = NoFrame
  /\ svc' = "dial" /\ link' = "down"
  /\ UNCHANGED <<ringVars, msgSerial, callVars, conn, wire>>

\* One ably_ws_recv_once: nothing, CONNECTED, ATTACHED or DETACHED arrives.
Recv ==
  /\ svc = "recv" /\ pc[Svc] = "idle"
  /\ \/ link' = link
     \/ link = "open" /\ link' = "connected"
     \/ link = "connected" /\ link' = "attached"
     \/ link = "attached" /\ link' = "connected"
  /\ svc' = "drain"
  /\ UNCHANGED <<ringVars, msgSerial, callVars, conn, taken, wire>>

\* The peer closes, the socket fails, or the heartbeat watchdog breaks out.
RecvDrop ==
  /\ svc = "recv" /\ pc[Svc] = "idle"
  /\ conn < MaxConn
  /\ svc' = "dial" /\ link' = "down"
  /\ UNCHANGED <<ringVars, msgSerial, callVars, conn, taken, wire>>

-----------------------------------------------------------------------------
Call(t)   == BeginPublish(t) \/ BeginControl(t)
Return(t) == ClaimMsgSerial(t) \/ EncodeFail(t) \/ EnqueueFrame(t)
Service == Dial \/ DrainOne \/ SendOk \/ SendFail \/ Recv \/ RecvDrop

Next ==
  \/ \E t \in Threads : Call(t) \/ Return(t)
  \/ Service

Spec == Init /\ [][Next]_vars

\* The service thread is scheduled; the calls it makes from a handler return,
\* and a handler makes finitely many of them (it walks the channel table and
\* the pending queue), so it gets back to its receive loop.  Nothing is assumed
\* of the application threads or of the network.
FairSpec ==
  /\ Spec
  /\ WF_vars(Service)
  /\ WF_vars(Return(Svc))
  /\ SF_vars(Recv \/ RecvDrop)

-----------------------------------------------------------------------------
\* What each variable holds.
TypeOK ==
  /\ ring \in [Index -> Frame]
  /\ head \in Index /\ tail \in Index
  /\ msgSerial \in Nat
  /\ pc \in [Threads -> {"idle", "claim", "enqueue"}]
  /\ frame \in [Threads -> Frame]
  /\ answer \in {<< >>} \cup (Threads \X {"ok", "capacity"})
  /\ svc \in {"dial", "drain", "send", "recv"}
  /\ link \in {"down", "open", "connected", "attached"}
  /\ conn \in Nat
  /\ taken \in Frame
  /\ wire \in Seq(Frame)

\* The frames between tail and head, oldest first.
Count == IF tail <= head THEN head - tail ELSE head - tail + RingCapacity
Contents == [i \in 1 .. Count |-> ring[Wrap(tail + i - 1)]]

Fifo == INSTANCE BoundedFifo
          WITH Capacity <- RingCapacity - 1, queue <- Contents, offer <- frame

\* The ring with its two indices is a bounded FIFO queue: rt_enqueue_frame
\* refuses a frame exactly when RingCapacity - 1 frames are queued, no accepted
\* frame is overwritten, duplicated or skipped, and the service thread takes
\* them in the order in which they were accepted.
IsFifo == Fifo!Spec

\* The frames that have a place in the outbound order: written on this
\* connection, copied by the service thread, or waiting in the ring.
InTransit == wire \o (IF svc = "send" THEN <<taken>> ELSE << >>) \o Contents

Publishes(f) == f.serial # NoSerial

\* Publishes of one thread during one connection leave in the order of its
\* calls: their serials increase along the way to the wire, even though the
\* claim and the enqueue are two critical sections and other threads, and a
\* reset of the counter, may come between them.
ThreadOrder ==
  LET out == InTransit IN
  \A i, j \in DOMAIN out :
    /\ i < j /\ Publishes(out[i]) /\ Publishes(out[j])
    /\ out[i].from = out[j].from /\ out[i].conn = out[j].conn
    => out[i].serial < out[j].serial

\* The publish a thread has encoded and not enqueued yet.
Holds(t) == pc[t] = "enqueue" /\ Publishes(frame[t])

Same(f, g) ==
  Publishes(f) /\ Publishes(g) /\ f.conn = g.conn /\ f.serial = g.serial

\* No serial of one connection attempt is claimed twice: not by two frames on
\* their way, nor by a frame on its way and one a thread has just encoded.
SerialsUnique ==
  LET out == InTransit IN
  /\ \A i, j \in DOMAIN out : i # j => ~Same(out[i], out[j])
  /\ \A t \in Threads, i \in DOMAIN out : Holds(t) => ~Same(frame[t], out[i])
  /\ \A t, u \in Threads : t # u /\ Holds(t) /\ Holds(u) => ~Same(frame[t], frame[u])

\* Every publish accepted into the ring is eventually taken out of it, across
\* lost connections: each connection takes at least one frame before it reads.
Queued(f) == \E i \in DOMAIN Contents : Contents[i] = f
EveryFrameTaken ==
  \A t \in Threads, s \in 0 .. MaxSerial, c \in 1 .. MaxConn :
    LET f == [from |-> t, serial |-> s, conn |-> c] IN Queued(f) ~> ~Queued(f)

\* "msgSerial resets to 0 on every new connection per Ably protocol spec"
\* (realtime_client.c:416): the first publish on a connection carries 0.
FirstSerialIsZero == wire # << >> => wire[1].serial = 0
=============================================================================
