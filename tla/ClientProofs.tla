---------------------------- MODULE ClientProofs ----------------------------
(***************************************************************************)
(* Proofs about the realtime client.  About SendRing, for every ring       *)
(* capacity, every set of threads and every bound: type correctness, and   *)
(* that the ring implements a bounded FIFO queue of one frame less than    *)
(* its capacity.  About Connection, for any number of fallback hosts, any  *)
(* retry limit, with and without auth_cb: every safety property is a       *)
(* consequence of one inductive invariant, IInv.                           *)
(***************************************************************************)
EXTENDS SendRing, Connection, TLAPS, SequenceTheorems

\* Remainders of the sums of two indices, in linear arithmetic.
LEMMA WrapValue ==
  \A n \in 0 .. 2 * RingCapacity - 1 :
    Wrap(n) = IF n < RingCapacity THEN n ELSE n - RingCapacity
BY RingAssumption DEF Wrap

\* Advancing an index of the ring stays inside the ring and wraps at its end.
LEMMA SuccIndex ==
  \A i \in Index : /\ Succ(i) \in Index
                   /\ Succ(i) = IF i + 1 = RingCapacity THEN 0 ELSE i + 1
BY RingAssumption, WrapValue DEF Index, Succ

\* Every variable of the outbound path keeps its type, in particular both
\* indices stay inside send_ring whatever the threads do.
THEOREM TypeCorrect == Spec => []TypeOK
<1> USE RingAssumption, BoundAssumption, ThreadAssumption
<1>0. Control \in Frame /\ NoFrame \in Frame
  BY DEF Control, NoFrame, Frame, Threads
<1>1. Init => TypeOK
  <2> SUFFICES ASSUME Init PROVE TypeOK
    OBVIOUS
  <2>1. 0 \in Index
    BY DEF Index
  <2>2. << >> \in Seq(Frame)
    OBVIOUS
  <2> QED  BY <1>0, <2>1, <2>2 DEF Init, TypeOK
<1>2. TypeOK /\ [Next]_vars => TypeOK'
  <2> SUFFICES ASSUME TypeOK, [Next]_vars PROVE TypeOK'
    OBVIOUS
  <2> USE DEF TypeOK
  <2>1. ASSUME NEW t \in Threads, BeginPublish(t) PROVE TypeOK'
    BY <2>1 DEF BeginPublish, MayCall, ringVars, svcVars
  <2>2. ASSUME NEW t \in Threads, BeginControl(t) PROVE TypeOK'
    BY <2>2, <1>0 DEF BeginControl, MayCall, ringVars, svcVars
  <2>3. ASSUME NEW t \in Threads, ClaimMsgSerial(t) PROVE TypeOK'
    <3>1. [from |-> t, serial |-> msgSerial, conn |-> conn] \in Frame
      BY DEF Frame
    <3> QED  BY <2>3, <3>1 DEF ClaimMsgSerial, ringVars, svcVars
  <2>4. ASSUME NEW t \in Threads, EncodeFail(t) PROVE TypeOK'
    BY <2>4, <1>0 DEF EncodeFail, ringVars, svcVars
  <2>5. ASSUME NEW t \in Threads, EnqueueFrame(t) PROVE TypeOK'
    <3>1. answer' \in {<< >>} \cup (Threads \X {"ok", "capacity"})
      BY <2>5 DEF EnqueueFrame
    <3>2. ring' \in [Index -> Frame] /\ head' \in Index /\ tail' \in Index
      BY <2>5, SuccIndex DEF EnqueueFrame, ringVars
    <3> QED  BY <2>5, <1>0, <3>1, <3>2 DEF EnqueueFrame, svcVars
  <2>6. CASE Dial
    BY <2>6 DEF Dial, ringVars, callVars
  <2>7. CASE DrainOne
    BY <2>7, SuccIndex DEF DrainOne, callVars
  <2>8. CASE SendOk
    BY <2>8, <1>0 DEF SendOk, ringVars, callVars
  <2>9. CASE SendFail
    BY <2>9, <1>0 DEF SendFail, ringVars, callVars
  <2>10. CASE Recv
    BY <2>10 DEF Recv, ringVars, callVars
  <2>11. CASE RecvDrop
    BY <2>11 DEF RecvDrop, ringVars, callVars
  <2>12. CASE UNCHANGED vars
    BY <2>12 DEF vars
  <2> QED
    BY <2>1, <2>2, <2>3, <2>4, <2>5, <2>6, <2>7, <2>8, <2>9, <2>10, <2>11,
       <2>12 DEF Next, Call, Return, Service
<1> QED  BY <1>1, <1>2, PTL DEF Spec

-----------------------------------------------------------------------------
\* The queued frames form a sequence whose length is the distance of the two
\* indices; it is at most RingCapacity - 1, and it is RingCapacity - 1 exactly
\* when advancing head would meet tail.
LEMMA ContentsSeq ==
  ASSUME TypeOK
  PROVE  /\ Count \in 0 .. RingCapacity - 1
         /\ Contents \in Seq(Frame)
         /\ Len(Contents) = Count
         /\ Succ(head) = tail <=> Count = RingCapacity - 1
         /\ head = tail <=> Count = 0
<1> USE RingAssumption
<1>1. Count \in 0 .. RingCapacity - 1
  BY DEF TypeOK, Count, Index
<1>2. \A i \in 1 .. Count : Wrap(tail + i - 1) \in Index
  BY <1>1, WrapValue DEF TypeOK, Index
<1>3. \A i \in 1 .. Count : ring[Wrap(tail + i - 1)] \in Frame
  BY <1>2 DEF TypeOK
<1>4. Contents \in Seq(Frame) /\ Len(Contents) = Count
  BY <1>1, <1>3 DEF Contents
<1>5. Succ(head) = tail <=> Count = RingCapacity - 1
  BY SuccIndex DEF TypeOK, Count, Index
<1>6. head = tail <=> Count = 0
  BY DEF TypeOK, Count, Index
<1> QED  BY <1>1, <1>4, <1>5, <1>6

\* A step that leaves slots and indices alone leaves the queue alone.
LEMMA SameContents == ASSUME UNCHANGED ringVars PROVE Contents' = Contents
BY DEF ringVars, Contents, Count

\* An accepted frame is appended: the slot at head is outside the queue, so no
\* queued frame is overwritten.
LEMMA AcceptAppends ==
  ASSUME TypeOK, NEW f \in Frame, Succ(head) # tail,
         ring' = [ring EXCEPT ![head] = f], head' = Succ(head), tail' = tail
  PROVE  Contents' = Append(Contents, f)
<1> USE RingAssumption
<1>0. head \in Index /\ tail \in Index /\ ring \in [Index -> Frame]
  BY DEF TypeOK
<1>1. Count' = Count + 1 /\ Count \in 0 .. RingCapacity - 2
  <2>1. head' = IF head + 1 = RingCapacity THEN 0 ELSE head + 1
    BY <1>0, SuccIndex
  <2>2. head' # tail
    OBVIOUS
  <2> QED  BY <1>0, <2>1, <2>2 DEF Count, Index
<1>2. ASSUME NEW i \in 1 .. Count
      PROVE  ring'[Wrap(tail + i - 1)] = ring[Wrap(tail + i - 1)]
  <2>1. Wrap(tail + i - 1) \in Index /\ Wrap(tail + i - 1) # head
    BY <1>0, <1>1, WrapValue DEF Count, Index
  <2> QED  BY <1>0, <2>1
<1>3. Wrap(tail + (Count + 1) - 1) = head
  BY <1>0, <1>1, WrapValue DEF Count, Index
<1>4. Contents' = [i \in 1 .. Count + 1 |-> ring'[Wrap(tail + i - 1)]]
  BY <1>1 DEF Contents
<1>5. Contents \in Seq(Frame) /\ Len(Contents) = Count
  BY ContentsSeq
<1>6. /\ Append(Contents, f) \in Seq(Frame)
      /\ Len(Append(Contents, f)) = Count + 1
      /\ \A i \in 1 .. Count : Append(Contents, f)[i] = Contents[i]
      /\ Append(Contents, f)[Count + 1] = f
  BY <1>5, AppendProperties
<1>7. Contents' \in Seq(Frame) /\ Len(Contents') = Count + 1
  <2>1. \A i \in 1 .. Count + 1 : ring'[Wrap(tail + i - 1)] \in Frame
    <3>1. \A i \in 1 .. Count + 1 : Wrap(tail + i - 1) \in Index
      BY <1>0, <1>1, WrapValue DEF Index
    <3> QED  BY <1>0, <3>1
  <2> QED  BY <1>1, <1>4, <2>1
<1>8. ASSUME NEW i \in 1 .. Count + 1
      PROVE  Contents'[i] = Append(Contents, f)[i]
  <2>1. CASE i = Count + 1
    BY <2>1, <1>0, <1>3, <1>4, <1>6
  <2>2. CASE i # Count + 1
    <3>1. i \in 1 .. Count
      BY <2>2, <1>1
    <3> QED  BY <3>1, <1>2, <1>4, <1>6 DEF Contents
  <2> QED  BY <2>1, <2>2
<1> QED  BY <1>1, <1>6, <1>7, <1>8, SeqEqual

\* The frame the service thread takes is the oldest one, and only that one
\* leaves the queue.
LEMMA TakeRemovesHead ==
  ASSUME TypeOK, head # tail, ring' = ring, head' = head, tail' = Succ(tail)
  PROVE  /\ Contents # << >>
         /\ ring[tail] = Head(Contents)
         /\ Contents' = Tail(Contents)
<1> USE RingAssumption
<1>0. head \in Index /\ tail \in Index /\ ring \in [Index -> Frame]
  BY DEF TypeOK
<1>1. Count \in 1 .. RingCapacity - 1 /\ Count' = Count - 1
  <2>1. tail' = IF tail + 1 = RingCapacity THEN 0 ELSE tail + 1
    BY <1>0, SuccIndex
  <2> QED  BY <1>0, <2>1 DEF Count, Index
<1>2. Contents \in Seq(Frame) /\ Len(Contents) = Count
  BY ContentsSeq
<1>3. Contents # << >>
  BY <1>1, <1>2
<1>4. ring[tail] = Head(Contents)
  <2>1. Wrap(tail + 1 - 1) = tail
    BY <1>0, WrapValue DEF Index
  <2> QED  BY <1>1, <1>2, <1>3, <2>1 DEF Contents
<1>5. Contents' = [i \in 1 .. Count - 1 |-> ring[Wrap(tail' + i - 1)]]
  BY <1>1 DEF Contents
<1>6. /\ Tail(Contents) \in Seq(Frame)
      /\ Len(Tail(Contents)) = Count - 1
      /\ \A i \in 1 .. Count - 1 : Tail(Contents)[i] = Contents[i + 1]
  BY <1>1, <1>2, <1>3, HeadTailProperties
<1>7. \A i \in 1 .. Count - 1 : Wrap(tail' + i - 1) = Wrap(tail + (i + 1) - 1)
  BY <1>0, <1>1, SuccIndex, WrapValue, SMTT(30) DEF Index
<1>8. \A i \in 1 .. Count - 1 : Contents'[i] = Tail(Contents)[i]
  BY <1>1, <1>5, <1>6, <1>7 DEF Contents
<1>9. Contents' \in Seq(Frame) /\ Len(Contents') = Count - 1
  <2>1. \A i \in 1 .. Count - 1 : Wrap(tail' + i - 1) \in Index
    <3>1. \A i \in 1 .. Count - 1 : Wrap(tail + (i + 1) - 1) \in Index
      BY <1>0, <1>1, WrapValue DEF Index
    <3> QED  BY <1>7, <3>1
  <2> QED  BY <1>0, <1>1, <1>5, <2>1
<1> QED  BY <1>1, <1>3, <1>4, <1>6, <1>8, <1>9, SeqEqual

-----------------------------------------------------------------------------
\* The ring implements the bounded FIFO queue of BoundedFifo (the definition
\* IsFifo), for every capacity: rt_enqueue_frame appends or, exactly when
\* RingCapacity - 1 frames are queued, refuses; the drain of the service thread
\* removes the oldest frame; nothing else changes the queue.
THEOREM RingIsFifo == Spec => IsFifo
<1> USE RingAssumption, ThreadAssumption
<1>1. Init => Fifo!Init
  <2> SUFFICES ASSUME Init PROVE Fifo!Init
    OBVIOUS
  <2>1. Contents = << >>
    BY DEF Init, Contents, Count
  <2>2. frame \in [Threads -> Frame]
    BY DEF Init, NoFrame, Control, Frame, Threads
  <2> QED  BY <2>1, <2>2 DEF Init, Fifo!Init
<1>2. TypeOK /\ TypeOK' /\ [Next]_vars => [Fifo!Next]_(Fifo!vars)
  <2> SUFFICES ASSUME TypeOK, TypeOK', [Next]_vars
               PROVE  Fifo!Next \/ UNCHANGED Fifo!vars
    BY DEF Fifo!vars
  <2>1. frame \in [Threads -> Frame] /\ frame' \in [Threads -> Frame]
    BY DEF TypeOK
  <2>2. ASSUME NEW t \in Threads,
               \A u \in Threads \ {t} : frame'[u] = frame[u],
               UNCHANGED <<ringVars, answer>>
        PROVE  Fifo!Next
    BY <2>1, <2>2, SameContents DEF Fifo!Next, Fifo!Rework, Fifo!Prepare
  <2>3. ASSUME NEW t \in Threads, BeginPublish(t) PROVE UNCHANGED Fifo!vars
    BY <2>3, SameContents DEF BeginPublish, ringVars, svcVars, Fifo!vars
  <2>4. ASSUME NEW t \in Threads, BeginControl(t) PROVE Fifo!Next
    BY <2>1, <2>2, <2>4 DEF BeginControl
  <2>5. ASSUME NEW t \in Threads, ClaimMsgSerial(t) PROVE Fifo!Next
    BY <2>1, <2>2, <2>5 DEF ClaimMsgSerial
  <2>6. ASSUME NEW t \in Threads, EncodeFail(t) PROVE Fifo!Next
    BY <2>1, <2>2, <2>6 DEF EncodeFail
  <2>7. ASSUME NEW t \in Threads, EnqueueFrame(t) PROVE Fifo!Next
    <3>1. Fifo!Prepare(t)
      BY <2>1, <2>7 DEF EnqueueFrame, Fifo!Prepare
    <3>2. CASE Succ(head) = tail
      <4>1. UNCHANGED ringVars /\ answer' = <<t, "capacity">>
        BY <2>7, <3>2 DEF EnqueueFrame
      <4>2. Len(Contents) = RingCapacity - 1 /\ Contents' = Contents
        BY <3>2, <4>1, ContentsSeq, SameContents
      <4> QED  BY <3>1, <4>1, <4>2 DEF Fifo!Next, Fifo!Refuse
    <3>3. CASE Succ(head) # tail
      <4>1. /\ ring' = [ring EXCEPT ![head] = frame[t]]
            /\ head' = Succ(head) /\ tail' = tail
            /\ answer' = <<t, "ok">>
        BY <2>7, <3>3 DEF EnqueueFrame
      <4>2. Len(Contents) < RingCapacity - 1
        BY <3>3, ContentsSeq
      <4>3. Contents' = Append(Contents, frame[t])
        BY <2>1, <3>3, <4>1, AcceptAppends
      <4> QED  BY <3>1, <4>1, <4>2, <4>3 DEF Fifo!Next, Fifo!Accept
    <3> QED  BY <3>2, <3>3
  <2>8. CASE DrainOne
    <3>1. UNCHANGED <<frame, answer>>
      BY <2>8 DEF DrainOne, callVars
    <3>2. CASE head = tail
      BY <2>8, <3>1, <3>2, SameContents DEF DrainOne, ringVars, Fifo!vars
    <3>3. CASE head # tail
      <4>1. ring' = ring /\ head' = head /\ tail' = Succ(tail)
        BY <2>8, <3>3 DEF DrainOne
      <4>2. Contents # << >> /\ Contents' = Tail(Contents)
        BY <3>3, <4>1, TakeRemovesHead
      <4> QED  BY <3>1, <4>2 DEF Fifo!Next, Fifo!Remove
    <3> QED  BY <3>2, <3>3
  <2>9. ASSUME UNCHANGED <<ringVars, callVars>> PROVE UNCHANGED Fifo!vars
    BY <2>9, SameContents DEF callVars, Fifo!vars
  <2>10. CASE Dial \/ SendOk \/ SendFail \/ Recv \/ RecvDrop
    BY <2>9, <2>10 DEF Dial, SendOk, SendFail, Recv, RecvDrop
  <2>11. CASE UNCHANGED vars
    BY <2>9, <2>11 DEF vars, ringVars, callVars
  <2> QED
    BY <2>3, <2>4, <2>5, <2>6, <2>7, <2>8, <2>10, <2>11
       DEF Next, Call, Return, Service
<1> QED  BY <1>1, <1>2, TypeCorrect, PTL DEF Spec, IsFifo, Fifo!Spec

-----------------------------------------------------------------------------
(* The order and the uniqueness of the serials.                            *)

\* Of two frames in transit the first one has been claimed before: its serial
\* differs within one connection, and is smaller within one thread.
Precedes(f, g) ==
  Publishes(f) /\ Publishes(g) /\ f.conn = g.conn =>
    /\ f.serial # g.serial
    /\ f.from = g.from => f.serial < g.serial

Sorted(s) == \A i, j \in DOMAIN s : i < j => Precedes(s[i], s[j])

\* A frame whose serial is behind the counter n of connection c.
Counted(f, c, n) == Publishes(f) => f.conn <= c /\ (f.conn = c => f.serial < n)

\* The strengthening: what a thread holds comes behind all of its own that is in
\* transit, and the counter behind every serial of the connection.
SerialInv ==
  /\ Sorted(InTransit)
  /\ \A i \in DOMAIN InTransit : Counted(InTransit[i], conn, msgSerial)
  /\ \A t \in Threads : Holds(t) =>
       /\ frame[t].from = t /\ Counted(frame[t], conn, msgSerial)
       /\ \A i \in DOMAIN InTransit : Precedes(InTransit[i], frame[t])
       /\ \A u \in Threads : u # t /\ Holds(u) => ~Same(frame[t], frame[u])

\* The new sequence is the old one, some frames of which have left.
Thinned(new, old) ==
  \E h \in [DOMAIN new -> DOMAIN old] :
    /\ \A i \in DOMAIN new : new[i] = old[h[i]]
    /\ \A i, j \in DOMAIN new : i < j => h[i] < h[j]

\* Frames that leave from the middle of a sequence.
LEMMA RemoveMiddle ==
  ASSUME NEW a \in Seq(Frame), NEW b \in Seq(Frame), NEW c \in Seq(Frame)
  PROVE  Thinned(a \o c, a \o b \o c)
<1> DEFINE new == a \o c
           old == a \o b \o c
           h == [i \in DOMAIN new |-> IF i <= Len(a) THEN i ELSE i + Len(b)]
<1>1. DOMAIN new = 1 .. Len(a) + Len(c) /\ DOMAIN old = 1 .. Len(a) + Len(b) + Len(c)
  OBVIOUS
<1>2. Len(a) \in Nat /\ Len(b) \in Nat /\ Len(c) \in Nat
  OBVIOUS
<1>3. h \in [DOMAIN new -> DOMAIN old]
  BY <1>1, <1>2
<1>4. ASSUME NEW i \in DOMAIN new PROVE new[i] = old[h[i]]
  <2>1. CASE i <= Len(a)
    BY <2>1, <1>1, <1>2
  <2>2. CASE i > Len(a)
    BY <2>2, <1>1, <1>2
  <2> QED  BY <2>1, <2>2, <1>1, <1>2
<1>5. ASSUME NEW i \in DOMAIN new, NEW j \in DOMAIN new, i < j PROVE h[i] < h[j]
  BY <1>1, <1>2, <1>5
<1> QED  BY <1>3, <1>4, <1>5 DEF Thinned

\* What SerialInv needs of the threads in a step that encodes nothing new: who
\* holds a frame held it before.
LessHeld ==
  \A t \in Threads : Holds(t)' => Holds(t) /\ frame'[t] = frame[t]

\* What is in transit, as the sequence of its three parts.
LEMMA TransitParts ==
  ASSUME TypeOK
  PROVE  /\ wire \in Seq(Frame) /\ Contents \in Seq(Frame) /\ <<taken>> \in Seq(Frame)
         /\ svc = "send" => InTransit = wire \o <<taken>> \o Contents
         /\ svc # "send" => InTransit = wire \o << >> \o Contents
         /\ InTransit \in Seq(Frame)
<1>1. wire \in Seq(Frame) /\ Contents \in Seq(Frame) /\ <<taken>> \in Seq(Frame)
  BY ContentsSeq DEF TypeOK
<1>2. svc = "send" => InTransit = wire \o <<taken>> \o Contents
  BY DEF InTransit
<1>3. svc # "send" => InTransit = wire \o << >> \o Contents
  BY DEF InTransit
<1>4. ASSUME NEW m \in Seq(Frame) PROVE wire \o m \o Contents \in Seq(Frame)
  BY <1>1
<1>5. << >> \in Seq(Frame)
  OBVIOUS
<1> QED  BY <1>1, <1>2, <1>3, <1>4, <1>5

\* The counter is where it was, or starts again on a new connection.
CounterStep ==
  \/ conn' = conn /\ msgSerial' = msgSerial
  \/ conn' = conn + 1 /\ msgSerial' = 0

\* Frames that leave, or give way to one another, do not disturb the order.
LEMMA ThinningKeeps ==
  ASSUME TypeOK, SerialInv, Thinned(InTransit', InTransit), LessHeld, CounterStep
  PROVE  SerialInv'
<1>1. PICK h \in [DOMAIN InTransit' -> DOMAIN InTransit] :
         /\ \A i \in DOMAIN InTransit' : InTransit'[i] = InTransit[h[i]]
         /\ \A i, j \in DOMAIN InTransit' : i < j => h[i] < h[j]
  BY DEF Thinned
<1>2. Sorted(InTransit')
  BY <1>1 DEF SerialInv, Sorted
<1>3. ASSUME NEW f \in Frame, Counted(f, conn, msgSerial) PROVE Counted(f, conn', msgSerial')
  BY <1>3 DEF Counted, CounterStep, TypeOK, Frame
<1>4. \A i \in DOMAIN InTransit : InTransit[i] \in Frame
  BY TransitParts
<1>5. \A i \in DOMAIN InTransit' : Counted(InTransit'[i], conn', msgSerial')
  BY <1>1, <1>3, <1>4 DEF SerialInv
<1>6. ASSUME NEW t \in Threads, Holds(t)'
      PROVE  /\ frame'[t].from = t /\ Counted(frame'[t], conn', msgSerial')
             /\ \A i \in DOMAIN InTransit' : Precedes(InTransit'[i], frame'[t])
             /\ \A u \in Threads : u # t /\ Holds(u)' => ~Same(frame'[t], frame'[u])
  <2>1. Holds(t) /\ frame'[t] = frame[t] /\ frame[t] \in Frame
    BY <1>6 DEF LessHeld, TypeOK
  <2> QED  BY <2>1, <1>1, <1>3 DEF SerialInv, LessHeld
<1> QED  BY <1>2, <1>5, <1>6 DEF SerialInv

\* A sequence with none of its frames gone.
LEMMA ThinnedSame == ASSUME NEW s \in Seq(Frame) PROVE Thinned(s, s)
<1>1. [i \in DOMAIN s |-> i] \in [DOMAIN s -> DOMAIN s]
  OBVIOUS
<1> QED  BY <1>1 DEF Thinned

\* A step of a thread that puts nothing in transit and encodes nothing.
LEMMA QuietStep ==
  ASSUME TypeOK, SerialInv, LessHeld, CounterStep, InTransit' = InTransit
  PROVE  SerialInv'
BY TransitParts, ThinnedSame, ThinningKeeps

LEMMA SameTransit ==
  ASSUME UNCHANGED <<ringVars, svcVars>> PROVE InTransit' = InTransit /\ conn' = conn
BY SameContents DEF svcVars, InTransit

\* A claimed serial is the counter, which is behind all others of the connection.
LEMMA ClaimKeeps ==
  ASSUME TypeOK, SerialInv, NEW t \in Threads, ClaimMsgSerial(t) PROVE SerialInv'
<1> DEFINE f == [from |-> t, serial |-> msgSerial, conn |-> conn]
<1>1. InTransit' = InTransit /\ conn' = conn /\ msgSerial' = msgSerial + 1
  BY SameTransit DEF ClaimMsgSerial
<1>2. frame'[t] = f /\ \A u \in Threads \ {t} : frame'[u] = frame[u] /\ (Holds(u)' <=> Holds(u))
  BY DEF ClaimMsgSerial, TypeOK, Holds
<1>3. \A i \in DOMAIN InTransit : InTransit[i] \in Frame
  BY TransitParts
<1>4. f \in Frame /\ Publishes(f) /\ Counted(f, conn, msgSerial + 1)
  BY DEF TypeOK, Frame, Publishes, NoSerial, Counted
<1>5. ASSUME NEW g \in Frame, Counted(g, conn, msgSerial)
      PROVE  Counted(g, conn, msgSerial + 1) /\ Precedes(g, f) /\ ~Same(g, f) /\ ~Same(f, g)
  BY <1>5 DEF TypeOK, Frame, Counted, Precedes, Same, NoSerial, Publishes
<1>6. \A i \in DOMAIN InTransit : Counted(InTransit[i], conn, msgSerial + 1) /\ Precedes(InTransit[i], f)
  BY <1>3, <1>5 DEF SerialInv
<1>7. \A u \in Threads \ {t} : Holds(u) =>
        frame[u] \in Frame /\ Counted(frame[u], conn, msgSerial + 1)
          /\ ~Same(frame[u], f) /\ ~Same(f, frame[u])
  BY <1>5 DEF SerialInv, TypeOK
<1>8. ASSUME NEW u \in Threads, Holds(u)'
      PROVE  /\ frame'[u].from = u /\ Counted(frame'[u], conn', msgSerial')
             /\ \A i \in DOMAIN InTransit' : Precedes(InTransit'[i], frame'[u])
             /\ \A v \in Threads : v # u /\ Holds(v)' => ~Same(frame'[u], frame'[v])
  <2>1. CASE u = t
    BY <2>1, <1>1, <1>2, <1>4, <1>6, <1>7
  <2>2. CASE u # t
    BY <2>2, <1>1, <1>2, <1>7, <1>8 DEF SerialInv
  <2> QED  BY <2>1, <2>2
<1> QED  BY <1>1, <1>6, <1>8 DEF SerialInv

\* A frame that is accepted comes behind all that is in transit.
LEMMA EnqueueKeeps ==
  ASSUME TypeOK, TypeOK', SerialInv, NEW t \in Threads, EnqueueFrame(t) PROVE SerialInv'
<1>1. LessHeld /\ CounterStep /\ ~Holds(t)'
  BY DEF EnqueueFrame, svcVars, LessHeld, CounterStep, TypeOK, Holds, NoFrame, Control, Publishes
<1>2. CASE Succ(head) = tail
  <2>1. InTransit' = InTransit
    BY <1>2, SameTransit DEF EnqueueFrame
  <2> QED  BY <1>1, <2>1, QuietStep
<1>3. CASE Succ(head) # tail
  <2> DEFINE f == frame[t]
  <2>1. f \in Frame
    BY DEF TypeOK
  <2>2. Contents' = Append(Contents, f)
    BY <1>3, <2>1, AcceptAppends DEF EnqueueFrame
  <2>3. InTransit' = Append(InTransit, f)
    <3>1. wire' = wire /\ taken' = taken /\ svc' = svc
      BY DEF EnqueueFrame, svcVars
    <3>2. Contents \in Seq(Frame) /\ wire \in Seq(Frame) /\ <<taken>> \in Seq(Frame)
      BY TransitParts
    <3>3. ASSUME NEW m \in Seq(Frame)
          PROVE  wire \o m \o Append(Contents, f) = Append(wire \o m \o Contents, f)
      BY <2>1, <3>2
    <3> DEFINE m == IF svc = "send" THEN <<taken>> ELSE << >>
    <3>4. m \in Seq(Frame)
      BY <3>2
    <3>5. InTransit = wire \o m \o Contents /\ InTransit' = wire \o m \o Append(Contents, f)
      BY <2>2, <3>1 DEF InTransit
    <3> QED  BY <3>3, <3>4, <3>5
  <2>4. Holds(t) => \A i \in DOMAIN InTransit : Precedes(InTransit[i], f)
    BY DEF SerialInv
  <2>5. \A i \in DOMAIN InTransit : Precedes(InTransit[i], f)
    BY <2>4 DEF EnqueueFrame, Holds, Precedes
  <2>6. Counted(f, conn, msgSerial)
    BY DEF EnqueueFrame, Holds, Counted, SerialInv
  <2>7. /\ DOMAIN InTransit' = 1 .. Len(InTransit) + 1 /\ Len(InTransit) \in Nat
        /\ \A i \in DOMAIN InTransit : InTransit'[i] = InTransit[i]
        /\ InTransit'[Len(InTransit) + 1] = f /\ DOMAIN InTransit = 1 .. Len(InTransit)
    BY <2>1, <2>3, TransitParts
  <2>8. Sorted(InTransit')
    BY <2>5, <2>7 DEF Sorted, SerialInv
  <2>9. \A i \in DOMAIN InTransit' : Counted(InTransit'[i], conn', msgSerial')
    BY <2>6, <2>7 DEF EnqueueFrame, svcVars, SerialInv
  <2>10. ASSUME NEW u \in Threads, Holds(u)'
         PROVE  /\ frame'[u].from = u /\ Counted(frame'[u], conn', msgSerial')
                /\ \A i \in DOMAIN InTransit' : Precedes(InTransit'[i], frame'[u])
                /\ \A v \in Threads : v # u /\ Holds(v)' => ~Same(frame'[u], frame'[v])
    <3>1. u # t /\ Holds(u) /\ frame'[u] = frame[u] /\ frame[u] \in Frame
      BY <1>1, <2>10 DEF LessHeld, TypeOK
    <3>2. Precedes(f, frame[u])
      <4>1. Holds(t) => f.from = t /\ frame[u].from = u /\ ~Same(frame[u], f)
        BY <3>1 DEF SerialInv
      <4> QED  BY <2>1, <3>1, <4>1 DEF EnqueueFrame, Holds, Precedes, Same
    <3>3. \A i \in DOMAIN InTransit' : Precedes(InTransit'[i], frame[u])
      BY <2>7, <3>1, <3>2 DEF SerialInv
    <3>4. conn' = conn /\ msgSerial' = msgSerial
      BY DEF EnqueueFrame, svcVars
    <3> QED  BY <1>1, <3>1, <3>3, <3>4 DEF SerialInv, LessHeld
  <2> QED  BY <2>8, <2>9, <2>10 DEF SerialInv
<1> QED  BY <1>2, <1>3

\* The steps of the service thread let frames leave, in the order they are in.
LEMMA ServiceKeeps ==
  ASSUME TypeOK, TypeOK', SerialInv, Service PROVE SerialInv'
<1>1. LessHeld /\ CounterStep
  <2>1. UNCHANGED callVars
    BY DEF Service, Dial, DrainOne, SendOk, SendFail, Recv, RecvDrop
  <2>2. CounterStep
    BY DEF CounterStep, Service, Dial, DrainOne, SendOk, SendFail, Recv, RecvDrop
  <2> QED  BY <2>1, <2>2 DEF LessHeld, callVars, Holds
<1> USE TransitParts
<1>2. Thinned(InTransit', InTransit)
  <2>1. CASE Dial
    <3>1. Contents' = Contents /\ wire' = << >> /\ svc # "send" /\ svc' # "send"
      BY <2>1, SameContents DEF Dial
    <3>2. InTransit' = << >> \o << >> \o Contents /\ InTransit = wire \o << >> \o Contents
      BY <3>1 DEF InTransit
    <3>3. InTransit' = << >> \o Contents /\ InTransit = << >> \o wire \o Contents
      BY <3>2
    <3>4. << >> \in Seq(Frame) /\ wire \in Seq(Frame) /\ Contents \in Seq(Frame)
      OBVIOUS
    <3>5. Thinned(<< >> \o Contents, << >> \o wire \o Contents)
      BY ONLY <3>4, RemoveMiddle
    <3> QED  BY ONLY <3>3, <3>5
  <2>2. CASE DrainOne
    <3>1. CASE head = tail
      <4>1. Contents' = Contents /\ wire' = wire /\ svc # "send" /\ svc' # "send"
        BY <2>2, <3>1, SameContents DEF DrainOne, ringVars
      <4> QED  BY <4>1, ThinnedSame DEF InTransit
    <3>2. CASE head # tail
      <4>1. /\ wire' = wire /\ svc # "send" /\ svc' = "send" /\ taken' = ring[tail]
            /\ ring' = ring /\ head' = head /\ tail' = Succ(tail)
        BY <2>2, <3>2 DEF DrainOne
      <4>2. Contents # << >> /\ taken' = Head(Contents) /\ Contents' = Tail(Contents)
        BY <3>2, <4>1, TakeRemovesHead
      <4>3. Contents = <<Head(Contents)>> \o Tail(Contents)
        BY <4>2
      <4>4. /\ InTransit' = wire \o <<Head(Contents)>> \o Tail(Contents)
            /\ InTransit = wire \o << >> \o Contents
        BY <4>1, <4>2 DEF InTransit
      <4>5. InTransit' = InTransit
        BY <4>2, <4>3, <4>4
      <4> QED  BY <4>5, ThinnedSame
    <3> QED  BY <3>1, <3>2
  <2>3. CASE SendOk
    <3>1. Contents' = Contents /\ svc = "send" /\ svc' # "send"
      BY <2>3, SameContents DEF SendOk
    <3>2. InTransit = wire \o <<taken>> \o Contents /\ InTransit' = wire' \o << >> \o Contents
      BY <3>1 DEF InTransit
    <3>3. CASE taken.serial = NoSerial
      <4>1. InTransit' = wire \o Contents
        BY <2>3, <3>2, <3>3 DEF SendOk
      <4> QED  BY <3>2, <4>1, RemoveMiddle
    <3>4. CASE taken.serial # NoSerial
      <4>1. InTransit' = Append(wire, taken) \o Contents
        BY <2>3, <3>2, <3>4 DEF SendOk
      <4>2. taken \in Frame
        BY DEF TypeOK
      <4>3. InTransit' = InTransit
        <5>1. Append(wire, taken) = wire \o <<taken>>
          BY <4>2
        <5> QED  BY <3>2, <4>1, <5>1
      <4> QED  BY <4>3, ThinnedSame
    <3> QED  BY <3>3, <3>4
  <2>4. CASE SendFail
    <3>1. Contents' = Contents /\ svc = "send" /\ svc' # "send" /\ wire' = wire
      BY <2>4, SameContents DEF SendFail
    <3>2. InTransit = wire \o <<taken>> \o Contents /\ InTransit' = wire \o << >> \o Contents
      BY <3>1 DEF InTransit
    <3>3. InTransit' = wire \o Contents
      BY <3>2
    <3> QED  BY <3>2, <3>3, RemoveMiddle
  <2>5. CASE Recv \/ RecvDrop
    <3>1. Contents' = Contents /\ wire' = wire /\ svc # "send" /\ svc' # "send"
      BY <2>5, SameContents DEF Recv, RecvDrop
    <3> QED  BY <3>1, ThinnedSame DEF InTransit
  <2> QED  BY <2>1, <2>2, <2>3, <2>4, <2>5 DEF Service
<1> QED  BY <1>1, <1>2, ThinningKeeps

\* SerialInv is inductive.
LEMMA SerialStep ==
  ASSUME TypeOK, TypeOK', SerialInv, [Next]_vars PROVE SerialInv'
<1>1. ASSUME NEW t \in Threads, BeginPublish(t) \/ BeginControl(t) \/ EncodeFail(t) PROVE SerialInv'
  <2>1. UNCHANGED <<ringVars, msgSerial, svcVars>>
    BY <1>1 DEF BeginPublish, BeginControl, EncodeFail
  <2>2. LessHeld
    BY <1>1 DEF LessHeld, Holds, Publishes, BeginPublish, BeginControl, EncodeFail, TypeOK,
                NoFrame, Control
  <2> QED  BY <2>1, <2>2, SameTransit, QuietStep DEF CounterStep
<1>2. CASE UNCHANGED vars
  <2>1. UNCHANGED <<ringVars, msgSerial, svcVars>> /\ LessHeld
    BY <1>2 DEF vars, ringVars, svcVars, LessHeld, Holds
  <2> QED  BY <2>1, SameTransit, QuietStep DEF CounterStep
<1> QED
  BY <1>1, <1>2, ClaimKeeps, EnqueueKeeps, ServiceKeeps DEF Next, Call, Return

\* SerialInv holds in every reachable state.
LEMMA SerialsInOrder == Spec => []SerialInv
<1>1. Init => SerialInv
  <2> SUFFICES ASSUME Init PROVE SerialInv
    OBVIOUS
  <2>1. Contents = << >>
    BY DEF Init, Contents, Count
  <2>2. InTransit = << >> \o << >> \o << >>
    BY <2>1 DEF Init, InTransit
  <2> QED  BY <2>2 DEF Init, SerialInv, Sorted, Holds
<1> QED  BY <1>1, SerialStep, TypeCorrect, PTL DEF Spec

\* The publishes of a thread leave in the order of its calls, whatever the other
\* threads and lost connections do: rt_claim_msg_serial and rt_enqueue_frame are
\* two critical sections, and ThreadOrder holds between any of them.
THEOREM PublishesInOrder == Spec => []ThreadOrder
<1>1. TypeOK /\ SerialInv => ThreadOrder
  BY DEF SerialInv, Sorted, Precedes, ThreadOrder
<1> QED  BY <1>1, SerialsInOrder, TypeCorrect, PTL

\* No two publishes of a connection have the same msgSerial, for any number of
\* threads that claim one.
THEOREM NoSerialTwice == Spec => []SerialsUnique
<1>1. ASSUME TypeOK, SerialInv PROVE SerialsUnique
  <2>1. InTransit \in Seq(Frame)
    BY <1>1, TransitParts
  <2>2. \A i, j \in DOMAIN InTransit : i # j => ~Same(InTransit[i], InTransit[j])
    BY <1>1, <2>1 DEF SerialInv, Sorted, Precedes, Same
  <2>3. \A t \in Threads, i \in DOMAIN InTransit : Holds(t) => ~Same(frame[t], InTransit[i])
    BY <1>1 DEF SerialInv, Precedes, Same
  <2>4. \A t, u \in Threads : t # u /\ Holds(t) /\ Holds(u) => ~Same(frame[t], frame[u])
    BY <1>1 DEF SerialInv
  <2> QED  BY <2>2, <2>3, <2>4 DEF SerialsUnique
<1> QED  BY <1>1, SerialsInOrder, TypeCorrect, PTL

-----------------------------------------------------------------------------
(* The connection state machine.                                          *)

\* The flags stay flags.  (Zenon reasons about Boolean variables, the SMT
\* solver about the rest, so the two parts of IInv are proved apart.)
LEMMA FlagsStep == FlagsOK /\ [ConnNext]_connVars => FlagsOK'
<1> SUFFICES ASSUME FlagsOK, [ConnNext]_connVars PROVE FlagsOK'
  OBVIOUS
<1> USE DEF FlagsOK, stateVars, retryVars, handleVars, appVars
<1>1. CASE UNCHANGED connVars
  BY Zenon, <1>1 DEF connVars
<1>2. CASE Application
  <2>1. CASE Connect
    BY Zenon, <2>1 DEF Connect
  <2>2. CASE CloseBegin
    BY Zenon, <2>2 DEF CloseBegin
  <2>3. CASE CloseWait
    BY Zenon, <2>3 DEF CloseWait
  <2>4. CASE CloseJoin
    BY Zenon, <2>4 DEF CloseJoin
  <2>5. CASE Destroy
    BY Zenon, <2>5 DEF Destroy
  <2> QED  BY <1>2, <2>1, <2>2, <2>3, <2>4, <2>5 DEF Application
<1>3. ASSUME NEW t \in ServiceThreads, Frames(t) PROVE FlagsOK'
  <2>1. CASE OnHeartbeat(t)
    BY Zenon, <2>1 DEF OnHeartbeat
  <2>2. CASE OnConnected(t)
    BY Zenon, <2>2 DEF OnConnected
  <2>3. CASE OnClosed(t)
    BY Zenon, <2>3 DEF OnClosed
  <2>4. ASSUME NEW c \in Code, OnDisconnected(t, c) PROVE FlagsOK'
    BY Zenon, AuthAssumption, <2>4 DEF OnDisconnected
  <2>5. ASSUME NEW c \in Code, OnError(t, c) PROVE FlagsOK'
    BY Zenon, AuthAssumption, <2>5 DEF OnError, Fatal, Renewable
  <2> QED  BY <1>3, <2>1, <2>2, <2>3, <2>4, <2>5 DEF Frames
<1>4. ASSUME NEW t \in ServiceThreads, Thread(t) \/ WriteReturns(t) PROVE FlagsOK'
  <2>1. CASE Top(t)
    BY Zenon, <2>1 DEF Top
  <2>2. CASE DialHost(t)
    BY Zenon, <2>2 DEF DialHost
  <2>3. CASE LoopTest(t)
    BY Zenon, <2>3 DEF LoopTest
  <2>4. CASE RecvDone(t)
    BY Zenon, <2>4 DEF RecvDone
  <2>5. CASE CloseDone(t)
    BY Zenon, <2>5 DEF CloseDone
  <2>6. CASE StopTest(t)
    BY Zenon, <2>6 DEF StopTest
  <2>7. CASE Disconnected(t)
    BY Zenon, <2>7 DEF Disconnected
  <2>8. CASE AuthCallback(t)
    BY Zenon, <2>8 DEF AuthCallback
  <2>9. CASE NextHost(t)
    BY Zenon, <2>9 DEF NextHost
  <2>10. CASE Attempts(t)
    BY Zenon, <2>10 DEF Attempts
  <2>11. CASE SuspendTimeout(t)
    BY Zenon, <2>11 DEF SuspendTimeout
  <2>12. CASE Resume(t)
    BY Zenon, <2>12 DEF Resume
  <2>13. CASE SkipBackoff(t)
    BY Zenon, <2>13 DEF SkipBackoff
  <2>14. CASE Backoff(t)
    BY Zenon, <2>14 DEF Backoff
  <2>15. CASE BackoffTimeout(t)
    BY Zenon, <2>15 DEF BackoffTimeout
  <2>16. CASE WriteReturns(t)
    BY Zenon, <2>16 DEF WriteReturns
  <2> QED
    BY
      <1>4, <2>1, <2>2, <2>3, <2>4, <2>5, <2>6, <2>7, <2>8, <2>9, <2>10, <2>11, <2>12,
      <2>13, <2>14, <2>15, <2>16 DEF Thread
<1> QED  BY <1>1, <1>2, <1>3, <1>4 DEF ConnNext, ServiceStep

\* IInv holds initially.
LEMMA InvInit == ConnInit => IInv
<1> SUFFICES ASSUME ConnInit PROVE IInv
  OBVIOUS
<1>1. FlagsOK
  BY Zenon DEF ConnInit, FlagsOK
<1> QED
  BY <1>1, HostAssumption, AttemptAssumption
     DEF ConnInit, IInv, ConnTypeOK, NoOrphanThread, BackoffSeesClose, AttemptsBelowLimit,
         FatalIsClosing, ConnState, ThreadPc

\* The steps of the application thread preserve IInv.
LEMMA InvApplication == IInv /\ FlagsOK' /\ Application => IInv'
<1> SUFFICES ASSUME IInv, FlagsOK', Application PROVE IInv'
  OBVIOUS
<1> USE HostAssumption, AttemptAssumption, ServiceAssumption
    DEF IInv, ConnTypeOK, NoOrphanThread, BackoffSeesClose, AttemptsBelowLimit,
        FatalIsClosing, ConnState, ThreadPc, stateVars, retryVars, handleVars, appVars,
        NoThread, ServiceThreads
<1>1. CASE Connect
  <2>1. overwritten \subseteq Lost /\ Lost \subseteq ServiceThreads
    BY DEF Lost
  <2>2. running /\ service_thread # NoThread => service_thread \in Lost
    BY DEF Lost
  <2>3. CASE UNCHANGED <<threadPc, handleVars>>
    BY <1>1, <2>3 DEF Connect
  <2>4. CASE service_thread' = NoThread /\ overwritten' = Lost /\ UNCHANGED <<threadPc, running>>
    BY <1>1, <2>1, <2>2, <2>4 DEF Connect
  <2>5. ASSUME NEW t \in ServiceThreads, threadPc[t] = "none", Goto(t, "top"),
               service_thread' = t, running' = TRUE, overwritten' = Lost
        PROVE  IInv'
    BY <1>1, <2>1, <2>2, <2>5 DEF Connect, Goto
  <2> QED  BY <1>1, <2>3, <2>4, <2>5 DEF Connect
<1>2. CASE CloseBegin
  BY <1>2 DEF CloseBegin, WakeAll, Woken
<1>3. CASE CloseWait
  BY <1>3 DEF CloseWait
<1>4. CASE CloseJoin
  BY <1>4 DEF CloseJoin, Goto
<1>5. CASE Destroy
  BY <1>5 DEF Destroy
<1> QED
  BY <1>1, <1>2, <1>3, <1>4, <1>5 DEF Application

\* The frames the server sends to a service thread preserve IInv.
LEMMA InvFrames ==
  ASSUME NEW t \in ServiceThreads, IInv, FlagsOK', Frames(t)
  PROVE  IInv'
<1> USE HostAssumption, AttemptAssumption, ServiceAssumption
    DEF IInv, ConnTypeOK, NoOrphanThread, BackoffSeesClose, AttemptsBelowLimit,
        FatalIsClosing, ConnState, ThreadPc, stateVars, retryVars, handleVars, appVars,
        NoThread, ServiceThreads
<1>1. CASE OnHeartbeat(t)
  BY <1>1 DEF OnHeartbeat, Dispatching
<1>2. CASE OnConnected(t)
  BY <1>2 DEF OnConnected, Dispatching
<1>3. CASE OnClosed(t)
  BY <1>3 DEF OnClosed, Dispatching
<1>4. ASSUME NEW c \in Code, OnDisconnected(t, c) PROVE IInv'
  BY <1>4 DEF OnDisconnected, Dispatching
<1>5. ASSUME NEW c \in Code, OnError(t, c) PROVE IInv'
  BY <1>5 DEF OnError, Dispatching, Fatal, Renewable, WakeAll, Woken
<1> QED
  BY <1>1, <1>2, <1>3, <1>4, <1>5 DEF Frames

\* The steps of a service thread preserve IInv.
LEMMA InvThread ==
  ASSUME NEW t \in ServiceThreads, IInv, FlagsOK', Thread(t) \/ WriteReturns(t)
  PROVE  IInv'
<1> USE HostAssumption, AttemptAssumption, ServiceAssumption
    DEF IInv, ConnTypeOK, NoOrphanThread, BackoffSeesClose, AttemptsBelowLimit,
        FatalIsClosing, ConnState, ThreadPc, stateVars, retryVars, handleVars, appVars,
        NoThread, ServiceThreads
<1>1. CASE Top(t)
  BY <1>1 DEF Top, Goto
<1>2. CASE DialHost(t)
  BY <1>2 DEF DialHost, Goto
<1>3. CASE LoopTest(t)
  BY <1>3 DEF LoopTest, Goto
<1>4. CASE RecvDone(t)
  BY <1>4 DEF RecvDone, Goto
<1>5. CASE CloseDone(t)
  BY <1>5 DEF CloseDone, Goto
<1>6. CASE StopTest(t)
  BY <1>6 DEF StopTest, Goto
<1>7. CASE Disconnected(t)
  BY <1>7 DEF Disconnected, Goto
<1>8. CASE AuthCallback(t)
  BY <1>8 DEF AuthCallback, Goto
<1>9. CASE NextHost(t)
  BY <1>9 DEF NextHost, Goto
<1>10. CASE Attempts(t)
  BY <1>10 DEF Attempts, Goto
<1>11. CASE SuspendTimeout(t)
  BY <1>11 DEF SuspendTimeout, Goto
<1>12. CASE Resume(t)
  BY <1>12 DEF Resume, Goto
<1>13. CASE SkipBackoff(t)
  BY <1>13 DEF SkipBackoff, Goto
<1>14. CASE Backoff(t)
  BY <1>14 DEF Backoff, Goto, CountAttempt
<1>15. CASE BackoffTimeout(t)
  BY <1>15 DEF BackoffTimeout, Goto
<1>16. CASE WriteReturns(t)
  BY <1>16 DEF WriteReturns, Goto
<1> QED
  BY
    <1>1, <1>2, <1>3, <1>4, <1>5, <1>6, <1>7, <1>8, <1>9, <1>10, <1>11, <1>12, <1>13,
    <1>14, <1>15, <1>16 DEF Thread

\* IInv is an invariant of the connection state machine.
THEOREM InvCorrect == ConnSpec => []IInv
<1>1. IInv /\ FlagsOK' /\ UNCHANGED connVars => IInv'
  BY DEF connVars, stateVars, retryVars, handleVars, appVars, IInv, ConnTypeOK,
         NoOrphanThread, BackoffSeesClose, AttemptsBelowLimit, FatalIsClosing
<1>2. IInv /\ [ConnNext]_connVars => IInv'
  <2>1. IInv => FlagsOK
    BY DEF IInv, ConnTypeOK
  <2> QED
    BY <1>1, <2>1, FlagsStep, InvApplication, InvFrames, InvThread DEF ConnNext, ServiceStep
<1> QED  BY InvInit, <1>2, PTL DEF ConnSpec

\* Every variable keeps its type; current_host_idx always names a host.
THEOREM ConnTypeCorrect == ConnSpec => []ConnTypeOK
BY InvCorrect, PTL DEF IInv

\* close() and destroy() leave no service thread behind, timed out or not, but
\* one whose handle a connect() overwrote.
THEOREM CloseJoinsThread == ConnSpec => []NoOrphanThread
BY InvCorrect, PTL DEF IInv

\* A close request is never missed by a backoff sleep.
THEOREM BackoffIsInterruptible == ConnSpec => []BackoffSeesClose
BY InvCorrect, PTL DEF IInv

\* At most MaxAttempts rounds of hosts are counted before SUSPENDED.
THEOREM RetryLimit == ConnSpec => []AttemptsLimited
<1>1. IInv => AttemptsLimited
  BY DEF IInv, AttemptsBelowLimit, AttemptsLimited
<1> QED  BY <1>1, InvCorrect, PTL

\* What a step may do to the program counter of a service thread: it ends only
\* by a test of close_requested or of a terminal state, and dials only from the
\* top of its loop, with no close requested.
LEMMA PcOfApplication ==
  ASSUME ConnTypeOK, Application, NEW t \in ServiceThreads
  PROVE  ~Ends(t) /\ ~Dials(t)
<1> USE ServiceAssumption DEF ConnTypeOK, ThreadPc, NoThread, ServiceThreads, Ends, Dials
<1>1. CASE Connect
  BY <1>1 DEF Connect, Goto, Lost, handleVars
<1>2. CASE CloseBegin
  BY <1>2 DEF CloseBegin, WakeAll, Woken, handleVars
<1>3. CASE CloseWait
  BY <1>3 DEF CloseWait, handleVars
<1>4. CASE CloseJoin
  BY <1>4 DEF CloseJoin, Goto, handleVars
<1>5. CASE Destroy
  BY <1>5 DEF Destroy, handleVars
<1> QED  BY <1>1, <1>2, <1>3, <1>4, <1>5 DEF Application

LEMMA PcOfFrames ==
  ASSUME ConnTypeOK, NEW t \in ServiceThreads, NEW u \in ServiceThreads, Frames(u)
  PROVE  ~Ends(t) /\ ~Dials(t)
<1> USE DEF ConnTypeOK, ThreadPc, ServiceThreads, Ends, Dials
<1>1. CASE OnHeartbeat(u)
  BY <1>1 DEF OnHeartbeat
<1>2. CASE OnConnected(u)
  BY <1>2 DEF OnConnected
<1>3. CASE OnClosed(u)
  BY <1>3 DEF OnClosed
<1>4. ASSUME NEW c \in Code, OnDisconnected(u, c) PROVE ~Ends(t) /\ ~Dials(t)
  BY <1>4 DEF OnDisconnected
<1>5. ASSUME NEW c \in Code, OnError(u, c) PROVE ~Ends(t) /\ ~Dials(t)
  BY <1>5 DEF OnError, WakeAll, Woken
<1> QED  BY <1>1, <1>2, <1>3, <1>4, <1>5 DEF Frames

LEMMA PcOfThread ==
  ASSUME ConnTypeOK, NEW t \in ServiceThreads, NEW u \in ServiceThreads,
         Thread(u) \/ WriteReturns(u)
  PROVE  /\ Ends(t) => state' \in {"CLOSED", "FAILED"} \/ closeReq'
         /\ Dials(t) => ~closeReq
<1> USE DEF ConnTypeOK, ThreadPc, ServiceThreads, Ends, Dials, Goto, stateVars
<1>1. CASE Top(u)
  BY <1>1 DEF Top
<1>2. CASE DialHost(u)
  BY <1>2 DEF DialHost
<1>3. CASE LoopTest(u)
  BY <1>3 DEF LoopTest
<1>4. CASE RecvDone(u)
  BY <1>4 DEF RecvDone
<1>5. CASE CloseDone(u)
  BY <1>5 DEF CloseDone
<1>6. CASE StopTest(u)
  BY <1>6 DEF StopTest
<1>7. CASE Disconnected(u)
  BY <1>7 DEF Disconnected
<1>8. CASE AuthCallback(u)
  BY <1>8 DEF AuthCallback
<1>9. CASE NextHost(u)
  BY <1>9 DEF NextHost
<1>10. CASE Attempts(u)
  BY <1>10 DEF Attempts
<1>11. CASE SuspendTimeout(u)
  BY <1>11 DEF SuspendTimeout
<1>12. CASE Resume(u)
  BY <1>12 DEF Resume
<1>13. CASE SkipBackoff(u)
  BY <1>13 DEF SkipBackoff
<1>14. CASE Backoff(u)
  BY <1>14 DEF Backoff
<1>15. CASE BackoffTimeout(u)
  BY <1>15 DEF BackoffTimeout
<1>16. CASE WriteReturns(u)
  BY <1>16 DEF WriteReturns
<1> QED
  BY
    <1>1, <1>2, <1>3, <1>4, <1>5, <1>6, <1>7, <1>8, <1>9, <1>10, <1>11, <1>12, <1>13,
    <1>14, <1>15, <1>16 DEF Thread

\* A service thread ends only in a terminal state or with a close() pending:
\* ExitHasReason, for every number of hosts, of threads and every retry limit.
THEOREM NoThreadGivesUp == ConnSpec => ExitHasReason
<1>1. IInv /\ [ConnNext]_connVars
        => [\A t \in ServiceThreads :
              Ends(t) => state' \in {"CLOSED", "FAILED"} \/ closeReq']_connVars
  <2> SUFFICES ASSUME IInv, ConnNext, NEW t \in ServiceThreads, Ends(t)
               PROVE  state' \in {"CLOSED", "FAILED"} \/ closeReq'
    OBVIOUS
  <2>1. ConnTypeOK
    BY DEF IInv
  <2> QED
    BY <2>1, PcOfApplication, PcOfFrames, PcOfThread DEF ConnNext, ServiceStep
<1> QED  BY <1>1, InvCorrect, PTL DEF ConnSpec, ExitHasReason

\* After a fatal ERROR the client does not dial until connect() is called.
THEOREM FatalEndsSession == ConnSpec => NoRetryAfterFatal
<1>1. IInv /\ [ConnNext]_connVars
        => [\A t \in ServiceThreads : Dials(t) => ~fatal]_connVars
  <2> SUFFICES ASSUME IInv, ConnNext, NEW t \in ServiceThreads, Dials(t) PROVE ~fatal
    OBVIOUS
  <2>1. ConnTypeOK /\ FatalIsClosing
    BY DEF IInv
  <2>2. ~closeReq
    BY <2>1, PcOfApplication, PcOfFrames, PcOfThread DEF ConnNext, ServiceStep
  <2> QED  BY <2>1, <2>2 DEF FatalIsClosing
<1> QED  BY <1>1, InvCorrect, PTL DEF ConnSpec, NoRetryAfterFatal
=============================================================================
