-------------------------- MODULE FlinkSinkProofs --------------------------
(***************************************************************************)
(* What the Flink 2 writer delivers at least once, and the order of requests *)
(* within an attempt of either sink, for any rows, channels, batch size    *)
(* and number of failures.                                                 *)
(***************************************************************************)
EXTENDS FlinkSink, TLAPS

\* Appending to a sequence adds one element to its range.
LEMMA RangeAppend ==
  ASSUME NEW S, NEW s \in Seq(S), NEW e \in S
  PROVE  /\ Append(s, e) \in Seq(S)
         /\ Range(Append(s, e)) = Range(s) \cup {e}
<1>1. /\ Append(s, e) \in Seq(S)
      /\ DOMAIN Append(s, e) = 1 .. Len(s) + 1
      /\ DOMAIN s = 1 .. Len(s)
      /\ Len(s) \in Nat
      /\ Append(s, e)[Len(s) + 1] = e
      /\ \A i \in 1 .. Len(s) : Append(s, e)[i] = s[i]
  OBVIOUS
<1>2. Range(Append(s, e)) \subseteq Range(s) \cup {e}
  BY <1>1 DEF Range
<1>3. Range(s) \cup {e} \subseteq Range(Append(s, e))
  BY <1>1 DEF Range
<1> QED BY <1>1, <1>2, <1>3

\* The elements of a sequence are elements of its set.
LEMMA RangeSubset ==
  ASSUME NEW S, NEW s \in Seq(S)
  PROVE  Range(s) \subseteq S
BY DEF Range

-----------------------------------------------------------------------------
\* Every variable keeps its type and a buffer that is kept is smaller than a
\* batch, for either sink.
THEOREM TypeCorrect == Spec => []TypeOK
<1> USE RowAssumption, SizeAssumption, FailureAssumption
<1>1. Init => TypeOK
  BY DEF Init, TypeOK, None, Row
<1>2. TypeOK /\ [Next]_vars => TypeOK'
  <2> SUFFICES ASSUME TypeOK, [Next]_vars PROVE TypeOK'
    OBVIOUS
  <2> USE DEF TypeOK, Row, None, sinkVars, flinkVars
  <2> DEFINE Flushed(rows) == /\ buffer' = << >>
                              /\ sent' = Append(sent, rows)
                              /\ delivered' \subseteq delivered \cup Range(rows)
                              /\ refused' \subseteq refused \cup Range(rows)
  <2>0. Range(buffer) \subseteq Row
    BY RangeSubset
  <2>1. CASE Write
    <3> DEFINE rows == Append(buffer, pos + 1)
    <3>1. rows \in Seq(Row)
      BY <2>1 DEF Write
    <3>2. /\ task' \in {"running", "failing"}
          /\ pos' \in 0 .. RowCount
          /\ failures' \in 0 .. MaxFailures
          /\ UNCHANGED <<snap, ckpt>>
      BY <2>1 DEF Write, Fail
    <3>3. \/ UNCHANGED sinkVars
          \/ buffer' = rows /\ ~Full(rows) /\ UNCHANGED <<sent, delivered, refused>>
          \/ Flushed(rows)
      BY <2>1 DEF Write, FlushOk, FlushFail, Groups
    <3> HIDE DEF rows
    <3>4. CASE UNCHANGED sinkVars
      BY <3>2, <3>4
    <3>5. CASE buffer' = rows /\ ~Full(rows) /\ UNCHANGED <<sent, delivered, refused>>
      BY <3>1, <3>2, <3>5 DEF Full
    <3>6. CASE Flushed(rows)
      BY <3>1, <3>2, <3>6, RangeSubset
    <3> QED BY <3>3, <3>4, <3>5, <3>6
  <2>2. CASE Snapshot
    <3>1. /\ task' \in {"running", "failing"}
          /\ failures' \in 0 .. MaxFailures
          /\ snap' \in {pos, snap}
          /\ UNCHANGED <<pos, ckpt>>
      BY <2>2 DEF Snapshot, Fail
    <3>2. UNCHANGED sinkVars \/ Flushed(buffer)
      BY <2>2 DEF Snapshot, FlushOk, FlushFail, Groups
    <3>3. CASE UNCHANGED sinkVars
      BY <3>1, <3>3
    <3>4. CASE Flushed(buffer)
      BY <2>0, <3>1, <3>4
    <3> QED BY <3>2, <3>3, <3>4
  <2>3. CASE Complete
    BY <2>3 DEF Complete
  <2>4. CASE Finish
    <3>1. /\ task' \in {"finished", "failing"}
          /\ failures' \in 0 .. MaxFailures
          /\ UNCHANGED <<pos, snap, ckpt>>
      BY <2>4 DEF Finish, Fail
    <3>2. UNCHANGED sinkVars \/ Flushed(buffer)
      BY <2>4 DEF Finish, FlushOk, FlushFail, Groups
    <3>3. CASE UNCHANGED sinkVars
      BY <3>1, <3>3
    <3>4. CASE Flushed(buffer)
      BY <2>0, <3>1, <3>4
    <3> QED BY <3>2, <3>3, <3>4
  <2>5. CASE Cancel
    BY <2>5 DEF Cancel, Fail
  <2>6. CASE Cleanup
    <3>1. task' = "down" /\ UNCHANGED <<pos, snap, ckpt, failures>>
      BY <2>6 DEF Cleanup
    <3>2. UNCHANGED sinkVars \/ Flushed(buffer)
      BY <2>6 DEF Cleanup, FlushOk, FlushFail, Groups
    <3>3. CASE UNCHANGED sinkVars
      BY <3>1, <3>3
    <3>4. CASE Flushed(buffer)
      BY <2>0, <3>1, <3>4
    <3> QED BY <3>2, <3>3, <3>4
  <2>7. CASE Crash
    BY <2>7 DEF Crash
  <2>8. CASE Restart
    BY <2>8 DEF Restart
  <2>9. CASE UNCHANGED vars
    BY <2>9 DEF vars
  <2> QED BY <2>1, <2>2, <2>3, <2>4, <2>5, <2>6, <2>7, <2>8, <2>9 DEF Next
<1> QED BY <1>1, <1>2, PTL DEF Spec

-----------------------------------------------------------------------------
\* The strengthening of AtLeastOnce: a running sink holds in its buffer every
\* row it was given that no returned publish carried, and a checkpoint under
\* way covers carried rows only.
Covered ==
  /\ task = "running" =>
       \A r \in 1 .. pos : r \in Inserted => r \in delivered \cup refused \/ r \in Range(buffer)
  /\ snap # None => DeliveredUpTo(snap)

DeliveryInv == Covered /\ AtLeastOnce /\ FinishedIsDelivered

\* A step of a sink that flushes at checkpoints preserves DeliveryInv.
LEMMA DeliveryStep ==
  ASSUME FlushOnCheckpoint, TypeOK, DeliveryInv, [Next]_vars
  PROVE  DeliveryInv'
<1> USE RowAssumption DEF TypeOK, None, DeliveryInv, Covered, AtLeastOnce,
          FinishedIsDelivered, DeliveredUpTo, sinkVars, flinkVars
<1>0. Range(<< >>) = {}
  BY DEF Range
<1>1. CASE Write
  <2>1. /\ pos + 1 \in Row
        /\ Range(Append(buffer, pos + 1)) = Range(buffer) \cup {pos + 1}
    <3>1. pos + 1 \in Row /\ buffer \in Seq(Row)
      BY <1>1 DEF Write, Row
    <3> QED BY <3>1, RangeAppend
  <2>2. /\ delivered \subseteq delivered' /\ refused \subseteq refused'
        /\ task' \in {"running", "failing"}
        /\ UNCHANGED <<snap, ckpt>>
        /\ pos' = pos + 1 /\ task = "running"
    BY <1>1 DEF Write, FlushOk, FlushFail, Groups, Fail
  <2>3. task' = "running" =>
          \A r \in 1 .. pos' :
            r \in Inserted => r \in delivered' \cup refused' \/ r \in Range(buffer')
    <3> SUFFICES ASSUME task' = "running", NEW r \in 1 .. pos + 1, r \in Inserted
                 PROVE  r \in delivered' \cup refused' \/ r \in Range(buffer')
      BY <2>2
    <3>1. r \in delivered \cup refused \/ r \in Range(buffer) \/ r = pos + 1
      BY <2>2
    <3>2. \/ pos + 1 \notin Inserted /\ UNCHANGED sinkVars
          \/ buffer' = Append(buffer, pos + 1) /\ UNCHANGED <<delivered, refused>>
          \/ Range(Append(buffer, pos + 1)) \subseteq delivered' \cup refused'
      BY <1>1, <2>2 DEF Write, FlushOk, Groups, Fail
    <3>3. CASE pos + 1 \notin Inserted /\ UNCHANGED sinkVars
      BY <3>1, <3>3
    <3>4. CASE buffer' = Append(buffer, pos + 1) /\ UNCHANGED <<delivered, refused>>
      BY <2>1, <3>1, <3>4
    <3>5. CASE Range(Append(buffer, pos + 1)) \subseteq delivered' \cup refused'
      BY <2>1, <2>2, <3>1, <3>5
    <3> QED BY <3>2, <3>3, <3>4, <3>5
  <2> QED BY <2>2, <2>3
<1>2. CASE Snapshot
  <2>1. CASE buffer = << >> /\ snap' = pos /\ UNCHANGED <<task, pos, sinkVars, ckpt>>
    BY <1>0, <1>2, <2>1 DEF Snapshot
  <2>2. CASE FlushOk(buffer) /\ snap' = pos /\ UNCHANGED <<task, pos, ckpt>>
    BY <1>2, <2>2 DEF Snapshot, FlushOk
  <2>3. CASE FlushFail(buffer) /\ Fail /\ UNCHANGED <<snap, pos, ckpt>>
    BY <2>3 DEF FlushFail, Fail
  <2> QED BY <1>2, <2>1, <2>2, <2>3 DEF Snapshot
<1>3. CASE Complete
  BY <1>3 DEF Complete
<1>4. CASE Finish
  <2>1. CASE buffer = << >> /\ task' = "finished" /\ UNCHANGED <<pos, sinkVars, snap, ckpt>>
    BY <1>0, <1>4, <2>1 DEF Finish
  <2>2. CASE FlushOk(buffer) /\ task' = "finished" /\ UNCHANGED <<pos, snap, ckpt>>
    BY <1>4, <2>2 DEF Finish, FlushOk
  <2>3. CASE FlushFail(buffer) /\ Fail /\ UNCHANGED <<pos, snap, ckpt>>
    BY <2>3 DEF FlushFail, Fail
  <2> QED BY <1>4, <2>1, <2>2, <2>3 DEF Finish
<1>5. CASE Cancel
  BY <1>5 DEF Cancel, Fail
<1>6. CASE Cleanup
  BY <1>6 DEF Cleanup, FlushOk, FlushFail, Groups
<1>7. CASE Crash
  BY <1>7 DEF Crash
<1>8. CASE Restart
  BY <1>8 DEF Restart
<1>9. CASE UNCHANGED vars
  BY <1>9 DEF vars
<1> QED BY <1>1, <1>2, <1>3, <1>4, <1>5, <1>6, <1>7, <1>8, <1>9 DEF Next

\* The Flink 2 writer, whose flush() Flink calls at every checkpoint, delivers
\* at least once but for one cause: a row before a completed checkpoint was
\* accepted by Ably, or refused in an answer below 400, whose body publish()
\* does not read.
THEOREM WriterAtLeastOnce ==
  ASSUME FlushOnCheckpoint
  PROVE  Spec => []AtLeastOnce
<1>1. Init => DeliveryInv
  BY RowAssumption DEF Init, DeliveryInv, Covered, AtLeastOnce,
     FinishedIsDelivered, DeliveredUpTo, None
<1>2. TypeOK /\ DeliveryInv /\ [Next]_vars => DeliveryInv'
  BY DeliveryStep
<1>3. DeliveryInv => AtLeastOnce
  BY DEF DeliveryInv
<1> QED BY <1>1, <1>2, <1>3, TypeCorrect, PTL DEF Spec

\* A job with the Flink 2 writer that finishes has delivered every row that no
\* such answer refused.
THEOREM WriterFinishesDelivered ==
  ASSUME FlushOnCheckpoint
  PROVE  Spec => []FinishedIsDelivered
<1>1. Init => DeliveryInv
  BY RowAssumption DEF Init, DeliveryInv, Covered, AtLeastOnce,
     FinishedIsDelivered, DeliveredUpTo, None
<1>2. TypeOK /\ DeliveryInv /\ [Next]_vars => DeliveryInv'
  BY DeliveryStep
<1>3. DeliveryInv => FinishedIsDelivered
  BY DEF DeliveryInv
<1> QED BY <1>1, <1>2, <1>3, TypeCorrect, PTL DEF Spec

-----------------------------------------------------------------------------
\* The strengthening of NoResend: the buffer is in the order of the source, and
\* behind everything requested in this attempt.
Increasing(rows) == \A k, l \in DOMAIN rows : k < l => rows[k] < rows[l]
UpTo(rows, n)    == \A k \in DOMAIN rows : rows[k] <= n
Behind(rows)     == \A i \in DOMAIN sent :
                      \A k \in DOMAIN sent[i], l \in DOMAIN rows :
                        sent[i][k] < rows[l]

OrderInv ==
  /\ Increasing(buffer) /\ UpTo(buffer, pos) /\ Behind(buffer)
  /\ \A i \in DOMAIN sent : UpTo(sent[i], pos)
  /\ NoResend

\* A request for rows that are in order and behind the earlier ones.
LEMMA SendStep ==
  ASSUME TypeOK, NEW rows \in Seq(Row), NEW n \in Nat, pos <= n,
         Increasing(rows), UpTo(rows, n), Behind(rows),
         \A i \in DOMAIN sent : UpTo(sent[i], pos), NoResend,
         sent' = Append(sent, rows), buffer' = << >>, pos' = n
  PROVE  OrderInv'
<1> USE RowAssumption DEF Row
<1>1. /\ Len(sent) \in Nat /\ DOMAIN sent = 1 .. Len(sent)
      /\ DOMAIN sent' = 1 .. Len(sent) + 1
      /\ sent'[Len(sent) + 1] = rows
      /\ \A i \in 1 .. Len(sent) : sent'[i] = sent[i]
  BY DEF TypeOK
<1>2. \A i \in DOMAIN sent : sent[i] \in Seq(Row)
  BY DEF TypeOK
<1>3. \A s \in Seq(Row) : \A k \in DOMAIN s : s[k] \in Int
  OBVIOUS
<1>4. NoResend'
  <2> SUFFICES ASSUME NEW i \in DOMAIN sent', NEW j \in DOMAIN sent',
                      NEW k \in DOMAIN sent'[i], NEW l \in DOMAIN sent'[j],
                      i < j \/ (i = j /\ k < l)
               PROVE  sent'[i][k] < sent'[j][l]
    BY DEF NoResend
  <2>1. CASE j \in 1 .. Len(sent)
    BY <1>1, <2>1 DEF NoResend
  <2>2. CASE j = Len(sent) + 1 /\ i \in 1 .. Len(sent)
    BY <1>1, <2>2 DEF Behind
  <2>3. CASE j = Len(sent) + 1 /\ i = j
    BY <1>1, <2>3 DEF Increasing
  <2> QED BY <1>1, <2>1, <2>2, <2>3
<1>5. \A i \in DOMAIN sent' : UpTo(sent'[i], n)
  <2> SUFFICES ASSUME NEW i \in DOMAIN sent', NEW k \in DOMAIN sent'[i]
               PROVE  sent'[i][k] <= n
    BY DEF UpTo
  <2>1. CASE i \in 1 .. Len(sent)
    BY <1>1, <1>2, <1>3, <2>1 DEF UpTo, TypeOK
  <2>2. CASE i = Len(sent) + 1
    BY <1>1, <2>2 DEF UpTo
  <2> QED BY <1>1, <2>1, <2>2
<1> QED BY <1>4, <1>5 DEF OrderInv, Increasing, UpTo, Behind

\* The next row of the source, appended to the buffer, keeps it in order.
LEMMA AppendStep ==
  ASSUME TypeOK, OrderInv, pos < RowCount
  PROVE  LET rows == Append(buffer, pos + 1)
         IN  /\ rows \in Seq(Row)
             /\ Increasing(rows) /\ UpTo(rows, pos + 1) /\ Behind(rows)
<1> USE RowAssumption DEF Row
<1> DEFINE rows == Append(buffer, pos + 1)
<1>0. buffer \in Seq(Row) /\ pos \in Nat /\ pos + 1 \in Row
  BY DEF TypeOK
<1>1. /\ rows \in Seq(Row) /\ Len(buffer) \in Nat
      /\ DOMAIN buffer = 1 .. Len(buffer) /\ DOMAIN rows = 1 .. Len(buffer) + 1
      /\ rows[Len(buffer) + 1] = pos + 1
      /\ \A k \in 1 .. Len(buffer) : rows[k] = buffer[k] /\ buffer[k] \in Int
      /\ pos \in Int
  BY <1>0
<1> HIDE DEF rows
<1>2. Increasing(rows) /\ UpTo(rows, pos + 1)
  <2>1. /\ \A k, l \in 1 .. Len(buffer) : k < l => buffer[k] < buffer[l]
        /\ \A k \in 1 .. Len(buffer) : buffer[k] <= pos
    BY <1>1 DEF OrderInv, Increasing, UpTo
  <2>2. \A k, l \in 1 .. Len(buffer) + 1 : k < l => rows[k] < rows[l]
    <3> SUFFICES ASSUME NEW k \in 1 .. Len(buffer) + 1,
                        NEW l \in 1 .. Len(buffer) + 1, k < l
                 PROVE  rows[k] < rows[l]
      OBVIOUS
    <3>1. k \in 1 .. Len(buffer)
      BY <1>1
    <3>2. CASE l \in 1 .. Len(buffer)
      BY <1>1, <2>1, <3>1, <3>2
    <3>3. CASE l = Len(buffer) + 1
      <4>1. rows[k] = buffer[k] /\ buffer[k] \in Int /\ buffer[k] <= pos
        BY <1>1, <2>1, <3>1
      <4> QED BY <1>1, <3>3, <4>1
    <3> QED BY <1>1, <3>2, <3>3
  <2>3. \A k \in 1 .. Len(buffer) + 1 : rows[k] <= pos + 1
    BY <1>1, <2>1
  <2> QED BY <1>1, <2>2, <2>3 DEF Increasing, UpTo
<1>3. Behind(rows)
  <2> SUFFICES ASSUME NEW i \in DOMAIN sent, NEW k \in DOMAIN sent[i],
                      NEW l \in DOMAIN rows
               PROVE  sent[i][k] < rows[l]
    BY DEF Behind
  <2>1. sent[i][k] \in Int /\ sent[i][k] <= pos
    BY DEF TypeOK, OrderInv, UpTo
  <2>2. CASE l \in 1 .. Len(buffer)
    BY <1>1, <2>2 DEF OrderInv, Behind
  <2>3. CASE l = Len(buffer) + 1
    BY <1>1, <2>1, <2>3
  <2> QED BY <1>1, <2>2, <2>3
<1> QED BY <1>1, <1>2, <1>3 DEF rows

\* Within an attempt, either sink requests each row at most once and in the
\* order of the source, failed publishes and the flush of close() included.
THEOREM RequestsInOrder == Spec => []NoResend
<1>1. Init => OrderInv
  BY DEF Init, OrderInv, Increasing, UpTo, Behind, NoResend
<1>2. TypeOK /\ OrderInv /\ [Next]_vars => OrderInv'
  <2> SUFFICES ASSUME TypeOK, OrderInv, [Next]_vars PROVE OrderInv'
    OBVIOUS
  <2> USE RowAssumption DEF sinkVars, flinkVars
  <2>0. pos \in Nat /\ buffer \in Seq(Row)
    BY DEF TypeOK
  <2>a. ASSUME UNCHANGED <<sinkVars, pos>> PROVE OrderInv'
    BY <2>a DEF OrderInv, Increasing, UpTo, Behind, NoResend
  <2>b. ASSUME FlushOk(buffer) \/ FlushFail(buffer), UNCHANGED pos
        PROVE  OrderInv'
    <3>1. sent' = Append(sent, buffer) /\ buffer' = << >> /\ pos' = pos
      BY <2>b DEF FlushOk, FlushFail, Groups
    <3> QED BY <2>0, <3>1, SendStep DEF OrderInv
  <2>1. CASE Write
    <3> DEFINE rows == Append(buffer, pos + 1)
    <3>1. /\ rows \in Seq(Row)
          /\ Increasing(rows) /\ UpTo(rows, pos + 1) /\ Behind(rows)
      <4>1. pos < RowCount
        BY <2>1 DEF Write
      <4> QED BY <4>1, AppendStep
    <3>2. /\ pos' = pos + 1
          /\ \/ UNCHANGED sinkVars
             \/ buffer' = rows /\ UNCHANGED <<sent, delivered, refused>>
             \/ buffer' = << >> /\ sent' = Append(sent, rows)
      BY <2>1 DEF Write, FlushOk, FlushFail, Groups
    <3> HIDE DEF rows
    <3>3. /\ \A i \in DOMAIN sent : UpTo(sent[i], pos + 1)
          /\ UpTo(buffer, pos + 1)
      BY <2>0 DEF TypeOK, OrderInv, UpTo, Row
    <3>4. CASE UNCHANGED sinkVars
      BY <3>2, <3>3, <3>4 DEF OrderInv, Increasing, UpTo, Behind, NoResend
    <3>5. CASE buffer' = rows /\ UNCHANGED <<sent, delivered, refused>>
      BY <3>1, <3>2, <3>3, <3>5 DEF OrderInv, Increasing, UpTo, Behind, NoResend
    <3>6. CASE buffer' = << >> /\ sent' = Append(sent, rows)
      <4>1. pos + 1 \in Nat /\ pos <= pos + 1
        BY <2>0
      <4> QED BY <3>1, <3>2, <3>6, <4>1, SendStep DEF OrderInv
    <3> QED BY <3>2, <3>4, <3>5, <3>6
  <2>2. CASE Snapshot
    BY <2>a, <2>b, <2>2 DEF Snapshot
  <2>3. CASE Complete
    BY <2>a, <2>3 DEF Complete
  <2>4. CASE Finish
    BY <2>a, <2>b, <2>4 DEF Finish
  <2>5. CASE Cancel
    BY <2>a, <2>5 DEF Cancel
  <2>6. CASE Cleanup
    BY <2>a, <2>b, <2>6 DEF Cleanup
  <2>7. CASE Crash
    BY <2>a, <2>7 DEF Crash
  <2>8. CASE Restart
    BY <2>8 DEF Restart, OrderInv, Increasing, UpTo, Behind, NoResend
  <2>9. CASE UNCHANGED vars
    BY <2>a, <2>9 DEF vars
  <2> QED BY <2>1, <2>2, <2>3, <2>4, <2>5, <2>6, <2>7, <2>8, <2>9 DEF Next
<1>3. OrderInv => NoResend
  BY DEF OrderInv
<1> QED BY <1>1, <1>2, <1>3, TypeCorrect, PTL DEF Spec
=============================================================================
