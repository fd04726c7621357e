----------------------------- MODULE FlinkSink -----------------------------
(***************************************************************************)
(* One subtask of the Flink sink: AblySinkFunction (Flink 1) and           *)
(* AblySinkWriter (Flink 2) buffer the rows they are given and publish     *)
(* them in batches with AblyBatchPublisher.  The two differ in what Flink  *)
(* calls at a checkpoint: the writer's flush(), and nothing of the         *)
(* function, which is not a CheckpointedFunction.                          *)
(*                                                                         *)
(* The Flink runtime around them is external: it gives the rows in order,  *)
(* takes checkpoints, closes the sink when the input ends or the task      *)
(* fails, and restarts a failed task from the latest completed checkpoint, *)
(* with a new sink and the source rewound.  A killed task is not closed.   *)
(***************************************************************************)
EXTENDS Integers, Sequences, Functions

CONSTANTS RowCount,           \* rows of the source
          Inserted,           \* the rows whose kind is INSERT
          Channels,           \* values of the channel field
          ChannelOf,          \* the channel of each row
          BatchSize,          \* batch.size
          FlushOnCheckpoint,  \* the sink is the Flink 2 writer
          MaxFailures         \* bound: failures of the task

Row == 1 .. RowCount

ASSUME RowAssumption == RowCount \in Nat /\ Inserted \subseteq Row
ASSUME ChannelAssumption == ChannelOf \in [Row -> Channels]
ASSUME SizeAssumption == BatchSize \in Nat
ASSUME ModeAssumption == FlushOnCheckpoint \in BOOLEAN
ASSUME FailureAssumption == MaxFailures \in Nat

None == -1

VARIABLES
  task,       \* "running", "failing", "down" or "finished"
  pos,        \* rows the source has emitted in this attempt
  buffer,     \* buffer
  sent,       \* history: the batches of the requests of this attempt
  delivered,  \* the rows that Ably has accepted, in any attempt
  refused,    \* the rows of answers that publish() took for a success and
              \* that had not accepted them, in any attempt
  snap,       \* source position of the checkpoint under way
  ckpt,       \* source position of the latest completed checkpoint
  failures    \* counter for the bound

sinkVars  == <<buffer, sent, delivered, refused>>
flinkVars == <<snap, ckpt, failures>>
vars == <<task, pos, buffer, sent, delivered, refused, snap, ckpt, failures>>

Init ==
  /\ task = "running" /\ pos = 0
  /\ buffer = << >> /\ sent = << >> /\ delivered = {} /\ refused = {}
  /\ snap = None /\ ckpt = 0 /\ failures = 0

-----------------------------------------------------------------------------
(* flush(): the rows are grouped by channel, the buffer is cleared, and one *)
(* request carries one group per channel, each in the order of the buffer. *)

\* The rows of the groups of some channels.
Groups(rows, channels) == {r \in Range(rows) : ChannelOf[r] \in channels}

\* publish() returns: any status below 400.  It does not read the body, which
\* has a result for each group, and takes a redirect, which accepts none of
\* them, for a success.
FlushOk(rows) ==
  /\ buffer' = << >>
  /\ sent' = Append(sent, rows)
  /\ \E accepted \in SUBSET Channels :
       /\ delivered' = delivered \cup Groups(rows, accepted)
       /\ refused' = refused \cup (Range(rows) \ Groups(rows, accepted))

\* Mutant of FlushFail: the buffer is cleared only after a successful publish.
FlushFail_KeepBuffer(rows) ==
  /\ buffer' = rows
  /\ sent' = Append(sent, rows)
  /\ \E accepted \in SUBSET Channels :
       delivered' = delivered \cup Groups(rows, accepted)
  /\ UNCHANGED refused

\* publish() throws: a status of 400 or more, or no answer.  Ably may have
\* accepted the groups of some of the channels.
FlushFail(rows) ==
  /\ buffer' = << >>
  /\ sent' = Append(sent, rows)
  /\ \E accepted \in SUBSET Channels :
       delivered' = delivered \cup Groups(rows, accepted)
  /\ UNCHANGED refused

Fail ==
  /\ failures < MaxFailures
  /\ failures' = failures + 1
  /\ task' = "failing"

Full(rows) == Len(rows) >= BatchSize

\* invoke() and write(): a row that is not an INSERT is dropped; a full buffer
\* is flushed, and an exception of publish() fails the task.
Write ==
  /\ task = "running"
  /\ pos < RowCount
  /\ pos' = pos + 1
  /\ LET rows == Append(buffer, pos + 1)
     IN \/ /\ pos + 1 \notin Inserted
           /\ UNCHANGED <<task, sinkVars, failures>>
        \/ /\ pos + 1 \in Inserted /\ ~Full(rows)
           /\ buffer' = rows
           /\ UNCHANGED <<task, sent, delivered, refused, failures>>
        \/ /\ pos + 1 \in Inserted /\ Full(rows)
           /\ FlushOk(rows)
           /\ UNCHANGED <<task, failures>>
        \/ /\ pos + 1 \in Inserted /\ Full(rows)
           /\ FlushFail(rows)
           /\ Fail
  /\ UNCHANGED <<snap, ckpt>>

-----------------------------------------------------------------------------
(* What Flink does with the sink.                                          *)

\* Mutant of Snapshot: the barrier passes without a flush.
Snapshot_NoFlush ==
  /\ task = "running" /\ snap = None
  /\ snap' = pos
  /\ UNCHANGED <<task, pos, sinkVars, ckpt, failures>>

\* A checkpoint barrier reaches the sink.  The Flink 2 runtime calls flush()
\* before it snapshots; the Flink 1 function is not told.
Snapshot ==
  /\ task = "running" /\ snap = None
  /\ \/ /\ FlushOnCheckpoint => buffer = << >>
        /\ snap' = pos
        /\ UNCHANGED <<task, sinkVars, failures>>
     \/ /\ FlushOnCheckpoint /\ buffer # << >>
        /\ FlushOk(buffer)
        /\ snap' = pos
        /\ UNCHANGED <<task, failures>>
     \/ /\ FlushOnCheckpoint /\ buffer # << >>
        /\ FlushFail(buffer)
        /\ Fail
        /\ UNCHANGED snap
  /\ UNCHANGED <<pos, ckpt>>

\* Every task has acknowledged the checkpoint.
Complete ==
  /\ task \in {"running", "failing"}
  /\ snap # None
  /\ ckpt' = snap /\ snap' = None
  /\ UNCHANGED <<task, pos, sinkVars, failures>>

\* Mutant of Finish: close() drops a partly filled buffer.
Finish_NoFlush ==
  /\ task = "running" /\ pos = RowCount
  /\ task' = "finished"
  /\ UNCHANGED <<pos, sinkVars, flinkVars>>

\* The input ends: close(), with its last flush.
Finish ==
  /\ task = "running" /\ pos = RowCount
  /\ \/ /\ buffer = << >>
        /\ task' = "finished"
        /\ UNCHANGED <<sinkVars, failures>>
     \/ /\ buffer # << >>
        /\ FlushOk(buffer)
        /\ task' = "finished"
        /\ UNCHANGED failures
     \/ /\ buffer # << >>
        /\ FlushFail(buffer)
        /\ Fail
  /\ UNCHANGED <<pos, snap, ckpt>>

\* Another task of the job fails.
Cancel ==
  /\ task = "running"
  /\ Fail
  /\ UNCHANGED <<pos, sinkVars, snap, ckpt>>

\* A failed or cancelled task is closed; an exception of this close is dropped.
Cleanup ==
  /\ task = "failing"
  /\ \/ buffer = << >> /\ UNCHANGED sinkVars
     \/ buffer # << >> /\ (FlushOk(buffer) \/ FlushFail(buffer))
  /\ task' = "down"
  /\ UNCHANGED <<pos, flinkVars>>

\* The process dies: nothing is closed.
Crash ==
  /\ \/ task = "running" /\ failures < MaxFailures /\ failures' = failures + 1
     \/ task = "failing" /\ UNCHANGED failures
  /\ task' = "down"
  /\ UNCHANGED <<pos, sinkVars, snap, ckpt>>

\* open(), or a new writer: an empty buffer, the source at the checkpoint.
Restart ==
  /\ task = "down"
  /\ task' = "running"
  /\ pos' = ckpt
  /\ buffer' = << >> /\ sent' = << >>
  /\ snap' = None
  /\ UNCHANGED <<delivered, refused, ckpt, failures>>

Next == \/ Write \/ Snapshot \/ Complete \/ Finish
        \/ Cancel \/ Cleanup \/ Crash \/ Restart

Spec == Init /\ [][Next]_vars

-----------------------------------------------------------------------------
\* What each variable holds; a buffer that is kept is smaller than a batch.
TypeOK ==
  /\ task \in {"running", "failing", "down", "finished"}
  /\ pos \in 0 .. RowCount
  /\ buffer \in Seq(Row) /\ (buffer = << >> \/ ~(Len(buffer) >= BatchSize))
  /\ sent \in Seq(Seq(Row))
  /\ delivered \subseteq Row /\ refused \subseteq Row
  /\ snap \in -1 .. RowCount
  /\ ckpt \in 0 .. RowCount
  /\ failures \in 0 .. MaxFailures

\* Every inserted row among the first n of the source was accepted by Ably, or
\* the answer to a request that carried it said otherwise and publish() did not
\* look.
DeliveredUpTo(n) == \A r \in 1 .. n : r \in Inserted => r \in delivered \cup refused

\* Rows before a completed checkpoint are never read again, so all of them
\* must have been accepted when it completes, whatever fails, is closed half
\* way or is killed between two steps.  The one way to lose a row is an answer
\* below 400 that refuses it: no other failure, and no step of Flink's, does.
AtLeastOnce == DeliveredUpTo(ckpt)

\* A job that finishes has delivered everything, the rows of a last, partly
\* filled batch too, and however many attempts it took, but for the rows such
\* an answer refused.
FinishedIsDelivered == task = "finished" => DeliveredUpTo(RowCount)

\* Within one attempt no row is requested twice and rows are requested in the
\* order of the source, even when a publish fails and close() flushes again:
\* duplicates and reordering come from restarts only.
NoResend ==
  \A i, j \in DOMAIN sent :
    \A k \in DOMAIN sent[i], l \in DOMAIN sent[j] :
      i < j \/ (i = j /\ k < l) => sent[i][k] < sent[j][l]
=============================================================================
