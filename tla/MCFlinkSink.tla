---------------------------- MODULE MCFlinkSink ----------------------------
(* Five rows for two channels, one of them not an INSERT, in batches of    *)
(* three: a full batch, a partly filled one at a checkpoint and at the     *)
(* end, and two failures anywhere.                                         *)
EXTENDS FlinkSink

TwoChannels == [r \in 1 .. 5 |-> IF r % 2 = 1 THEN "a" ELSE "b"]
=============================================================================
