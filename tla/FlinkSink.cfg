SPECIFICATION Spec
CONSTANTS
  RowCount = 5
  Inserted = {1, 2, 4, 5}
  Channels = {"a", "b"}
  ChannelOf <- TwoChannels
  BatchSize = 3
  FlushOnCheckpoint = TRUE
  MaxFailures = 2
CHECK_DEADLOCK FALSE
INVARIANTS AtLeastOnce FinishedIsDelivered NoResend
