CONSTANTS
  MaxBatch = 3
  Groups = {"g1", "g2"}
  DefaultGroup = "g1"
  Kinds = {"dict", "badbody", "nullattrs", "nondict"}
  QueueTypes = {"auto", "fifo"}
  FifoFailureModes = {"isolate_groups", "halt_batch"}
  PartialBatchFailures = {TRUE}
  MaxConcurrent = 2
  HandlerOutcomes = {"returned", "raised", "cancelled"}
  LogFaults = TRUE
SPECIFICATION FairSpec
INVARIANTS TypeOK LossConfined ConcurrencyBound NothingLeftRunning
PROPERTIES Responds
