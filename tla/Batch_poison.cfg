CONSTANTS
  MaxBatch = 2
  Groups = {"g1", "g2"}
  DefaultGroup = "g1"
  Kinds = {"dict", "nondict"}
  QueueTypes = {"auto"}
  FifoFailureModes = {"isolate_groups"}
  PartialBatchFailures = {TRUE}
  MaxConcurrent = 2
  HandlerOutcomes = {"returned", "raised"}
  LogFaults = FALSE
SPECIFICATION FairSpec
INVARIANTS FailsOnlyItself
