CONSTANTS
  MaxBatch = 4
  Groups = {"g1", "g2"}
  DefaultGroup = "g1"
  Kinds = {"dict"}
  QueueTypes = {"auto"}
  FifoFailureModes = {"isolate_groups", "halt_batch"}
  PartialBatchFailures = {TRUE, FALSE}
  MaxConcurrent = 2
  HandlerOutcomes = {"returned", "raised"}
  LogFaults = FALSE
SPECIFICATION HangSpec
INVARIANTS NoSilentAck NothingRedone ArrivalOrder GroupsIndependent
PROPERTIES GroupsDoNotWait ImplementsContract
