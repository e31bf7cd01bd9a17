CONSTANTS
  Copies = {c1, c2, c3}
  Keys = {k1}
  NoKey = NoKey
  InProgressTtl = 3
  CompletedTtl = 3
  RequireKey = FALSE
  RuntimeBound = 2
  HandlerOutcomes = {"returned", "raised", "skip", "cancelled"}
  AckCancelled = TRUE
  StoreFaults = {"try_acquire", "mark_complete", "forget"}
  MaxFaults = 2
SPECIFICATION FairSpec
INVARIANTS ClaimExclusive NoLostMessage
PROPERTIES OncePerWindow SkipsOnlyInWindow EventuallyDeleted
