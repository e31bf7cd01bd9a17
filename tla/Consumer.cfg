CONSTANTS
  N = 3
  Groups = {"g1", "g2"}
  Workers = {"w1", "w2"}
  MaxReceive = 2
  Modes = {"standard", "isolate", "halt"}
  Partials = {TRUE, FALSE}
SPECIFICATION FairSpec
INVARIANTS GroupOrder NothingLost DeadLetterCause ProcessedStays
PROPERTIES Drained
