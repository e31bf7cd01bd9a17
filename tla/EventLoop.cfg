CONSTANTS
  Apps = {a1, a2}
  Threads = {t1, t2}
  MaxLoops = 4
SPECIFICATION Spec
INVARIANTS LoopPerThread BatchLoopSound
PROPERTIES ConsumerFindsLoop
CHECK_DEADLOCK FALSE
