CONSTANTS
  MaxSize = 3
  HookRaises = {"error", "skip", "cancelled"}
  AfterRaises = {"error", "skip", "cancelled"}
SPECIFICATION Spec
INVARIANTS Balanced Nested FailureNotMasked AfterSeesFailure
PROPERTIES HandlerInside
