SPECIFICATION Spec
CONSTANTS
  Records = {r1, r2}
  Messages <- Sample
  Stores = {s1, s2}
  Keys = {k1, k2}
  s1 = s1
  s2 = s2
  k1 = k1
  k2 = k2
  tpA = tpA
  tpP = tpP
  ts = ts
  None = None
  Malformed = Malformed
  MaxClock = 2
  MaxDeliveries = 2
SYMMETRY Symmetry
INVARIANTS DurationOwn LoggedDuration ClaimsSettled
PROPERTIES OnlyOwnClaimsEnd
