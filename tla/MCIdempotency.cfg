CONSTANTS
  r1 = r1
  r2 = r2
  r3 = r3
  k = k
  f1 = f1
  f2 = f2
  Null = Null
  Requests = {r1, r2, r3}
  Keys = {k}
  Fingerprints = {f1, f2}
  KeyOf <- MCKeyOf
  FingerprintOf <- MCFingerprintOf
  TTL = 1
  MaxNow = 3
SPECIFICATION Spec
CHECK_DEADLOCK FALSE
INVARIANTS
  ExclusiveUnlessReconciled
  ReplayIsFaithful
PROPERTIES
  CompletedIsRetained
  RunningIsOwned
