SPECIFICATION FairSpec
CONSTANTS
  Keys = {"k1", "k2"}
  Users = {"u1", "u2"}
  Owner <- MCOwner
  Contents = {"a", "b", "x"}
  Matching <- MCMatching
  Requested = "a"
  Completers = {"c1", "c2"}
  ExpiresIn = 1
  Grace = 1
  UploadTime = 1
  Limit = 2
  MaxTime = 4
  MaxPuts <- MCMaxPuts
  Configs <- MCConfigs
INVARIANTS ObjectsAgree
PROPERTIES Final EventuallySettled
CHECK_DEADLOCK FALSE
