SPECIFICATION Services
CONSTANTS
  Requests = {r1, r2, r3}
  Moves <- MCMoves
  Kids = {kid}
  TagByField = FALSE
  None = None
  CacheRequests = {c1, c2}
  CacheWriters = {w1, w2}
  EarliestTime = 4
  LatestTime = 5
  KeyRequests = {k1}
  KeyManagers = {m1, m2}
  Middlewares <- MCMiddlewares
  Loggers = {"log"}
  Hooks <- MCHooks
  RequestPlans <- MCPlans
  Callers <- MCCallers
  Throttles <- MCThrottles
  ThrottleTime = 3
  Grantable <- MCGrantable
  Required <- MCRequired
  KeyTime = 1
  AuditRequests = {"a1", "a2"}
  Policy <- MCPolicy
  Values = {1, 2}
  Metadata <- MCMetadata
  Hidden = "********"
  MaxEntries = 3
  Probes = {"p1", "p2"}
  Checks <- MCChecks
  Units <- MCUnits
  Events = {"e"}
  Handlers = {"h"}
  Repository = "main"
  Queue = "main"
  MaxSteps = 4
  MaxHandlers = 2
INVARIANTS RequestsUnwind InvalidatedIsGone LimitHolds
  RefusedOnceReplaced WhatIsToldWasDone OneWorkerAndItsNews
PROPERTIES ConditionalWriteIsCurrent OnlyBlindWritesRevive StateFollowsTransitions NestedIsWhatWasSent
  NothingComesBack
