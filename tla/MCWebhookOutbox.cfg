CONSTANTS
  Null = Null
  Events = {v1, v2}
  Endpoints = {e1}
  Workers = {w1, w2}
  Editors = {}
  Tokens = {1, 2, 3, 4, 5}
  Subscribers <- MCSubscribers
  Schedule <- MCSchedule
  Lease = 1
  DisableAfter = 1
  Retention = 1
  Limit = 2
  MaxNow = 2
SYMMETRY Symmetry
SPECIFICATION Spec
CHECK_DEADLOCK FALSE
INVARIANTS
  RowCoherent
  SingleHolder
  OnlyCommittedEventsAreSent
PROPERTIES
  LeaseRespected
  GivesUpOnlyAfterSchedule
  ImplementsContract
