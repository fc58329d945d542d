CONSTANTS
  Null = Null
  Events = {v1}
  Endpoints = {e1}
  Workers = {w1, w2}
  Editors = {r1}
  Tokens = {1, 2, 3, 4, 5}
  Subscribers <- MCSubscribers
  Schedule <- MCSchedule
  Lease = 1
  DisableAfter = 1
  Retention = 1
  Limit = 2
  MaxNow = 2
SPECIFICATION Spec
CHECK_DEADLOCK FALSE
PROPERTIES
  PatchEnablesOnlyIfSent
