CONSTANTS
  Null = Null
  Jobs = {j1}
  Workers = {w1, w2}
  Cancellers = {c1}
  Copies = 2
  Percents = {50}
  MaxRetry = 1
  MaxAttempts = 2
SPECIFICATION Spec
CHECK_DEADLOCK FALSE
PROPERTIES
  CancelsOnlyActive
