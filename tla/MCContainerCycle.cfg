CONSTANTS
  Null = Null
  p = p
  q = q
  a = a
  b = b
  x = x
  Tasks = {t1, t2}
  Threads = {}
  Services = {a, b, x}
  Shared = {a, b}
  AsyncOnly = {a}
  Needs <- MCNeeds
SPECIFICATION Spec
PROPERTIES
  CircularErrorMeansCycle
