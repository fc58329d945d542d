CONSTANTS
  Null = Null
  p = p
  q = q
  a = a
  b = b
  x = x
  Tasks = {t1, t2}
  Threads = {h1}
  Services = {p, q, a, b, x}
  Shared = {p, q, a, b}
  AsyncOnly = {a}
  Needs <- MCNeeds
SPECIFICATION FairSpec
INVARIANTS
  BuiltOnce
  WaitsEnd
  DependenciesFirst
PROPERTIES
  ResolveEnds
