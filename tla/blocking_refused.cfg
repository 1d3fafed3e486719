SPECIFICATION Spec
CONSTANTS
  k1 = k1
  k2 = k2
  a = a
  c1 = c1
  c2 = c2
  c3 = c3
  None = None
  Key = {k1, k2}
  Text = {a}
  Member = {}
  Client = {c1, c2}
  Workload <- RefusedWorkload
  KeyLists <- OneKey
  Timeouts = {0, 1}
  Patient = {c1, c2}
  MaxVersion = 2
  MaxTime = 2
  MaxDrift = 1
  MaxQueue = 3
PROPERTIES ResolvesAfterSuccess
