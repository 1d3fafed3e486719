SPECIFICATION Spec
CONSTANTS
  k1 = k1
  a = a
  c1 = c1
  c2 = c2
  None = None
  Key = {k1}
  Text = {a}
  Member = {}
  Client = {c1, c2}
  Workload <- PushWorkload
  KeyLists <- OneKey
  Timeouts = {1}
  Patient = {}
  MaxQueue = 2
  WatchLists <- WatchOneKey
  MaxVersion = 2
  MaxTime = 1
  MaxDrift = 1
  MaxQueued = 1
PROPERTIES WatchGuards PushServesAll
SYMMETRY Symmetry
