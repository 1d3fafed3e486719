SPECIFICATION Spec
CONSTANTS
  k1 = k1
  k2 = k2
  a = a
  c1 = c1
  c2 = c2
  None = None
  Key = {k1, k2}
  Text = {a}
  Member = {}
  Client = {c1, c2}
  Workload <- WatchWorkload
  WatchLists <- AnyKeys
  MaxVersion = 2
  MaxTime = 1
  MaxDrift = 1
  MaxQueued = 1
INVARIANTS TypeOK WatchedNotAhead OneReplyPerCommand
PROPERTIES WatchGuards AbortsHaveCause WatchEndsWithTransaction
SYMMETRY Symmetry
