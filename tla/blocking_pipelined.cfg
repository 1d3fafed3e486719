SPECIFICATION Spec
CONSTANTS
  k1 = k1
  k2 = k2
  a = a
  c1 = c1
  c2 = c2
  c3 = c3
  None = None
  Key = {k1, k2}
  Text = {a}
  Member = {}
  Client = {c1, c2, c3}
  Workload <- PushWorkload
  KeyLists <- TwoKeys
  Timeouts = {0, 1, None}
  Patient = {c1, c2}
  MaxVersion = 2
  MaxTime = 1
  MaxDrift = 1
  MaxQueue = 3
INVARIANTS TypeOK OneReplyPerCommand QueuesAgree Registered NoMissedPush
PROPERTIES OldestFirst
SYMMETRY Symmetry
