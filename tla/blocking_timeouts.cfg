SPECIFICATION FairSpec
CONSTANTS
  k1 = k1
  k2 = k2
  a = a
  c1 = c1
  c2 = c2
  None = None
  NewOnly = NewOnly
  Key = {k1, k2}
  Text = {a}
  Member = {}
  Client = {c1, c2}
  Workload <- MixedWorkload
  KeyLists <- OneKey
  ReadLists <- ReadMixed
  Timeouts = {0, 1, None}
  Patient = {c1}
  MaxVersion = 2
  MaxTime = 1
  MaxDrift = 1
  MaxQueue = 2
INVARIANTS TypeOK ReadersRegistered NoMissedEntry OneReplyPerCommand
PROPERTIES PopTimeoutFires ReadTimeoutFires
