SPECIFICATION Spec
CONSTANTS
  k1 = k1
  k2 = k2
  a = a
  other = other
  None = None
  Key = {k1, k2}
  Text = {a, other}
  Member = {}
  Workload <- Writes
  WordsOf <- Spelled
  CommandOf <- Understood
  Snapshots <- RedisFiles
  ChunkSizes = {11}
  Cuts = {1, 3, 7, 12, 16, 20}
  MaxRecords = 2
  MaxVersion = 5
  MaxTime = 1
INVARIANTS SnapshotIsLoaded
