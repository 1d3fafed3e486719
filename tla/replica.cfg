SPECIFICATION Spec
CONSTANTS
  k1 = k1
  a = a
  c1 = c1
  c2 = c2
  c3 = c3
  news = news
  None = None
  Key = {k1}
  Text = {a}
  Member = {}
  Client = {c1, c2, c3}
  Workload <- WritesAndPops
  Channel = {}
  SizeOf <- Words
  MaxShipped = 2
  MaxVersion = 2
  MaxTime = 1
  MaxDrift = 0
  Links = {c1, c2}
SYMMETRY Symmetry
INVARIANTS ReplicaFollows
