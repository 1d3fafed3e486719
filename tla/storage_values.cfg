SPECIFICATION Spec
CONSTANTS
  k1 = k1
  k2 = k2
  a = a
  None = None
  Key = {k1}
  Text = {a}
  Member = {1, 2, 3}
  Workload <- ValueWorkload
  MaxVersion = 3
  MaxTime = 2
INVARIANTS TypeOK NoEmptyList ListRangesAreExact PopsSplitTheList StreamsInOrder PagesJoin NoEmptyZSet ZSetRangesAreExact
