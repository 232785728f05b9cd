CONSTANTS
  k1 = k1
  k2 = k2
  k3 = k3
  s1 = s1
  s2 = s2
  None = None
  Threads = {t1, t2, t3}
  Shards = {s1, s2}
  Keys = {k1, k2, k3}
  Values = {v1}
  ShardOf <- ThreeKeys
SPECIFICATION FairSpec
INVARIANTS
  TypeOK
  NoDataRace
  SizeExact
PROPERTIES
  OperationsAtomic
  LocksReleased
