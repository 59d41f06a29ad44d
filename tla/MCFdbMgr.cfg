SPECIFICATION FdbFairSpec
CONSTANTS
  m1 = m1
  m2 = m2
  p1 = p1
  p2 = p2
  Macs = {m1, m2}
  VlanIds = {1025, 1026}
  Ports = {p1, p2}
  Learnable <- MCLearnable
  Faulty = {"create_fdb_entry", "remove_fdb_entry"}
INVARIANT FdbTypeOK
INVARIANT ListedOnce
INVARIANT VectorIsStaticTable
INVARIANT AddTakesEffect
PROPERTY FdbEraseAllEnds
