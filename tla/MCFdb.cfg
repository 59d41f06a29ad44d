SPECIFICATION FairSpec
CONSTANTS
  m1 = m1
  m2 = m2
  v1 = v1
  v2 = v2
  p1 = p1
  p2 = p2
  NullOid = NullOid
  Absent = Absent
  Junk = Junk
  Macs = {m1}
  Bvs = {v1,v2}
  Bports = {p1,p2}
  Flushing = {"one_by_one", "consolidated"}
  Liberties = {"overlap"}
  MaxPending = 2
INVARIANT TypeOK
INVARIANT MapFollowsAsic
PROPERTY StaleEntriesLeave
