SPECIFICATION FairSpec
CONSTANTS
  a = a  b = b  c = c  p = p  q = q  s = s  h = h
  n1 = n1  n2 = n2  n3 = n3  n4 = n4  g1 = g1  g2 = g2
  NullOid = NullOid
  ZeroIp = ZeroIp
  Liberties = {"update_route","share_nexthops","setup_prefix","group_api","erase_nexthops"}
  Faulty <- AllCalls
  Prefixes = {p,s}
  HostPrefixes = {}
  SubnetPrefixes = {s}
  Intfs = {"e1"}
  Rifs = {"e1"}
  Ips = {a,b}
  Macs = {"m1"}
  NhOids = {n1,n2}
  GrpOids = {g1,g2}
INVARIANTS RoutesTracked GroupsLive NeighborsLive NextHopsLive
PROPERTIES EraseAllEnds EraseAllShrinks
