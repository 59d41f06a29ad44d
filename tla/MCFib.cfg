SPECIFICATION Spec
CONSTANTS
  a = a  b = b  c = c  p = p  q = q  s = s  h = h
  n1 = n1  n2 = n2  n3 = n3  n4 = n4  g1 = g1  g2 = g2
  NullOid = NullOid
  ZeroIp = ZeroIp
  Liberties = {}
  Faulty = {"create_neighbor_entry","remove_next_hop","create_next_hop_group","remove_route"}
  Prefixes = {p,q,s,h}
  HostPrefixes = {h}
  SubnetPrefixes = {s}
  Intfs = {"e1","e2"}
  Rifs = {"e1","e2"}
  Ips = {a,b,c}
  Macs = {"m1"}
  NhOids = {n1,n2,n3}
  GrpOids = {g1,g2}
INVARIANTS TypeOK AsicIsCaches NoMisdelivery OnlyBlackHoleIsNull
PROPERTIES ImplementsFib RouteLeavesBoth NeighborKeptWhileUsed
