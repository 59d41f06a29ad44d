SPECIFICATION Spec
CONSTANTS
  a = a  b = b  c = c  p = p  q = q  s = s  h = h
  n1 = n1  n2 = n2  n3 = n3  n4 = n4  g1 = g1  g2 = g2
  NullOid = NullOid
  ZeroIp = ZeroIp
  Liberties = {"move_neighbor","share_nexthops"}
  Faulty = {"create_neighbor_entry","create_next_hop","remove_next_hop"}
  Prefixes = {p,q}
  HostPrefixes = {}
  SubnetPrefixes = {}
  Intfs = {"e1","e2"}
  Rifs = {"e1","e2"}
  Ips = {a,b}
  Macs = {"m1"}
  NhOids = {n1,n2,n3}
  GrpOids = {g1,g2}
INVARIANTS NoMisdelivery NeighborHasItsNextHop
