---------------------------- MODULE SaiObjects -----------------------------
(***************************************************************************)
(* The objects the PTF tests of src/ptf create, as records of the          *)
(* attributes that say where a packet goes.  An attribute that is not      *)
(* there has its default value.                                            *)
(***************************************************************************)

NULL == "NULL"            \* SAI_NULL_OBJECT_ID

Vrf                 == [kind |-> "vrf"]
PortRif(v, p)       == [kind |-> "rif", vr |-> v, port |-> p]
SubRif(v, p, vid)   == [kind |-> "rif", vr |-> v, port |-> p, vid |-> vid]
VlanRif(v, vlan)    == [kind |-> "rif", vr |-> v, vlan |-> vlan]
LoopRif(v)          == [kind |-> "rif", vr |-> v]
Hop(r, ip)          == [kind |-> "nhop", rif |-> r, ip |-> ip]
TunHop(t, ip, m, v) == [kind |-> "nhop", tunnel |-> t, ip |-> ip, imac |-> m, vni |-> v]
HostNbor(r, ip, m)  == [kind |-> "nbor", rif |-> r, ip |-> ip, mac |-> m]
Nbor(r, ip, m)      == [kind |-> "nbor", rif |-> r, ip |-> ip, mac |-> m, nohost |-> TRUE]
Route(v, dst, nh)   == [kind |-> "route", vr |-> v, dst |-> dst, nh |-> nh]
DropRoute(v, dst)   == [kind |-> "route", vr |-> v, dst |-> dst]
Group               == [kind |-> "nhg"]
Member(g, nh)       == [kind |-> "nhgm", group |-> g, nh |-> nh]
TunnelMap           == [kind |-> "map"]
EncapEntry(m, v, n) == [kind |-> "entry", map |-> m, vr |-> v, encap |-> n]
DecapEntry(m, v, n) == [kind |-> "entry", map |-> m, vr |-> v, decap |-> n]
DecapVlan(m, v, n)  == [kind |-> "entry", map |-> m, tovlan |-> v, decap |-> n]
QosMap              == [kind |-> "qosmap"]
Tunnel(r, es, ds)   == [kind |-> "tunnel", rif |-> r, emaps |-> es, dmaps |-> ds]
IpTunnel(r, over)   == [kind |-> "tunnel", rif |-> r, obj |-> over, over |-> over]
Term(v, t, dst)     == [kind |-> "term", vr |-> v, tunnel |-> t, dst |-> dst]
TermP2P(v, t, d, s) == [kind |-> "term", vr |-> v, tunnel |-> t, dst |-> d, src |-> s]
Lag                 == [kind |-> "lag"]
LagMember(l, p)     == [kind |-> "lagm", lag |-> l, port |-> p]
BridgePort(p)       == [kind |-> "bp", port |-> p]
TunnelBridgePort(t) == [kind |-> "bp", tunnel |-> t]
Vlan                == [kind |-> "vlan"]
VlanMember(v, b, t) == [kind |-> "vlanm", vlan |-> v, bp |-> b, tag |-> t]
Fdb(v, mac, b)      == [kind |-> "fdb", vlan |-> v, mac |-> mac, bp |-> b]
Hash                == [kind |-> "hash"]
TrapGroup           == [kind |-> "trapg"]
Trap(g)             == [kind |-> "trap", group |-> g]
AclTable            == [kind |-> "acltable"]
AclEntry(t, ds, nh) == [kind |-> "aclentry", table |-> t, match |-> ds, nh |-> nh]
PushHop(r, ip, ls)  == [kind |-> "nhop", rif |-> r, ip |-> ip, push |-> ls]
SwapHop(r, ip, ls)  == [kind |-> "nhop", rif |-> r, ip |-> ip, swap |-> ls]
Inseg(l, nh)        == [kind |-> "inseg", label |-> l, nh |-> nh]
PopInseg(l, n, mode, nh) == [kind |-> "inseg", label |-> l, nh |-> nh, pop |-> n, pttl |-> mode]
BareInseg(l)        == [kind |-> "inseg", label |-> l]
DebugCounter        == [kind |-> "counter"]
Unset               == [kind |-> "fixed"]

=============================================================================
