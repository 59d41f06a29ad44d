---------------------------- MODULE TunnelNhop -----------------------------
(***************************************************************************)
(* src/ptf/saitunnel.py, TunnelNhopResolutionBase: the next hop of a       *)
(* tunnel is resolved in the underlay, in whatever order the overlay and   *)
(* the underlay are configured, and again when the underlay changes.       *)
(***************************************************************************)
EXTENDS PtfScript

(* tun_ip1 is covered by the host mask, the /24 and the /16 *)
Host(i) == {"tun_ip" \o ToString(i)}
Mask2   == {"tun_ip1", "tun_ip2", "tun_ip3"}
Mask3   == Mask2 \cup {"other_ip"}

Objects ==
    [uvrf                   |-> Vrf,
     ovrf                   |-> Vrf,
     urif_lpb               |-> LoopRif("uvrf"),
     orif                   |-> PortRif("ovrf", "port24"),
     encap_tunnel_map       |-> TunnelMap,
     decap_tunnel_map       |-> TunnelMap,
     encap_tunnel_map_entry |-> EncapEntry("encap_tunnel_map", "ovrf", "vni"),
     decap_tunnel_map_entry |-> DecapEntry("encap_tunnel_map", "ovrf", "vni"),
     tunnel                 |-> Tunnel("urif_lpb", {"encap_tunnel_map"}, {"decap_tunnel_map"})]

Order == <<"uvrf", "ovrf", "urif_lpb", "orif", "encap_tunnel_map", "decap_tunnel_map",
           "encap_tunnel_map_entry", "decap_tunnel_map_entry", "tunnel">>

SetUp == Make(Objects, Order)

TearDown == Del(Reverse(Order))

Call(s) == Method(ToSet(Order), s)

(***************************************************************************)
(* Traffic from the overlay port.                                          *)
(***************************************************************************)
Header(i) == <<"tun_ip" \o ToString(i), "inner_dmac" \o ToString(i), "vni">>

Sent(dst, out) == Expect([in |-> "port24", dst |-> dst], out)

v4Traffic(dst, ps, mac, hdr) == Sent(dst, InTunnel(ps, mac, hdr))
v6Traffic(dst, ps, mac, hdr) == Sent(dst, InTunnel(ps, mac, hdr))

v4TrafficTest(ps) == v4Traffic("vm_ip1", ps, "unbor_mac1", Header(1))
v6TrafficTest(ps) == v6Traffic("vm_ipv61", ps, "unbor_mac1", Header(1))

v4TrafficMissTest == Sent("vm_ip1", Nothing)
v6TrafficMissTest == Sent("vm_ipv61", Nothing)

(* a copy on one port of each of the lists of ports *)
FloodOn(lists) ==
    {Result(Range(c), "unbor_mac1", Header(1), AsIs) :
        c \in {g \in [DOMAIN lists -> UNION Range(lists)] :
                  \A i \in DOMAIN lists : g[i] \in lists[i]}}

v4TrafficFloodTest(lists) == Sent("vm_ip1", FloodOn(lists))
v6TrafficFloodTest(lists) == Sent("vm_ipv61", FloodOn(lists))

v4TrafficEcmpTest(outs) == Sent("vm_ip1", outs)
v6TrafficEcmpTest(outs) == Sent("vm_ipv61", outs)

Traffic(ps)        == v4TrafficTest(ps) \o v6TrafficTest(ps)
TrafficVia(ps, m)  == v4Traffic("vm_ip1", ps, m, Header(1))
                        \o v6Traffic("vm_ipv61", ps, m, Header(1))
TrafficTo2(ps, m)  == v4Traffic("vm_ip2", ps, m, Header(2))
                        \o v6Traffic("vm_ipv62", ps, m, Header(2))
TrafficMiss        == v4TrafficMissTest \o v6TrafficMissTest
TrafficEcmp(outs)  == v4TrafficEcmpTest(outs) \o v6TrafficEcmpTest(outs)

-----------------------------------------------------------------------------
(***************************************************************************)
(* The objects of the sequence tests: the overlay's and, on the interface  *)
(* urif, the underlay's.                                                   *)
(***************************************************************************)
Overlay(nhop) ==
    [tunnel_nhop |-> TunHop("tunnel", "tun_ip1", "inner_dmac1", "vni"),
     vm_route    |-> Route("ovrf", {"vm_ip1"}, nhop),
     vm_v6_route |-> Route("ovrf", {"vm_ipv61"}, nhop)]

Over == <<"tunnel_nhop", "vm_route", "vm_v6_route">>

Overlaid == Make(Overlay("tunnel_nhop"), Over)

UnderlayOn(urif) ==
    [unhop        |-> Hop(urif, "tun_ip1"),
     unbor        |-> Nbor(urif, "tun_ip1", "unbor_mac1"),
     tunnel_route |-> Route("uvrf", Host(1), "unhop"),
     mac_entry    |-> Fdb("vlan30", "unbor_mac1", "port20_bp")]

Sequence(urif, traffic, made, removed) ==
    Call(Try(Make(UnderlayOn(urif) @@ Overlay("tunnel_nhop"), made) \o traffic, Del(removed)))

sequenceTest1(urif, ps) ==
    Sequence(urif, Traffic(ps), <<"unhop", "unbor", "tunnel_route">> \o Over,
             Reverse(Over) \o <<"tunnel_route", "unbor", "unhop">>)
sequenceTest2(urif, ps) ==
    Sequence(urif, Traffic(ps), Over \o <<"unhop", "unbor", "tunnel_route">>,
             <<"tunnel_route", "unbor", "unhop">> \o Reverse(Over))
sequenceTest3(urif, ps) ==
    Sequence(urif, Traffic(ps), Over \o <<"unhop", "tunnel_route", "unbor">>,
             <<"unbor", "tunnel_route", "unhop">> \o Reverse(Over))
sequenceTest4(urif, ps) ==
    Sequence(urif, Traffic(ps), Over \o <<"unbor", "unhop", "tunnel_route">>,
             <<"tunnel_route", "unhop", "unbor">> \o Reverse(Over))

(* the same on a VLAN interface, where the FDB has the neighbor's port *)
SviSequence(made, removed) == Sequence("vlan30_rif", Traffic({"port20"}), made, removed)

sviSequenceTest1 ==
    SviSequence(Over \o <<"unhop", "tunnel_route", "unbor", "mac_entry">>,
                <<"mac_entry", "unbor", "tunnel_route", "unhop">> \o Reverse(Over))
sviSequenceTest2 ==
    SviSequence(Over \o <<"unbor", "mac_entry", "unhop", "tunnel_route">>,
                <<"tunnel_route", "unhop", "mac_entry", "unbor">> \o Reverse(Over))
sviSequenceTest3 ==
    SviSequence(Over \o <<"mac_entry", "unbor", "unhop", "tunnel_route">>,
                <<"tunnel_route", "unhop", "unbor", "mac_entry">> \o Reverse(Over))
sviSequenceTest4 ==
    SviSequence(Over \o <<"mac_entry", "unhop", "tunnel_route", "unbor">>,
                <<"unbor", "tunnel_route", "unhop", "mac_entry">> \o Reverse(Over))
sviSequenceTest5 ==
    SviSequence(Over \o <<"unbor", "unhop", "tunnel_route", "mac_entry">>,
                <<"mac_entry", "tunnel_route", "unhop", "unbor">> \o Reverse(Over))
sviSequenceTest6 ==
    SviSequence(<<"unhop", "unbor", "mac_entry", "tunnel_route">> \o Over,
                Reverse(Over) \o <<"tunnel_route", "mac_entry", "unbor", "unhop">>)
sviSequenceTest7 ==
    SviSequence(<<"unhop", "mac_entry", "tunnel_route">> \o Over \o <<"unbor">>,
                <<"unbor">> \o Reverse(Over) \o <<"tunnel_route", "mac_entry", "unhop">>)
sviSequenceTest8 ==
    SviSequence(<<"unhop", "unbor", "tunnel_route">> \o Over \o <<"mac_entry">>,
                <<"mac_entry">> \o Reverse(Over) \o <<"tunnel_route", "unbor", "unhop">>)
sviSequenceTest9 ==
    SviSequence(<<"unhop", "unbor", "mac_entry">> \o Over \o <<"tunnel_route">>,
                <<"tunnel_route", "vm_v6_route", "vm_route", "mac_entry", "tunnel_nhop",
                  "unbor", "unhop">>)
sviSequenceTest10 ==
    SviSequence(<<"unhop", "unbor">> \o Over \o <<"mac_entry", "tunnel_route">>,
                <<"tunnel_route", "mac_entry">> \o Reverse(Over) \o <<"unbor", "unhop">>)
sviSequenceTest11 ==
    SviSequence(<<"unhop">> \o Over \o <<"unbor", "mac_entry", "tunnel_route">>,
                <<"tunnel_route", "mac_entry", "unbor">> \o Reverse(Over) \o <<"unhop">>)
sviSequenceTest12 ==
    SviSequence(<<"unhop", "mac_entry">> \o Over \o <<"unbor", "tunnel_route">>,
                <<"tunnel_route", "unbor">> \o Reverse(Over) \o <<"mac_entry", "unhop">>)

sviMacMoveTest ==
    Call(Try(   Make(UnderlayOn("vlan30_rif") @@ Overlay("tunnel_nhop"),
                     Over \o <<"unhop", "tunnel_route", "unbor", "mac_entry">>)
             \o Traffic({"port20"})
             \o Set("mac_entry", "bp", "port21_bp")
             \o Traffic({"port21"}),
             Del(<<"mac_entry", "unbor", "tunnel_route", "unhop">> \o Reverse(Over))))

(* without an FDB entry a copy goes to every member of the VLAN *)
sviMacFloodTest(lists) ==
    Sequence("vlan30_rif", v4TrafficFloodTest(lists) \o v6TrafficFloodTest(lists),
             Over \o <<"unhop", "tunnel_route", "unbor">>,
             <<"unbor", "tunnel_route", "unhop">> \o Reverse(Over))

-----------------------------------------------------------------------------
(* a neighbor, a next hop and a route over one interface *)
Way(i, urif, dst, mac) ==
       New("unbor" \o i, Nbor(urif, "tun_ip1", mac))
    \o New("unhop" \o i, Hop(urif, "tun_ip1"))
    \o New("tunnel_route" \o i, Route("uvrf", dst, "unhop" \o i))

WayOff(i) == Del(<<"tunnel_route" \o i, "unhop" \o i, "unbor" \o i>>)

underlayTunnelRouteUpdateTest(u1, ps1, u2, ps2) ==
    Call(Try(   Overlaid
             \o Way("1", u1, Host(1), "unbor_mac1")
             \o Traffic(ps1)
             \o WayOff("1")
             \o TrafficMiss
             \o Way("2", u2, Host(1), "unbor_mac2")
             \o TrafficVia(ps2, "unbor_mac2"),
             WayOff("2") \o Del(Reverse(Over))))

underlayTunnelRouteUpdateDropTest(u, ps) ==
    Call(Try(   Overlaid
             \o New("tunnel_route1", Route("uvrf", Host(1), NULL))
             \o TrafficMiss
             \o Del(<<"tunnel_route1">>)
             \o TrafficMiss
             \o Way("", u, Host(1), "unbor_mac1")
             \o Traffic(ps),
             WayOff("") \o Del(Reverse(Over))))

underlayRouteFallbackTest(u1, ps1, u2, ps2) ==
    Call(Try(   Overlaid
             \o Way("1", u2, Mask2, "unbor_mac2")
             \o Way("2", u1, Host(1), "unbor_mac1")
             \o Traffic(ps1)
             \o WayOff("2")
             \o TrafficVia(ps2, "unbor_mac2"),
             WayOff("1") \o Del(Reverse(Over))))

(* the second next hop goes before the routes that were moved to it *)
overlayTunnelNexthopUpdateTest(u, ps) ==
    Call(Try(   Overlaid
             \o Way("", u, Mask2, "unbor_mac1")
             \o Traffic(ps)
             \o New("tunnel_nhop2", TunHop("tunnel", "tun_ip2", "inner_dmac2", "vni"))
             \o Set("vm_route", "nh", "tunnel_nhop2")
             \o Set("vm_v6_route", "nh", "tunnel_nhop2")
             \o Sent("vm_ip1", InTunnel(ps, "unbor_mac1", Header(2)))
             \o Sent("vm_ipv61", InTunnel(ps, "unbor_mac1", Header(2))),
             Del(<<"tunnel_nhop2", "tunnel_route", "unhop", "unbor">> \o Reverse(Over))))

L3(u1, ps1, u2, ps2) ==
       sequenceTest1(u1, ps1) \o sequenceTest2(u1, ps1)
    \o sequenceTest3(u1, ps1) \o sequenceTest4(u1, ps1)
    \o underlayTunnelRouteUpdateTest(u1, ps1, u2, ps2)
    \o underlayTunnelRouteUpdateDropTest(u1, ps1)
    \o underlayRouteFallbackTest(u1, ps1, u2, ps2)
    \o overlayTunnelNexthopUpdateTest(u1, ps1)

tunnelL3IntfTest ==
    Try(   New("urif1", PortRif("uvrf", "port25"))
        \o New("urif2", PortRif("uvrf", "port26"))
        \o L3("urif1", {"port25"}, "urif2", {"port26"}),
        Del(<<"urif2", "urif1">>))

tunnelL3LagIntfTest ==
    L3("lag3_rif", {"port14", "port15", "port16"},
       "lag4_rif", {"port17", "port18", "port19"})

tunnelL3SubPortIntfTest ==
    Try(   New("urif1", SubRif("uvrf", "port25", "100"))
        \o New("urif2", SubRif("uvrf", "port25", "200"))
        \o L3("urif1", {"port25"}, "urif2", {"port25"}),
        Del(<<"urif2", "urif1">>))

(***************************************************************************)
(* port21 is made an untagged member of the VLAN while the test runs, and  *)
(* a tagged one again at the end: each time under a new handle, which the  *)
(* lists of the helper do not get.                                         *)
(***************************************************************************)
Retagged(member, tag) == Del(<<member>>)
                           \o New("vlan30_member1_" \o tag, VlanMember("vlan30", "port21_bp", tag))

tunnelSviIntfTest ==
    Try(   Retagged("vlan30_member1", "untagged")
        \o sviSequenceTest1 \o sviSequenceTest2 \o sviSequenceTest3 \o sviSequenceTest4
        \o sviSequenceTest5 \o sviSequenceTest6 \o sviSequenceTest7 \o sviSequenceTest8
        \o sviSequenceTest9 \o sviSequenceTest10 \o sviSequenceTest11 \o sviSequenceTest12
        \o sviMacMoveTest
        \o sviMacFloodTest(<<{"port20"}, {"port21"}, {"port22", "port23"}>>)
        \o New("mac", Fdb("vlan30", "unbor_mac1", "port20_bp"))
        \o Sure("urif2", VlanRif("default_vrf", "vlan10"))
        \o New("mac2", Fdb("vlan10", "unbor_mac2", "port0_bp"))
        \o underlayRouteFallbackTest("vlan30_rif", {"port20"}, "urif2", {"port0"})
        \o overlayTunnelNexthopUpdateTest("vlan30_rif", {"port20"}),
        Del(<<"mac2", "urif2", "mac">>) \o Retagged("vlan30_member1_untagged", "tagged"))

-----------------------------------------------------------------------------
(***************************************************************************)
(* Several next hops on the tunnel, and groups of them.                    *)
(***************************************************************************)
OverlayOf(i, ip, v) ==
    LET hop == "tunnel_nhop" \o i IN
       New(hop, TunHop("tunnel", ip, "inner_dmac" \o i, v))
    \o New("vm_route" \o i, Route("ovrf", {"vm_ip" \o i}, hop))
    \o New("vm_v6_route" \o i, Route("ovrf", {"vm_ipv6" \o i}, hop))

OverlayOff(i) == Del(<<"vm_v6_route" \o i, "vm_route" \o i, "tunnel_nhop" \o i>>)

NborFirst(i, urif, ip, dst) ==
       New("unbor" \o i, Nbor(urif, ip, "unbor_mac" \o i))
    \o New("unhop" \o i, Hop(urif, ip))
    \o New("tunnel_route" \o i, Route("uvrf", dst, "unhop" \o i))

NborLast(i) == Del(<<"tunnel_route" \o i, "unhop" \o i, "unbor" \o i>>)

TrafficToBoth(ps, mac) == TrafficVia(ps, mac) \o TrafficTo2(ps, mac)

multiNhopSequenceTest1(urif, ps) ==
    Call(Try(   OverlayOf("1", "tun_ip1", "vni") \o OverlayOf("2", "tun_ip2", "vni")
             \o NborFirst("1", urif, "tun_ip1", Mask2)
             \o TrafficToBoth(ps, "unbor_mac1"),
             NborLast("1") \o OverlayOff("2") \o OverlayOff("1")))
multiNhopSequenceTest2(urif, ps) ==
    Call(Try(   OverlayOf("1", "tun_ip1", "vni") \o NborFirst("1", urif, "tun_ip1", Mask2)
             \o OverlayOf("2", "tun_ip2", "vni")
             \o TrafficToBoth(ps, "unbor_mac1"),
             OverlayOff("2") \o NborLast("1") \o OverlayOff("1")))
multiNhopSequenceTest3(urif, ps) ==
    Call(Try(   NborFirst("1", urif, "tun_ip1", Mask2)
             \o OverlayOf("1", "tun_ip1", "vni") \o OverlayOf("2", "tun_ip2", "vni")
             \o TrafficToBoth(ps, "unbor_mac1"),
             OverlayOff("2") \o OverlayOff("1") \o NborLast("1")))

(* a longer prefix takes the traffic of both next hops, or of one of them *)
OneFallsBack(u2, ps1, ps2) ==
       NborLast("2")
    \o TrafficToBoth(ps1, "unbor_mac1")
    \o New("unbor2", Nbor(u2, "tun_ip1", "unbor_mac2"))
    \o New("unhop2", Hop(u2, "tun_ip1"))
    \o New("tunnel_host_route", Route("uvrf", Host(1), "unhop2"))
    \o TrafficVia(ps2, "unbor_mac2") \o TrafficTo2(ps1, "unbor_mac1")

multiNhopFallbackTest(u1, ps1, u2, ps2) ==
    Call(Try(   NborFirst("1", u1, "tun_ip1", Mask3)
             \o OverlayOf("1", "tun_ip1", "vni") \o OverlayOf("2", "tun_ip2", "vni")
             \o TrafficToBoth(ps1, "unbor_mac1")
             \o NborFirst("2", u2, "tun_ip1", Mask2)
             \o TrafficToBoth(ps2, "unbor_mac2")
             \o OneFallsBack(u2, ps1, ps2),
             Del(<<"tunnel_host_route", "unhop2", "unbor2">>)
             \o OverlayOff("2") \o OverlayOff("1") \o NborLast("1")))

(* the VNI of a next hop is changed *)
ServTraffic(ps, v) ==
    LET hdr == <<"serv_ip", "inner_dmac2", v>>
    IN  v4Traffic("vm_ip2", ps, "unbor_mac2", hdr) \o v6Traffic("vm_ipv62", ps, "unbor_mac2", hdr)

NewVni(ps1, ps2) ==
    Set("tunnel_nhop2", "vni", "serv_vni2") \o Traffic(ps1) \o ServTraffic(ps2, "serv_vni2")

tunnelVniNexthopTest(u1, ps1, u2, ps2) ==
    Call(Try(   NborFirst("1", u1, "tun_ip1", Mask2)
             \o NborFirst("2", u2, "serv_ip", {"serv_ip"})
             \o OverlayOf("1", "tun_ip1", "vni") \o OverlayOf("2", "serv_ip", "serv_vni1")
             \o Traffic(ps1) \o ServTraffic(ps2, "serv_vni1")
             \o NewVni(ps1, ps2),
             Del(<<"vm_v6_route2", "vm_route2", "vm_v6_route1", "vm_route1",
                   "tunnel_nhop2", "tunnel_nhop1">>)
             \o NborLast("2") \o NborLast("1")))

multiTunnelNhopTest ==
    Try(   New("urif1", PortRif("uvrf", "port25"))
        \o New("urif2", PortRif("uvrf", "port26"))
        \o multiNhopSequenceTest1("urif1", {"port25"})
        \o multiNhopSequenceTest2("urif1", {"port25"})
        \o multiNhopSequenceTest3("urif1", {"port25"})
        \o multiNhopFallbackTest("urif1", {"port25"}, "urif2", {"port26"})
        \o tunnelVniNexthopTest("urif1", {"port25"}, "urif2", {"port26"}),
        Del(<<"urif2", "urif1">>))

-----------------------------------------------------------------------------
(* the ways to three peers, on three interfaces *)
Peers   == <<"1", "2", "3">>
PeersUp == <<"3", "2", "1">>

HopFirst(i) ==
    LET urif == "urif" \o i  ip == "tun_ip" \o i IN
       New("unhop" \o i, Hop(urif, ip))
    \o New("unbor" \o i, Nbor(urif, ip, "unbor_mac" \o i))
    \o New("tunnel_route" \o i, Route("uvrf", {ip}, "unhop" \o i))

HopLast(i) == Del(<<"tunnel_route" \o i, "unbor" \o i, "unhop" \o i>>)

TunnelNhop(i)  == New("tunnel_nhop" \o i, TunHop("tunnel", "tun_ip" \o i, "inner_dmac" \o i, "vni"))
EcmpMember(i)  == New("tunnel_ecmp_member" \o i, Member("tunnel_ecmp", "tunnel_nhop" \o i))
NhopOff(i)     == Del(<<"tunnel_nhop" \o i>>)
MemberOff(i)   == Del(<<"tunnel_ecmp_member" \o i>>)
TunnelEcmp     == New("tunnel_ecmp", Group)
VmRoutes       == New("vm_route", Route("ovrf", {"vm_ip1"}, "tunnel_ecmp"))
                    \o New("vm_v6_route", Route("ovrf", {"vm_ipv61"}, "tunnel_ecmp"))
VmRoutesOff    == Del(<<"vm_v6_route", "vm_route">>)

(* through one of the interfaces is, in the header of its peer *)
EitherOf(is) ==
    UNION {InTunnel({"port" \o ToString(24 + i)}, "unbor_mac" \o ToString(i), Header(i)) : i \in is}

Off1 == For(PeersUp, HopLast) \o VmRoutesOff \o For(PeersUp, MemberOff)
          \o Del(<<"tunnel_ecmp">>) \o For(PeersUp, NhopOff)
Off2 == For(PeersUp, HopLast) \o For(PeersUp, MemberOff) \o For(PeersUp, NhopOff)
          \o VmRoutesOff \o Del(<<"tunnel_ecmp">>)
Off3 == For(PeersUp, MemberOff) \o For(PeersUp, NhopOff) \o For(PeersUp, HopLast)
          \o VmRoutesOff \o Del(<<"tunnel_ecmp">>)
Off4 == VmRoutesOff \o For(PeersUp, MemberOff) \o Del(<<"tunnel_ecmp">>)
          \o For(PeersUp, NhopOff) \o For(PeersUp, HopLast)

ecmpTunnelSequenceTest1 ==
    Call(Try(   For(Peers, TunnelNhop) \o TunnelEcmp \o For(Peers, EcmpMember) \o VmRoutes
             \o For(Peers, HopFirst)
             \o TrafficEcmp(EitherOf(1..3)), Off1))
ecmpTunnelSequenceTest2 ==
    Call(Try(   TunnelEcmp \o VmRoutes \o For(Peers, TunnelNhop) \o For(Peers, EcmpMember)
             \o For(Peers, HopFirst)
             \o TrafficEcmp(EitherOf(1..3)), Off2))
ecmpTunnelSequenceTest3 ==
    Call(Try(   TunnelEcmp \o VmRoutes \o For(Peers, HopFirst) \o For(Peers, TunnelNhop)
             \o For(Peers, EcmpMember)
             \o TrafficEcmp(EitherOf(1..3)), Off3))
ecmpTunnelSequenceTest4 ==
    Call(Try(   For(Peers, HopFirst) \o For(Peers, TunnelNhop) \o TunnelEcmp
             \o For(Peers, EcmpMember) \o VmRoutes
             \o TrafficEcmp(EitherOf(1..3)), Off4))

(* the members leave one by one, and a new one takes the traffic *)
MembersMove ==
       MemberOff("1") \o TrafficEcmp(EitherOf({2}))
    \o MemberOff("2") \o TrafficMiss
    \o TunnelNhop("3") \o EcmpMember("3") \o TrafficEcmp(EitherOf({3}))

ecmpTunnelUpdateTest ==
    Call(Try(   For(Peers, HopFirst) \o TunnelNhop("1") \o TunnelNhop("2") \o TunnelEcmp
             \o EcmpMember("1") \o EcmpMember("2") \o VmRoutes
             \o TrafficEcmp(EitherOf({1, 2}))
             \o MembersMove,
             MemberOff("3") \o For(PeersUp, HopLast) \o VmRoutesOff
             \o Del(<<"tunnel_ecmp">>) \o For(PeersUp, NhopOff)))

ecmpTunnelTest ==
    Try(   For(Peers, LAMBDA i : New("urif" \o i,
               PortRif("uvrf", CASE i = "1" -> "port25" [] i = "2" -> "port26" [] i = "3" -> "port27")))
        \o ecmpTunnelSequenceTest1 \o ecmpTunnelSequenceTest2 \o ecmpTunnelSequenceTest3
        \o ecmpTunnelSequenceTest4 \o ecmpTunnelUpdateTest,
        Del(<<"urif3", "urif2", "urif1">>))

-----------------------------------------------------------------------------
(* a group in the underlay; unhop and unbor are the caller's *)
Uecmp(i)      == New("uecmp" \o i, Group)
Umember(i, h) == New("uecmp_member" \o i, Member("uecmp" \o i, h))
TunnelRoute   == New("tunnel_route", Route("uvrf", Host(1), "uecmp"))

EcmpSequence(made, removed) == Call(Try(made \o Traffic({"port25"}), Del(removed)))

ecmpSequenceTest1 ==
    EcmpSequence(Uecmp("") \o Umember("", "unhop") \o Overlaid \o TunnelRoute,
                 <<"tunnel_route">> \o Reverse(Over) \o <<"uecmp_member", "uecmp">>)
ecmpSequenceTest2 ==
    EcmpSequence(Overlaid \o Uecmp("") \o TunnelRoute \o Umember("", "unhop"),
                 <<"uecmp_member", "tunnel_route", "uecmp">> \o Reverse(Over))
ecmpSequenceTest3 ==
    EcmpSequence(Overlaid \o Uecmp("") \o Umember("", "unhop") \o TunnelRoute,
                 <<"tunnel_route", "uecmp_member", "uecmp">> \o Reverse(Over))
ecmpSequenceTest4 ==
    EcmpSequence(Uecmp("") \o TunnelRoute \o Overlaid \o Umember("", "unhop"),
                 <<"uecmp_member">> \o Reverse(Over) \o <<"tunnel_route", "uecmp">>)
ecmpSequenceTest5 ==
    EcmpSequence(   New("tunnel_nhop", TunHop("tunnel", "tun_ip1", "inner_dmac1", "vni"))
                 \o Uecmp("") \o Umember("", "unhop") \o TunnelRoute
                 \o Make(Overlay("tunnel_nhop"), <<"vm_route", "vm_v6_route">>),
                 <<"vm_v6_route", "vm_route", "tunnel_route", "uecmp_member", "uecmp",
                   "tunnel_nhop">>)

(* an interface on the port, and its next hop and neighbor *)
Uport(i, p) ==
       New("urif" \o i, PortRif("uvrf", p))
    \o New("unhop" \o i, Hop("urif" \o i, "tun_ip1"))
    \o New("unbor" \o i, Nbor("urif" \o i, "tun_ip1", "unbor_mac" \o i))

Routed(i, dst, nh) == New("tunnel_route" \o i, Route("uvrf", dst, nh))

(* the last finally removes what only the last third of the body creates *)
ecmpRouteFallbackTest ==
    Call(Try(   Overlaid
             \o Uecmp("1") \o Umember("1", "unhop") \o Routed("1", Mask3, "uecmp1")
             \o Traffic({"port25"})
             \o Uport("2", "port26") \o Uecmp("2") \o Umember("2", "unhop2")
             \o Routed("2", Mask2, "uecmp2")
             \o TrafficVia({"port26"}, "unbor_mac2")
             \o Del(<<"tunnel_route2">>)
             \o Traffic({"port25"})
             \o Routed("2", Mask2, "unhop2")
             \o TrafficVia({"port26"}, "unbor_mac2")
             \o Uport("3", "port27") \o Uecmp("3") \o Umember("3", "unhop3")
             \o Routed("3", Host(1), "uecmp3")
             \o TrafficVia({"port27"}, "unbor_mac3"),
             Del(<<"tunnel_route3", "uecmp_member3", "uecmp3", "unbor3", "unhop3", "urif3",
                   "tunnel_route2", "uecmp_member2", "uecmp2", "unbor2", "unhop2", "urif2",
                   "tunnel_route1", "uecmp_member1", "uecmp1">> \o Reverse(Over))))

ecmpUpdateTest ==
    LET member(i, h) == New("uecmp_member" \o i, Member("uecmp", h))
        out(p, m)    == InTunnel({p}, m, Header(1))
    IN  Call(Try(   Overlaid
                 \o Uecmp("") \o member("1", "unhop")
                 \o Uport("2", "port26") \o member("2", "unhop2") \o TunnelRoute
                 \o TrafficEcmp(out("port25", "unbor_mac1") \cup out("port26", "unbor_mac2"))
                 \o Del(<<"uecmp_member1">>) \o TrafficEcmp(out("port26", "unbor_mac2"))
                 \o Del(<<"uecmp_member2">>) \o TrafficMiss
                 \o Uport("3", "port27") \o member("3", "unhop3")
                 \o TrafficEcmp(out("port27", "unbor_mac3")),
                 Del(<<"uecmp_member3", "unbor3", "unhop3", "urif3", "tunnel_route",
                       "unbor2", "unhop2", "urif2", "uecmp">> \o Reverse(Over))))

underlayEcmpTunnelTest ==
    Try(   New("urif", PortRif("uvrf", "port25"))
        \o New("unhop", Hop("urif", "tun_ip1"))
        \o New("unbor", Nbor("urif", "tun_ip1", "unbor_mac1"))
        \o ecmpSequenceTest1 \o ecmpSequenceTest2 \o ecmpSequenceTest3
        \o ecmpSequenceTest4 \o ecmpSequenceTest5
        \o ecmpRouteFallbackTest \o ecmpUpdateTest,
        Del(<<"unbor", "unhop", "urif">>))

(***************************************************************************)
(* runTest calls the seven tests below one after another; each is told     *)
(* apart here, with its own setUp and tearDown.                            *)
(***************************************************************************)
Run(body) == Case(SetUp, body, TearDown)

Suite ==
    [nhop_l3            |-> Run(tunnelL3IntfTest),
     nhop_lag           |-> Run(tunnelL3LagIntfTest),
     nhop_subport       |-> Run(tunnelL3SubPortIntfTest),
     nhop_svi           |-> Run(tunnelSviIntfTest),
     nhop_multi         |-> Run(multiTunnelNhopTest),
     nhop_ecmp          |-> Run(ecmpTunnelTest),
     nhop_underlay_ecmp |-> Run(underlayEcmpTunnelTest)]

=============================================================================
