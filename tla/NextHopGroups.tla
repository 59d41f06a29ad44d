--------------------------- MODULE NextHopGroups ----------------------------
(***************************************************************************)
(* src/ptf/sainexthopgroup.py: ECMP groups over ports, LAGs and VLAN       *)
(* interfaces, and fine grained ECMP.  A loop that sends packets that      *)
(* differ in what is hashed is one packet here, and the assertions on how  *)
(* many went where are one check.  The seeds and the MAC address of the    *)
(* switch are left out: which member a hash takes is not modelled.         *)
(***************************************************************************)
EXTENDS PtfScript

(* the status of a call, the numbers of a switch attribute *)
Equal == Check
Balanced == Check

nhg_members_count == Check

Hashes == <<"ecmp_hash_ipv4", "ecmp_hash_ipv6", "lag_hash_ipv4", "lag_hash_ipv6">>
HashIds == <<"ipv4_hash", "ipv6_hash", "lag_ipv4_hash", "lag_ipv6_hash">>

setup_hash == For(HashIds, LAMBDA h : Sure(h, Hash))
                \o Upto(4, LAMBDA i : Set("switch", Hashes[i], HashIds[i]))

release_hash == For(Hashes, LAMBDA f : Reset("switch", f))
                  \o For(Reverse(HashIds), LAMBDA h : When(h, Del(<<h>>)))

(* i-th neighbor, next hop and member, on a router interface *)
Nbors(rifs) == Upto(Len(rifs), LAMBDA i :
    New("nbor" \o ToString(i), HostNbor(rifs[i], "ip" \o ToString(i), "dmac" \o ToString(i))))
Hops(rifs) == Upto(Len(rifs), LAMBDA i :
    New("nhop" \o ToString(i), Hop(rifs[i], "ip" \o ToString(i))))

GroupOf(g, is) ==
    New(g, Group) \o For(is, LAMBDA i : New("member" \o ToString(i), Member(g, "nhop" \o ToString(i))))

Macs(is) == {"dmac" \o ToString(i) : i \in is}

(* a neighbor and its next hop, one after the other *)
NborAndHop(rif, i) ==
       New("nbor" \o ToString(i), HostNbor(rif, "ip" \o ToString(i), "dmac" \o ToString(i)))
    \o New("nhop" \o ToString(i), Hop(rif, "ip" \o ToString(i)))

-----------------------------------------------------------------------------
(* L3IPv4EcmpHostHelper, L3IPv6EcmpHostHelper and the tests over them *)
HostSetUp ==
       Nbors(<<"port11_rif", "port12_rif">>) \o Hops(<<"port11_rif", "port12_rif">>)
    \o GroupOf("nhop_group1", <<1, 2>>)
    \o Must("route0", Route("default_vrf", {"ip1", "ip2", "net"}, "nhop_group1")) \o setup_hash

(* the numbers of resources are compared with those of a moment ago *)
HostTearDown ==
       Del(<<"nbor1", "nbor2", "member1", "member2">>) \o nhg_members_count
    \o Del(<<"route0", "nhop_group1", "nhop1", "nhop2">>) \o Equal \o release_hash

HostV6SetUp == HostSetUp

HostV6TearDown ==
       Del(<<"nbor1", "nbor2", "member1", "member2", "route0">>) \o nhg_members_count
    \o Del(<<"nhop_group1", "nhop1", "nhop2">>) \o Equal \o release_hash

L3SaiNhgSetGetTest ==
    Try(   New("nhop_group_xx", Group) \o nhg_members_count \o Equal \o nhg_members_count
        \o New("nhop3", Hop("port10_rif", "ip10"))
        \o New("nh_group_member3", Member("nhop_group1", "nhop3"))
        \o Checks(2) \o nhg_members_count
        \o Del(<<"nh_group_member3", "nhop3">>) \o nhg_members_count,
           New("nhg_xx_nhop1", Hop("port10_rif", "ip10"))
        \o New("nh_group_xx_member1", Member("nhop_group_xx", "nhg_xx_nhop1")) \o nhg_members_count
        \o Del(<<"nh_group_xx_member1">>) \o nhg_members_count \o Equal
        \o Del(<<"nhg_xx_nhop1", "nhop_group_xx">>) \o Checks(7))

(* neighbors are host routes: the group of the prefix is not asked *)
ToHosts ==
       Expect([in |-> "port13", dst |-> "ip1"], Plain({"port11"}, "dmac1"))
    \o Expect([in |-> "port13", dst |-> "ip2"], Plain({"port12"}, "dmac2"))

L3IPv4EcmpHostTest == ToHosts \o ToHosts
L3IPv6EcmpHostTest == ToHosts \o ToHosts

ToNet == Expect([in |-> "port13", dst |-> "net"], AnyPacket({"port11", "port12"}, Macs(1..2)))

L3IPv4EcmpRoutingTest == For(<<1, 2, 3, 4>>, LAMBDA i : ToNet)
L3IPv6EcmpRoutingTest == For(<<1, 2, 3, 4>>, LAMBDA i : ToNet)

-----------------------------------------------------------------------------
(* L3IPv4EcmpLpmTestHelper *)
LpmRifs == <<"port11_rif", "port12_rif", "port13_rif">>

Subnet(i) == {"ip" \o ToString(i), "subnet" \o ToString(i)}

LpmSetUp ==
       New("port14_rif", PortRif("default_vrf", "port14"))
    \o New("port15_rif", PortRif("default_vrf", "port15"))
    \o Nbors(LpmRifs \o <<"port14_rif">>) \o Hops(LpmRifs)
    \o GroupOf("nhop_group1", <<1, 2, 3>>)
    \o Must("route0", Route("default_vrf", {"net", "net_"}, "nhop_group1"))
    \o Upto(3, LAMBDA i : Must("route" \o ToString(i),
                               Route("default_vrf", Subnet(i), "nhop" \o ToString(i))))
    \o setup_hash

LpmTearDown ==
       Del(Numbered("nbor", 4) \o Numbered("member", 3) \o <<"route0">> \o Numbered("route", 3)
             \o <<"nhop_group1">> \o Numbered("nhop", 3) \o <<"port14_rif", "port15_rif">>)
    \o release_hash

LpmTraffic(from, is) ==
    Expect([in |-> from, dst |-> "net"], AnyPacket({"port" \o ToString(10 + i) : i \in is}, Macs(is)))

l3IPv4EcmpLpmTest == LpmTraffic("port14", 1..3) \o Balanced

(* route3 is there already: setUp created it *)
l3Ipv4EcmpLpmAddRemoveNhopTest ==
       New("nhop4", Hop("port14_rif", "ip4")) \o New("member4", Member("nhop_group1", "nhop4"))
    \o Must("route3", Route("default_vrf", Subnet(3), "nhop4"))
    \o Try(   LpmTraffic("port15", 1..4) \o nhg_members_count \o Balanced
           \o Del(<<"member4">>) \o LpmTraffic("port15", 1..3) \o nhg_members_count \o Balanced,
           Del(<<"nhop4">>))

-----------------------------------------------------------------------------
(* L3IPv6EcmpLagTestHelper, L3IPv4EcmpLagTestHelper *)
LagRifs == <<"port11_rif", "port12_rif", "lag1_rif", "lag2_rif", "lag1_rif", "lag2_rif">>

LagGroups ==
       GroupOf("nhop_group1", <<1, 2, 3, 4>>) \o GroupOf("nhop_group2", <<5, 6>>)
    \o Must("route0", Route("default_vrf", {"net1", "net1_"}, "nhop_group1"))
    \o Must("route1", Route("default_vrf", {"net2", "net2_", "net2_2"}, "nhop_group2"))
    \o setup_hash

LagSetUp ==
       New("lag1_rif", PortRif("default_vrf", "lag1")) \o New("lag2_rif", PortRif("default_vrf", "lag2"))
    \o New("port15_rif", PortRif("default_vrf", "port15"))
    \o Nbors(LagRifs) \o Hops(LagRifs) \o LagGroups

LagRifsOff == Del(<<"lag1_rif", "lag2_rif", "port15_rif">>)

LagV6TearDown ==
       Del(Numbered("nbor", 6) \o Numbered("member", 6) \o <<"route0", "route1">>)
    \o nhg_members_count \o nhg_members_count
    \o Del(<<"nhop_group1", "nhop_group2">> \o Numbered("nhop", 6)) \o LagRifsOff \o release_hash

LagV4SetUp == LagSetUp

LagV4TearDown ==
       Del(Numbered("member", 6)) \o nhg_members_count \o nhg_members_count
    \o Del(<<"route0", "route1", "nhop_group1", "nhop_group2">> \o Numbered("nhop", 6)
             \o Numbered("nbor", 6))
    \o LagRifsOff \o release_hash

Lag1 == {"port4", "port5", "port6"}
Lag2 == {"port7", "port8", "port9"}

PortLagTraffic ==
    Expect([in |-> "port15", dst |-> "net1"],
           AnyPacket({"port11", "port12"} \cup Lag1 \cup Lag2, Macs(1..4)))
TwoLagsTraffic ==
    Expect([in |-> "port15", dst |-> "net2"], AnyPacket(Lag1 \cup Lag2, Macs({5, 6})))

(* a longer prefix, to a group of one *)
l3Ipv6EcmpLpmTest ==
    Try(   New("nbor17", HostNbor("lag2_rif", "ip7", "dmac7")) \o New("nhop7", Hop("lag2_rif", "ip7"))
        \o New("nhop_group3", Group) \o New("nh_group3_member1", Member("nhop_group3", "nhop7"))
        \o Must("route3", Route("default_vrf", {"net2", "net2_"}, "nhop_group3"))
        \o Expect([in |-> "port15", dst |-> "net2"], AnyPacket(Lag2, {"dmac7"})) \o Balanced,
        Del(<<"nbor17", "nh_group3_member1", "route3", "nhop_group3", "nhop7">>))

l3IPv6EcmpHostTwoLagsTest == TwoLagsTraffic \o Balanced

l3IPv6EcmpHostPortLagTest == Try(PortLagTraffic \o Balanced, << >>)

setupECMPIPv6Hash == IfElse("ipv6_hash", Equal, Sure("ipv6_hash", Hash))

(* all fields are hashed again *)
BalancedAgainV6 == setupECMPIPv6Hash \o PortLagTraffic \o Balanced

l3IPv6EcmpHashPortLagTest ==
    setupECMPIPv6Hash \o Try(PortLagTraffic \o Balanced \o BalancedAgainV6, << >>)

Disabled(ms)  == For(ms, LAMBDA m : Set(m, "egress_disable", TRUE) \o Equal)
Enabled(ms)   == For(ms, LAMBDA m : Reset(m, "egress_disable") \o Equal)
TwoLagsWithout(ps) ==
    Expect([in |-> "port15", dst |-> "net2"], AnyPacket((Lag1 \cup Lag2) \ ps, Macs({5, 6})))

(* that nothing went through a disabled member is asserted with the counts *)
l3IPv6EcmpHostTwoLagsDisabledLagMembersTest ==
    LET ms == <<"lag1_member4", "lag1_member5", "lag2_member7">> IN
    Disabled(ms) \o Try(TwoLagsWithout({"port4", "port5", "port7"}) \o Balanced, Enabled(ms))

NhopRemoved == Del(<<"nbor", "new_nhg1_member", "new_nhop">>) \o PortLagTraffic \o Balanced

l3Ipv6EcmpAddRemoveNhopTest ==
       New("nbor", HostNbor("port13_rif", "ip7", "dmac7")) \o New("new_nhop", Hop("port13_rif", "ip7"))
    \o New("new_nhg1_member", Member("nhop_group1", "new_nhop"))
    \o Try(   Expect([in |-> "port15", dst |-> "net1"],
                     AnyPacket({"port11", "port12", "port13"} \cup Lag1 \cup Lag2, Macs({1, 2, 3, 4, 7})))
           \o Balanced, NhopRemoved)

l3IPv6EcmpHostPortLagSharedMembersTest ==
    Try(TwoLagsTraffic \o Balanced, PortLagTraffic \o Balanced)

L3IPv4EcmpHostTwoLagsTest == TwoLagsTraffic \o Balanced

L3IPv4EcmpHostPortLagSharedMembersTest == PortLagTraffic \o TwoLagsTraffic

L3IPv4EcmpHostTwoLagsDisabledLagMembersTest ==
    LET ms == <<"lag1_member4", "lag1_member5">> IN
    Disabled(ms) \o Try(TwoLagsWithout({"port4", "port5"}) \o Balanced, Enabled(ms))

L3IPv4EcmpHostPortLagTest == Try(PortLagTraffic \o Balanced, << >>)

setupECMPIPv4Hash == IfElse("ipv4_hash", Equal, New("ipv4_hash", Hash))

BalancedAgain == setupECMPIPv4Hash \o PortLagTraffic \o Balanced

L3IPv4EcmpHashPortLagTest ==
    setupECMPIPv4Hash \o Try(PortLagTraffic \o Balanced \o BalancedAgain, << >>)

-----------------------------------------------------------------------------
(* L3IPv4SVIEcmpTestHelper, L3IPv6SVIEcmpTestHelper *)
BridgePorts(ps) == For(ps, LAMBDA p : New(p \o "_bp", BridgePort(p)))

VlanOf(vlan, first, bps) ==
       New(vlan, Vlan)
    \o Upto(Len(bps), LAMBDA i : New("vlan_member" \o ToString(first + i - 1),
                                     VlanMember(vlan, bps[i], "untagged")))

Svi1Ports == <<"port24", "port25", "port26">>

Svi1 ==
       VlanOf("vlan100", 100, <<"port24_bp", "port25_bp", "port26_bp">>)
    \o For(Svi1Ports, LAMBDA p : Set(p, "pvid", "100"))
    \o New("vlan100_rif", VlanRif("default_vrf", "vlan100"))
    \o For(<<1, 2, 3>>, LAMBDA i : NborAndHop("vlan100_rif", i))
    \o GroupOf("nhop_group1", <<1, 2, 3>>)
    \o Must("route0", Route("default_vrf", {"net1", "net1_"}, "nhop_group1"))

SviLags ==
       New("lag10", Lag) \o New("lag10_bp", BridgePort("lag10"))
    \o New("lag10_member30", LagMember("lag10", "port30"))
    \o New("lag10_member31", LagMember("lag10", "port31"))
    \o New("lag11", Lag) \o New("lag11_bp", BridgePort("lag11"))
    \o New("lag11_member28", LagMember("lag11", "port28"))
    \o New("lag11_member29", LagMember("lag11", "port29"))

Svi2(bps, pvids) ==
       VlanOf("vlan200", 200, bps) \o For(pvids, LAMBDA p : Set(p, "pvid", "200"))
    \o New("vlan200_rif", VlanRif("default_vrf", "vlan200"))

Svi2Group ==
       GroupOf("nhop_group2", <<4, 5, 6, 7>>)
    \o Must("route1", Route("default_vrf", {"net2", "net2_"}, "nhop_group2"))

Svi2Hops ==
    NborAndHop("vlan200_rif", 5) \o NborAndHop("vlan200_rif", 6) \o NborAndHop("port11_rif", 7)

SviV4SetUp ==
       BridgePorts(Svi1Ports) \o Svi1 \o NborAndHop("port10_rif", 4) \o SviLags
    \o Svi2(<<"lag10_bp", "lag11_bp">>, <<"lag10", "lag11">>)
    \o Svi2Hops \o Svi2Group \o setup_hash

(* in IPv6 the ports of the other two next hops are members of the VLAN too *)
Svi2V6 ==
       Svi2(<<"lag10_bp", "lag11_bp", "port10_bp", "port11_bp">>,
            <<"lag10", "lag11", "port10", "port11">>)
    \o NborAndHop("port10_rif", 4) \o Svi2Hops \o Svi2Group \o setup_hash

SviV6SetUp ==
    BridgePorts(Svi1Ports \o <<"port10", "port11">>) \o Svi1 \o SviLags \o Svi2V6

Svi2Off(pvids, members) ==
       Del(<<"route1", "member4", "member5", "member6", "member7">>) \o nhg_members_count
    \o Del(<<"nhop_group2", "nhop4", "nhop5", "nhop6", "nhop7", "nbor4", "nbor5", "nbor6", "nbor7">>)
    \o For(pvids, LAMBDA p : Reset(p, "pvid"))
    \o Del(<<"vlan200_rif">> \o members)
    \o Del(<<"vlan200", "lag10_member30", "lag10_member31", "lag11_member28", "lag11_member29",
             "lag10_bp", "lag11_bp", "lag10", "lag11">>)

Svi1Off ==
       Del(<<"route0", "member1", "member2", "member3", "nhop_group1", "nhop1", "nhop2", "nhop3",
             "nbor1", "nbor2", "nbor3", "vlan100_rif">>)
    \o For(Svi1Ports, LAMBDA p : Reset(p, "pvid"))
    \o Del(<<"vlan_member100", "vlan_member101", "vlan_member102", "vlan100",
             "port24_bp", "port25_bp", "port26_bp">>)

SviV4TearDown ==
       Svi2Off(<<"lag10", "lag11">>, <<"vlan_member200", "vlan_member201">>)
    \o Svi1Off \o release_hash

SviV6TearDown ==
       Svi2Off(<<"lag10", "lag11", "port10", "port11">>,
               <<"vlan_member200", "vlan_member201", "vlan_member202", "vlan_member203">>)
    \o Del(<<"port10_bp", "port11_bp">>) \o Svi1Off \o release_hash

(* where the addresses of the next hops are in a VLAN *)
FdbEntries(vlan, macs, bps) ==
    Upto(Len(macs), LAMBDA i : New("fdb_entry" \o ToString(i), Fdb(vlan, macs[i], bps[i])))

SviHost(n, vlan, macs, bps, dst, out) ==
       FdbEntries(vlan, macs, bps)
    \o Try(Expect([in |-> "port10", dst |-> dst], out) \o Balanced, Del(Numbered("fdb_entry", n)))

Svi1Host == SviHost(3, "vlan100", <<"dmac1", "dmac2", "dmac3">>, <<"port24_bp", "port25_bp", "port26_bp">>,
                    "net1", AnyPacket({"port24", "port25", "port26"}, Macs(1..3)))

l3IPv4EcmpSVIHostTest == Svi1Host
l3IPv6EcmpSVIHostTest == Svi1Host

Svi2Out == AnyPacket({"port10", "port11", "port28", "port29", "port30", "port31"}, Macs(4..7))

l3IPv4EcmpSVILagHostTest ==
    SviHost(2, "vlan200", <<"dmac5", "dmac6">>, <<"lag10_bp", "lag11_bp">>, "net2", Svi2Out)

l3IPv6EcmpSVIPortLagHostTest ==
    SviHost(2, "vlan200", <<"dmac5", "dmac6">>, <<"lag11_bp", "lag10_bp">>, "net2", Svi2Out)

-----------------------------------------------------------------------------
(* EcmpFGTestHelper and the tests over it *)
FGSetUp ==
       New("port14_rif", PortRif("default_vrf", "port14")) \o Nbors(LpmRifs) \o Hops(LpmRifs)
    \o GroupOf("nhop_group1", <<1, 2, 3>>)
    \o Must("route0", Route("default_vrf", {"net", "net_"}, "nhop_group1"))

FGTearDown ==
    Del(Numbered("member", 3) \o <<"route0", "nhop_group1">> \o Numbered("nhop", 3)
          \o Numbered("nbor", 3) \o <<"port14_rif">>)

packetTest(is) == Try(LpmTraffic("port14", is), << >>)

ecmpFGBasicTest == Checks(2) \o Try(packetTest(1..3) \o Balanced, << >>)

ecmpFGAddDelMemTest ==
    Try(   packetTest(1..3) \o Del(<<"member2">>) \o packetTest({1, 3}) \o Balanced
        \o New("member2", Member("nhop_group1", "nhop2")) \o packetTest(1..3), << >>)

(* the attribute of a member, on the handle of the group *)
ecmpFGGrpMemAttrTest ==
    Try(   Set("nhop_group1", "nh", "nhop2") \o Checks(3) \o packetTest(1..3)
        \o Set("nhop_group1", "nh", "nhop1") \o Checks(3) \o packetTest(1..3), << >>)

-----------------------------------------------------------------------------
Suite ==
    [nhg_set_get         |-> Case(HostSetUp, L3SaiNhgSetGetTest, HostTearDown),
     nhg_host            |-> Case(HostSetUp, L3IPv4EcmpHostTest, HostTearDown),
     nhg_routing         |-> Case(HostSetUp, L3IPv4EcmpRoutingTest, HostTearDown),
     nhg_host_v6         |-> Case(HostV6SetUp, L3IPv6EcmpHostTest, HostV6TearDown),
     nhg_routing_v6      |-> Case(HostV6SetUp, L3IPv6EcmpRoutingTest, HostV6TearDown),
     nhg_lpm             |-> Case(LpmSetUp, l3IPv4EcmpLpmTest, LpmTearDown),
     nhg_lpm_add_remove  |-> Case(LpmSetUp, l3Ipv4EcmpLpmAddRemoveNhopTest, LpmTearDown),
     nhg_lpm_v6          |-> Case(LagSetUp, l3Ipv6EcmpLpmTest, LagV6TearDown),
     nhg_lags_v6         |-> Case(LagSetUp, l3IPv6EcmpHostTwoLagsTest, LagV6TearDown),
     nhg_port_lag_v6     |-> Case(LagSetUp, l3IPv6EcmpHostPortLagTest, LagV6TearDown),
     nhg_hash_v6         |-> Case(LagSetUp, l3IPv6EcmpHashPortLagTest, LagV6TearDown),
     nhg_disabled_v6     |-> Case(LagSetUp, l3IPv6EcmpHostTwoLagsDisabledLagMembersTest, LagV6TearDown),
     nhg_add_remove_v6   |-> Case(LagSetUp, l3Ipv6EcmpAddRemoveNhopTest, LagV6TearDown),
     nhg_shared_v6       |-> Case(LagSetUp, l3IPv6EcmpHostPortLagSharedMembersTest, LagV6TearDown),
     nhg_lags            |-> Case(LagV4SetUp, L3IPv4EcmpHostTwoLagsTest, LagV4TearDown),
     nhg_shared          |-> Case(LagV4SetUp, L3IPv4EcmpHostPortLagSharedMembersTest, LagV4TearDown),
     nhg_disabled        |-> Case(LagV4SetUp, L3IPv4EcmpHostTwoLagsDisabledLagMembersTest, LagV4TearDown),
     nhg_port_lag        |-> Case(LagV4SetUp, L3IPv4EcmpHostPortLagTest, LagV4TearDown),
     nhg_hash            |-> Case(LagV4SetUp, L3IPv4EcmpHashPortLagTest, LagV4TearDown),
     nhg_svi             |-> Case(SviV4SetUp, l3IPv4EcmpSVIHostTest, SviV4TearDown),
     nhg_svi_lag         |-> Case(SviV4SetUp, l3IPv4EcmpSVILagHostTest, SviV4TearDown),
     nhg_svi_v6          |-> Case(SviV6SetUp, l3IPv6EcmpSVIHostTest, SviV6TearDown),
     nhg_svi_port_lag_v6 |-> Case(SviV6SetUp, l3IPv6EcmpSVIPortLagHostTest, SviV6TearDown),
     nhg_fg              |-> Case(FGSetUp, ecmpFGBasicTest, FGTearDown),
     nhg_fg_add_del      |-> Case(FGSetUp, ecmpFGAddDelMemTest, FGTearDown),
     nhg_fg_attr         |-> Case(FGSetUp, ecmpFGGrpMemAttrTest, FGTearDown)]

=============================================================================
