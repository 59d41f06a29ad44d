------------------------------ MODULE VrfTests -----------------------------
(***************************************************************************)
(* src/ptf/saivrf.py: virtual routers, their state, routes that lead from  *)
(* one to another, overlapping addresses, and ACLs that redirect.          *)
(***************************************************************************)
EXTENDS PtfScript

From(port, ip, out) == Expect([in |-> port, dst |-> ip], out)

Net(ip) == {ip, ip \o "_2"}

(* the LAG of a VLAN gets its copy through any of its ports *)
ToEach(ps, lag, mac) == UNION {Copies(ps \cup {p}, mac) : p \in lag}

-----------------------------------------------------------------------------
(* VrfForwardingTest: one end of the virtual router, for both families *)
End(e, port) ==
    LET p == e \o "port_" r == "test_" \o e \o "rif" mac == e \o "mac"
    IN     Sure(r, PortRif("test_vrf", port))
        \o New(p \o "nhop", Hop(r, e \o "_v4")) \o New(p \o "nhop_v6", Hop(r, e \o "_v6"))
        \o New(p \o "nbor", HostNbor(r, e \o "_v4", mac))
        \o New(p \o "nbor_v6", HostNbor(r, e \o "_v6", mac))
        \o New(p \o "route", Route("test_vrf", Net(e \o "_v4"), p \o "nhop"))
        \o New(p \o "route_v6", Route("test_vrf", Net(e \o "_v6"), p \o "nhop_v6"))

FwdSetUp == Sure("test_vrf", Vrf) \o End("i", "port24") \o End("e", "port25")

Both(k) == <<"iport_" \o k, "iport_" \o k \o "_v6", "eport_" \o k, "eport_" \o k \o "_v6">>

(* MUTANT of FwdTearDown: the virtual router goes before its interfaces *)
FwdTearDown_VrfFirst ==
    Del(Both("route") \o Both("nbor") \o Both("nhop") \o <<"test_vrf", "test_erif", "test_irif">>)

FwdTearDown ==
    Del(Both("route") \o Both("nbor") \o Both("nhop") \o <<"test_erif", "test_irif", "test_vrf">>)

vrfStateTest ==
    LET Off(f) == Set("test_vrf", f, TRUE) \o Check
        On(f)  == Reset("test_vrf", f) \o Check
        Sent(ip, f, out) == Expect([in |-> "port24", dst |-> ip, off |-> f], out)
        Over4  == Sent("e_v4_2", "v4_off", Plain({"port25"}, "emac"))
        Over6  == Sent("e_v6_2", "v6_off", Plain({"port25"}, "emac"))
        No4    == Sent("e_v4_2", "v4_off", Nothing)
        No6    == Sent("e_v6_2", "v6_off", Nothing)
    IN Try(   Off("v4_off") \o Off("v6_off") \o No4 \o No6
           \o On("v4_off") \o Over4 \o No6
           \o Off("v4_off") \o On("v6_off") \o No4 \o Over6
           \o On("v4_off") \o Over4 \o Over6,
           Flush \o Reset("test_vrf", "v4_off") \o Reset("test_vrf", "v6_off"))

(* MUTANT of Across: the objects are removed at the end of the try block *)
Across_CleansInBody(r, out) ==
    Try(   New("test_nbor", HostNbor(r, "test_ip", "test_mac")) \o New("test_nhop", Hop(r, "test_ip"))
        \o New("test_route", Route("test_vrf", Net("test_ip"), "test_nhop"))
        \o New("test_route2", Route("default_vrf", Net("test_ip"), "test_nhop"))
        \o From("port24", "test_ip_2", out)
        \o Del(<<"test_route", "test_route2", "test_nhop", "test_nbor">>),
        Flush)

(* routes of both virtual routers to one next hop on an interface r of the default one *)
Across(r, out) ==
    Try(   New("test_nbor", HostNbor(r, "test_ip", "test_mac")) \o New("test_nhop", Hop(r, "test_ip"))
        \o New("test_route", Route("test_vrf", Net("test_ip"), "test_nhop"))
        \o New("test_route2", Route("default_vrf", Net("test_ip"), "test_nhop"))
        \o From("port24", "test_ip_2", out),
        Flush \o Del(<<"test_route", "test_route2", "test_nhop", "test_nbor">>))

interVrfFwdL3NhopTest    == Across("port10_rif", Plain({"port10"}, "test_mac"))
interVrfFwdL3LagNhopTest == Across("lag3_rif", Plain({"port14", "port15", "port16"}, "test_mac"))
interVrfFwdSviNhopTest   ==
    Across("vlan30_rif", ToEach({"port20", "port21"}, {"port22", "port23"}, "test_mac"))

(* a sub port of the default virtual router, a neighbor and a next hop on it *)
SubPort(k, port, vid) ==
       New("subport" \o k, SubRif("default_vrf", port, vid))
    \o New("test_nbor" \o k, HostNbor("subport" \o k, "test_ip" \o k, "test_mac" \o k))
    \o New("test_nhop" \o k, Hop("subport" \o k, "test_ip" \o k))

SubPortsOff == Del(<<"test_nbor1", "test_nbor2", "test_nhop1", "test_nhop2", "subport1", "subport2">>)

interVrfFwdSubportNhopTest ==
    LET Reached(k, vid) ==
               SubPort(k, "port26", vid)
            \o New("test_route" \o k \o "1", Route("test_vrf", Net("test_ip" \o k), "test_nhop" \o k))
            \o New("test_route" \o k \o "2", Route("default_vrf", Net("test_ip" \o k), "test_nhop" \o k))
    IN Try(   Reached("1", "100") \o Reached("2", "200")
           \o From("port24", "test_ip1_2", Plain({"port26"}, "test_mac1"))
           \o From("port24", "test_ip2_2", Plain({"port26"}, "test_mac2")),
              Flush
           \o Del(<<"test_route11", "test_route12", "test_route21", "test_route22">>) \o SubPortsOff)

(* three next hops in a group *)
Three(F(_)) == Upto(3, LAMBDA i : F(ToString(i)))

EcmpGroup ==
    LET port == [k \in {"1", "2", "3"} |->
                    CASE k = "1" -> "port10_rif" [] k = "2" -> "port11_rif" [] OTHER -> "port12_rif"]
    IN     Three(LAMBDA k : New("test_nbor" \o k, HostNbor(port[k], "test_ip" \o k, "test_mac" \o k)))
        \o Three(LAMBDA k : New("test_nhop" \o k, Hop(port[k], "test_ip" \o k)))
        \o New("test_nhop_group", Group)
        \o Three(LAMBDA k : New("nhop_group_mmbr" \o k, Member("test_nhop_group", "test_nhop" \o k)))

EcmpGroupOff ==
       Three(LAMBDA k : Del(<<"nhop_group_mmbr" \o k>>)) \o Del(<<"test_nhop_group">>)
    \o Three(LAMBDA k : Del(<<"test_nhop" \o k>>)) \o Three(LAMBDA k : Del(<<"test_nbor" \o k>>))

(* the test counts how often each port was chosen *)
Balanced == Check

EcmpPorts == {"port10", "port11", "port12"}

interVrfFwdEcmpNhopTest ==
    Try(   EcmpGroup \o New("test_ecmp_route", Route("test_vrf", Net("test_ip"), "test_nhop_group"))
        \o From("port24", "test_ip_2", AnyPacket(EcmpPorts, {"test_mac1", "test_mac2", "test_mac3"}))
        \o Balanced,
        Del(<<"test_ecmp_route">>) \o EcmpGroupOff)

-----------------------------------------------------------------------------
(* VrfIsolationTest: two virtual routers, the same addresses behind both *)
IsoSetUp ==
       Sure("test_vrf", Vrf)
    \o Sure("def_irif", PortRif("default_vrf", "port24"))
    \o Sure("def_erif", PortRif("default_vrf", "port25"))
    \o Sure("test_irif", PortRif("test_vrf", "port26"))
    \o Sure("test_erif", PortRif("test_vrf", "port27"))

(* MUTANT of IsoTearDown: one interface is forgotten, and with it the virtual router *)
IsoTearDown_Forgets == Del(<<"def_irif", "def_erif", "test_erif", "test_vrf">>)

IsoTearDown == Del(<<"def_irif", "def_erif", "test_irif", "test_erif", "test_vrf">>)

Apart(ip) == From("port24", ip, Plain({"port25"}, "def_eport_mac"))
               \o From("port26", ip, Plain({"port27"}, "test_eport_mac"))

Side(s, vrf, ip) ==
       New(s \o "_eport_nhop", Hop(s \o "_erif", ip))
    \o New(s \o "_eport_nbor", HostNbor(s \o "_erif", ip, s \o "_eport_mac"))
    \o New(s \o "_eport_route", Route(vrf, Net(ip), s \o "_eport_nhop"))

overlappingIPv4LpmTest ==
    Try(Side("def", "default_vrf", "eport_ip") \o Side("test", "test_vrf", "eport_ip")
          \o Apart("eport_ip_2"),
        Del(<<"test_eport_route", "test_eport_nbor", "test_eport_nhop",
              "def_eport_route", "def_eport_nbor", "def_eport_nhop">>))

overlappingIPv4HostTest ==
    Try(   New("def_eport_nbor", HostNbor("def_erif", "eport_ip", "def_eport_mac"))
        \o New("test_eport_nbor", HostNbor("test_erif", "eport_ip", "test_eport_mac"))
        \o Apart("eport_ip"),
        Del(<<"test_eport_nbor", "def_eport_nbor">>))

overlappingIPv6LpmTest  == overlappingIPv4LpmTest
overlappingIPv6HostTest == overlappingIPv4HostTest

-----------------------------------------------------------------------------
(* VrfMultipleRifCreationTest: router interfaces of every type, in three of them *)
Types == <<"port", "lag", "sub_port", "lpb", "svi">>

FirstRifs(i, vid, port, lag) ==
    LET v == "vrf" \o i
    IN     Sure("port_rif" \o i, PortRif(v, port)) \o Sure("lag_rif" \o i, PortRif(v, lag))
        \o Sure("sub_port_rif" \o i, SubRif(v, "port10", vid)) \o Sure("lpb_rif" \o i, LoopRif(v))

(* a next hop on the interface of type t, and a route to it *)
Routed(t, i) ==
       Sure(t \o "_nhop" \o i, Hop(t \o "_rif" \o i, t \o i))
    \o Must(t \o "_route" \o i, Route("vrf" \o i, Net(t \o i), t \o "_nhop" \o i))

Vrf1 ==    Sure("vrf1", Vrf) \o FirstRifs("1", "100", "port24", "lag1")
        \o Sure("svi_rif1", VlanRif("vrf1", "vlan10"))
        \o For(Types, LAMBDA t :
              IF t = "lpb" THEN Routed(t, "1")
              ELSE New(t \o "_nbor1", HostNbor(t \o "_rif1", t \o "1", t \o "_mac1")) \o Routed(t, "1"))

Vrf2 ==    Sure("vrf2", Vrf) \o FirstRifs("2", "200", "port25", "lag2")
        \o Sure("svi_rif2", VlanRif("vrf2", "vlan20"))
        \o For(Types, LAMBDA t : Routed(t, "2"))

Lag10 ==   Sure("lag10", Lag) \o Sure("lag10_member1", LagMember("lag10", "port27"))
        \o Sure("lag10_member2", LagMember("lag10", "port28")) \o Sure("lag10_bp", BridgePort("lag10"))

Vlan100 ==
       Sure("vlan100", Vlan) \o Sure("port29_bp", BridgePort("port29"))
    \o Sure("vlan100_member0", VlanMember("vlan100", "port29_bp", "untagged"))
    \o Set("port29", "pvid", "100") \o Sure("port30_bp", BridgePort("port30"))
    \o Sure("vlan100_member1", VlanMember("vlan100", "port30_bp", "tagged"))

Rifs3 ==   Sure("port_rif3", PortRif("vrf3", "port26")) \o Lag10
        \o Sure("lag_rif3", PortRif("vrf3", "lag10")) \o Sure("sub_port_rif3", SubRif("vrf3", "port10", "300"))
        \o Sure("lpb_rif3", LoopRif("vrf3")) \o Vlan100 \o Sure("svi_rif3", VlanRif("vrf3", "vlan100"))

Vrf3 == Sure("vrf3", Vrf) \o Rifs3 \o For(Types, LAMBDA t : Routed(t, "3"))

MultipleSetUp == Vrf1 \o Vrf2 \o Vrf3

Listed(k) ==
    SelectSeq(For(<<"1", "2", "3">>, LAMBDA i : [j \in DOMAIN Types |-> Types[j] \o k \o i]),
              LAMBDA n : k # "_nbor" \/ n \in {"port_nbor1", "lag_nbor1", "sub_port_nbor1", "svi_nbor1"})

MultipleTearDown ==
       Del(Listed("_route") \o Listed("_nhop") \o Listed("_nbor") \o Listed("_rif"))
    \o Del(<<"vlan100_member1", "port30_bp">>) \o Reset("port29", "pvid")
    \o Del(<<"vlan100_member0", "port29_bp", "vlan100",
             "lag10_bp", "lag10_member1", "lag10_member2", "lag10", "vrf3", "vrf2", "vrf1">>)

vrfInterfacesTest ==
    Try(   From("port24", "lag1_2", Plain({"port4", "port5", "port6"}, "lag_mac1"))
        \o From("port24", "sub_port1_2", Plain({"port10"}, "sub_port_mac1"))
        \o From("port24", "svi1_2", ToEach({"port0", "port1"}, {"port4", "port5", "port6"}, "svi_mac1")),
        Flush)

-----------------------------------------------------------------------------
(* VrfAclRedirectTest: the ACL of an interface sends what it matches elsewhere *)
AclSetUp ==
       Sure("test_vrf", Vrf) \o Sure("test_irif", PortRif("test_vrf", "port24"))
    \o New("iport_nhop", Hop("test_irif", "i_v4")) \o New("iport_nhop_v6", Hop("test_irif", "i_v6"))

AclTearDown == Del(<<"iport_nhop", "iport_nhop_v6", "test_irif", "test_vrf">>)

Redirect(nh) ==
       New("acl_table", AclTable) \o New("acl_entry", AclEntry("acl_table", Net("test_ip"), nh))
    \o Set("test_irif", "acl", "acl_table")

AclOff == Reset("test_irif", "acl") \o Del(<<"acl_entry", "acl_table">>)

(* the packet leaves as it came *)
Unchanged(ps) == Plain(ps, NULL)

RedirectTo(r, out) ==
    Try(   New("test_nbor", HostNbor(r, "test_ip", "test_mac")) \o New("test_nhop", Hop(r, "test_ip"))
        \o Redirect("test_nhop") \o From("port24", "test_ip_2", out),
        AclOff \o Del(<<"test_nhop", "test_nbor">>))

aclFwdL3NhopTest    == RedirectTo("port10_rif", Unchanged({"port10"}))
aclFwdL3LagNhopTest == RedirectTo("lag3_rif", Unchanged({"port14", "port15", "port16"}))

(* the LAG of vlan30 has the ports 22 and 23; the test names 21 and 22 *)
aclFwdSviNhopTest   ==
    RedirectTo("vlan30_rif", ToEach({"port20", "port21"}, {"port21", "port22"}, NULL))

aclFwdSubportNhopTest ==
    LET Entry(k) == New("acl_entry" \o k, AclEntry("acl_table", Net("test_ip" \o k), "test_nhop" \o k))
    IN Try(   SubPort("1", "port10", "100") \o SubPort("2", "port10", "200")
           \o New("acl_table", AclTable) \o Entry("1") \o Entry("2")
           \o Set("test_irif", "acl", "acl_table")
           \o From("port24", "test_ip1_2", Unchanged({"port10"}))
           \o From("port24", "test_ip2_2", Unchanged({"port10"})),
              Reset("test_irif", "acl") \o Del(<<"acl_entry1", "acl_entry2", "acl_table",
                "test_nhop1", "test_nhop2", "test_nbor1", "test_nbor2", "subport1", "subport2">>))

AclEcmpOff == AclOff \o EcmpGroupOff

aclFwdEcmpNhopTest ==
    Try(EcmpGroup \o Redirect("test_nhop_group")
          \o From("port24", "test_ip_2", Unchanged(EcmpPorts)) \o Balanced,
        AclEcmpOff)

-----------------------------------------------------------------------------
(***************************************************************************)
(* VrfScaleTest, with max_virtual_routers = 4.  The lists of routes grow   *)
(* as each is created: a virtual router without its last route makes the   *)
(* finally block index past the end of a list.  The last assertion calls a *)
(* method that does not exist.                                             *)
(***************************************************************************)
ScaleRoutes(k) ==
    LET Added(r, ip, nh) == Sure(r \o k, Route("vrf" \o k, ip, nh))
    IN     Sure("vrf" \o k, Vrf)
        \o Added("lpm_route_v4_", {"ip", "ip_2"}, "nexthop_v4") \o Added("host_route_v4_", {"ip"}, "nexthop_v4")
        \o Added("lpm_route_v6_", {"ipv6", "ipv6_2"}, "nexthop_v6") \o Added("host_route_v6_", {"ipv6"}, "nexthop_v6")

ScaleOff(k) ==
    When("vrf" \o k,
         IfElse("host_route_v6_" \o k,
                Del(<<"host_route_v6_" \o k, "lpm_route_v6_" \o k, "host_route_v4_" \o k,
                      "lpm_route_v4_" \o k, "vrf" \o k>>),
                Raise))

VrfScaleTest ==
    Try(   New("nexthop_v4", Hop("port10_rif", "ip")) \o New("nexthop_v6", Hop("port10_rif", "ipv6"))
        \o Upto(2, LAMBDA i : ScaleRoutes(ToString(i)))
        \o Either(New("vrf", Vrf), << >>) \o Raise,
        Upto(2, LAMBDA i : ScaleOff(ToString(i))) \o Del(<<"nexthop_v4", "nexthop_v6">>))

-----------------------------------------------------------------------------
(* VrfSMACTest: the source address of routed packets is not modelled *)
configureRifs ==
       New("test_irif", PortRif("test_vrf", "port24")) \o New("iport_nhop", Hop("test_irif", "i_v4"))
    \o New("iport_nbor", HostNbor("test_irif", "i_v4", "imac"))
    \o New("iport_route", Route("test_vrf", Net("i_v4"), "iport_nhop"))
    \o New("test_erif", PortRif("test_vrf", "port25")) \o New("eport_nhop", Hop("test_erif", "e_v4"))
    \o New("eport_nbor", HostNbor("test_erif", "e_v4", "emac"))
    \o New("eport_route", Route("test_vrf", Net("e_v4"), "eport_nhop"))

removeRifs == Del(<<"eport_route", "eport_nbor", "eport_nhop", "test_erif",
                    "iport_route", "iport_nbor", "iport_nhop", "test_irif">>)

runTraffic == Try(From("port24", "e_v4_2", Plain({"port25"}, "emac")), Except(removeRifs) \o Flush)

testSMACCreateSet ==
       New("test_vrf", Vrf @@ [smac |-> "vrf_mac_create"]) \o Check
    \o configureRifs \o runTraffic
    \o Set("test_vrf", "smac", "vrf_mac_set") \o Check \o Check \o runTraffic
    \o removeRifs \o configureRifs \o runTraffic \o removeRifs \o Del(<<"test_vrf">>)

testSMACSet ==
       New("test_vrf", Vrf) \o Check
    \o configureRifs \o runTraffic
    \o Set("test_vrf", "smac", "vrf_mac_set") \o Check \o Check \o runTraffic
    \o removeRifs \o configureRifs \o runTraffic \o removeRifs \o Del(<<"test_vrf">>)

-----------------------------------------------------------------------------
(* the methods a runTest calls, one after the other *)
Calls(self, ms) == For(ms, LAMBDA m : Method(self, m))

Forwarding == << vrfStateTest, interVrfFwdL3NhopTest, interVrfFwdL3LagNhopTest,
                 interVrfFwdSviNhopTest, interVrfFwdSubportNhopTest, interVrfFwdEcmpNhopTest >>
Isolation  == << overlappingIPv4LpmTest, overlappingIPv4HostTest,
                 overlappingIPv6LpmTest, overlappingIPv6HostTest >>
Redirects  == << aclFwdL3NhopTest, aclFwdL3LagNhopTest, aclFwdSviNhopTest,
                 aclFwdSubportNhopTest, aclFwdEcmpNhopTest >>

(* the attributes of VrfSMACTest outlive its methods *)
Suite == [vrf_forwarding |-> Case(FwdSetUp, Calls(Assigned(FwdSetUp), Forwarding), FwdTearDown),
          vrf_isolation  |-> Case(IsoSetUp, Calls(Assigned(IsoSetUp), Isolation), IsoTearDown),
          vrf_multiple   |-> Case(MultipleSetUp, vrfInterfacesTest, MultipleTearDown),
          vrf_acl        |-> Case(AclSetUp, Calls(Assigned(AclSetUp), Redirects), AclTearDown),
          vrf_scale      |-> VrfScaleTest,
          vrf_smac       |-> testSMACCreateSet \o testSMACSet]

=============================================================================
