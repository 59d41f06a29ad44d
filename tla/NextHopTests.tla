---------------------------- MODULE NextHopTests ---------------------------
(***************************************************************************)
(* src/ptf/sainexthop.py: next hops that are removed while routes use      *)
(* them, next hops to the CPU, and next hops of tunnels by interface, VNI  *)
(* and virtual router.                                                     *)
(***************************************************************************)
EXTENDS PtfScript

H == INSTANCE PtfHelper

Counted == Check

(* L3NexthopTestHelper; it too removes SaiHelper's interfaces, twice *)
L3SetUp == H!create_routing_interfaces(<< >>, << >>, <<"port0", "port1">>)

Rifs == H!Created("rif") \o <<"port0_rif", "port1_rif">>

L3TearDown == H!destroy_routing_interfaces(Rifs) \o H!TearDownWith(Rifs)

(* a next hop that three routes point to is removed *)
removeNexthopTest ==
       New("nbor", HostNbor("port0_rif", "nh_ip", "dmac"))
    \o New("nhop", Hop("port0_rif", "nh_ip"))
    \o Upto(3, LAMBDA i : New("route" \o ToString(i),
                              Route("default_vrf", {"ip" \o ToString(i)}, "nhop")))
    \o Try(   Expect([in |-> "port1", dst |-> "ip1"], Plain({"port0"}, "dmac"))
           \o Del(<<"nhop">>) \o Counted,
           Del(<<"route3", "route2", "route1", "nhop", "nbor">>))

(* the CPU port is no object of the store *)
cpuNexthopTest ==
       New("trap_group", TrapGroup) \o New("trap", Trap("trap_group"))
    \o New("host_ipv4", DropRoute("default_vrf", {"ip1"}))
    \o New("lpm_ipv4", DropRoute("default_vrf", {"ip2", "ip2_2"}))
    \o New("host_ipv6", DropRoute("default_vrf", {"ipv61"}))
    \o New("lpm_ipv6", DropRoute("default_vrf", {"ipv62", "ipv62_2"}))
    \o Try(Counted, Del(<<"host_ipv6", "lpm_ipv6", "host_ipv4", "lpm_ipv4", "trap", "trap_group">>))

-----------------------------------------------------------------------------
(* NhopTunnelEncapDecapTestHelper *)
Host(ip) == {ip}

TunnelSetUp ==
       New("uvrf", Vrf) \o New("ovrf", Vrf)
    \o New("urif_lb", LoopRif("uvrf")) \o New("orif_lb", LoopRif("ovrf"))
    \o New("urif", PortRif("uvrf", "port25"))
    \o New("uneighbor", HostNbor("urif", "tunnel_ip", "umac"))
    \o New("unhop", Hop("urif", "tunnel_ip"))
    \o New("tunnel_entry1", Route("uvrf", Host("tunnel_ip"), "unhop"))
    \o New("tunnel", IpTunnel("urif_lb", "orif_lb") @@ [ettl |-> "PIPE", dttl |-> "PIPE"])
    \o New("tunnel_term", TermP2P("uvrf", "tunnel", "my_lb_ip", "tunnel_ip"))
    \o New("tunnel_nexthop", TunHop("tunnel", "tunnel_ip", "inner_dmac", NULL))
    \o New("customer_route1", Route("ovrf", Host("vm_ip4"), "tunnel_nexthop"))
    \o New("customer_route2", Route("ovrf", Host("vm_ip6"), "tunnel_nexthop"))

TunnelTearDown ==
    Del(<<"customer_route2", "customer_route1", "tunnel_nexthop", "tunnel_term", "tunnel",
          "tunnel_entry1", "unhop", "uneighbor", "urif", "orif_lb", "urif_lb", "ovrf", "uvrf">>)

(* the customer behind the interface r of the overlay *)
Customer(r) ==
       New("oneighbor", HostNbor(r, "customer_ip4", "cmac")) \o New("onhop", Hop(r, "customer_ip4"))
    \o New("customer_route3", Route("ovrf", Host("customer_ip4"), "onhop"))

CustomerOff(r) == Del(<<"customer_route3", "onhop", "oneighbor", r>>)

EncapDecap(p) ==
       Expect(p, Marked(InTunnel({"port25"}, "umac", <<"tunnel_ip", "inner_dmac", NULL>>),
                        <<"default", NULL, NULL>>))
    \o Expect([in |-> "port25", outer |-> "my_lb_ip", from |-> "tunnel_ip", dst |-> "customer_ip4"],
              Marked(Plain({"port24"}, "cmac"), <<"inner", NULL, NULL>>))

l3InterfaceTunnelTest ==
    Try(   New("orif", PortRif("ovrf", "port24")) \o Customer("orif")
        \o EncapDecap([in |-> "port24", dst |-> "vm_ip4"]),
        CustomerOff("orif"))

subPortTunnelTest ==
    Try(   New("osubport", SubRif("ovrf", "port24", "500")) \o Customer("osubport")
        \o EncapDecap([in |-> "port24", vid |-> "500", dst |-> "vm_ip4"]),
        CustomerOff("osubport"))

sviTunnelTest ==
    Try(   New("port24_bp", BridgePort("port24")) \o New("port26_bp", BridgePort("port26"))
        \o New("vlan100", Vlan)
        \o New("vlan_member100", VlanMember("vlan100", "port24_bp", "untagged"))
        \o New("vlan_member101", VlanMember("vlan100", "port26_bp", "untagged"))
        \o Set("port24", "pvid", "100") \o Set("port26", "pvid", "100")
        \o New("osvi", VlanRif("ovrf", "vlan100")) \o Customer("osvi")
        \o New("test_fdb", Fdb("vlan100", "cmac", "port24_bp"))
        \o EncapDecap([in |-> "port24", dst |-> "vm_ip4"]),
           Del(<<"test_fdb">>) \o CustomerOff("osvi")
        \o Reset("port24", "pvid") \o Reset("port26", "pvid")
        \o Del(<<"vlan_member100", "vlan_member101", "vlan100", "port24_bp", "port26_bp">>))

-----------------------------------------------------------------------------
(* NhopTunnelVNITestHelper: a VXLAN tunnel and its mappers *)
VxlanTunnel(r) ==
    Tunnel(r, {"encap_tunnel_map"}, {"decap_tunnel_map"}) @@ [ettl |-> "PIPE", dttl |-> "PIPE"]

VniSetUp ==
       New("uvrf", Vrf) \o New("ovrf", Vrf)
    \o New("urif_lb", LoopRif("uvrf")) \o New("orif", PortRif("ovrf", "port24"))
    \o New("encap_tunnel_map", TunnelMap) \o New("decap_tunnel_map", TunnelMap)
    \o New("encap_tunnel_map_entry", EncapEntry("encap_tunnel_map", "ovrf", "vni"))
    \o New("decap_tunnel_map_entry", DecapEntry("decap_tunnel_map", "ovrf", "vni"))
    \o New("tunnel", VxlanTunnel("urif_lb"))

VniTearDown ==
    Del(<<"tunnel", "decap_tunnel_map_entry", "encap_tunnel_map_entry", "decap_tunnel_map",
          "encap_tunnel_map", "orif", "urif_lb", "ovrf", "uvrf">>)

(* the i-th interface of the underlay, and the way to the peer ip over it *)
Way(i, v, p, ip, mac) ==
    LET k == ToString(i)
    IN     New("urif" \o k, PortRif(v, p)) \o New("uneighbor" \o k, HostNbor("urif" \o k, ip, mac))
        \o New("unhop" \o k, Hop("urif" \o k, ip))
        \o New("tunnel_route" \o k, Route(v, Host(ip), "unhop" \o k))

WaysOff == Del(<<"tunnel_route2", "tunnel_route1", "unhop2", "unhop1", "uneighbor2", "uneighbor1",
                 "urif2", "urif1">>)

Present(ns) == For(ns, LAMBDA n : When(n, Del(<<n>>)))

Into(in, dst, p, mac, hdr) ==
    Expect([in |-> in, dst |-> dst], Marked(InTunnel({p}, mac, hdr), <<"default", NULL, NULL>>))

NewVni ==
       Set("tunnel_nexthop3", "vni", "vni4")
    \o Into("port24", "service_vm_ip", "port26", "umac2", <<"service_ip", "inner_dmac4", "vni4">>)

tunnelVniTest ==
    Try(   Way(1, "uvrf", "port25", "tunnel_ip", "umac") \o Way(2, "uvrf", "port26", "service_ip", "umac2")
        \o New("tunnel_nexthop1", TunHop("tunnel", "tunnel_ip", "inner_dmac", "vni"))
        \o Sure("tunnel_nexthop2", TunHop("tunnel", "tunnel_ip", "inner_dmac", "vni2"))
        \o New("tunnel_nexthop3", TunHop("tunnel", "service_ip", "inner_dmac3", "vni3"))
        \o New("customer_route1", Route("ovrf", Host("vm_ip"), "tunnel_nexthop1"))
        \o New("customer_route2", Route("ovrf", Host("vm_ip2"), "tunnel_nexthop2"))
        \o New("customer_route3", Route("ovrf", Host("service_vm_ip"), "tunnel_nexthop3"))
        \o Into("port24", "vm_ip", "port25", "umac", <<"tunnel_ip", "inner_dmac", "vni">>)
        \o Into("port24", "vm_ip2", "port25", "umac", <<"tunnel_ip", "inner_dmac", "vni2">>)
        \o Set("tunnel_nexthop3", "imac", "inner_dmac4")
        \o Into("port24", "service_vm_ip", "port26", "umac2", <<"service_ip", "inner_dmac4", "vni3">>)
        \o NewVni,
           Present(<<"customer_route3", "customer_route2", "customer_route1",
                     "tunnel_nexthop3", "tunnel_nexthop2", "tunnel_nexthop1">>)
        \o WaysOff)

tunnelVrfTest ==
       New("uvrf2", Vrf) \o New("ovrf2", Vrf)
    \o New("urif_lb2", LoopRif("uvrf2")) \o New("orif2", PortRif("ovrf2", "port27"))
    \o New("tunnel2", VxlanTunnel("urif_lb2"))
    \o Try(   Way(1, "uvrf", "port25", "tunnel_ip", "umac") \o Way(2, "uvrf2", "port26", "tunnel_ip", "umac")
           \o New("tunnel_nexthop1", TunHop("tunnel", "tunnel_ip", "inner_dmac", "vni"))
           \o Sure("tunnel_nexthop2", TunHop("tunnel2", "tunnel_ip", "inner_dmac", "vni"))
           \o New("customer_route1", Route("ovrf", Host("vm_ip"), "tunnel_nexthop1"))
           \o New("customer_route2", Route("ovrf2", Host("vm_ip"), "tunnel_nexthop2"))
           \o Into("port24", "vm_ip", "port25", "umac", <<"tunnel_ip", "inner_dmac", "vni">>)
           \o Into("port27", "vm_ip", "port26", "umac", <<"tunnel_ip", "inner_dmac", "vni">>),
              Present(<<"customer_route2", "customer_route1", "tunnel_nexthop2", "tunnel_nexthop1">>)
           \o WaysOff \o Del(<<"tunnel2", "orif2", "urif_lb2", "ovrf2", "uvrf2">>))

-----------------------------------------------------------------------------
Over(body)  == Case(TunnelSetUp, body, TunnelTearDown)
Vxlan(body) == Case(VniSetUp, body, VniTearDown)

Suite == [nexthop_remove  |-> Case(L3SetUp, removeNexthopTest, L3TearDown),
          nexthop_cpu     |-> Case(L3SetUp, cpuNexthopTest, L3TearDown),
          nexthop_l3      |-> Over(l3InterfaceTunnelTest),
          nexthop_subport |-> Over(subPortTunnelTest),
          nexthop_svi     |-> Over(sviTunnelTest),
          nexthop_vni     |-> Vxlan(tunnelVniTest),
          nexthop_vrf     |-> Vxlan(tunnelVrfTest)]

=============================================================================
