----------------------------- MODULE RouteTests ----------------------------
(***************************************************************************)
(* src/ptf/sairoute.py: routes to a next hop, an empty group, a router     *)
(* interface, the CPU, and to the neighbors of a VLAN interface.  A packet *)
(* for the CPU shows as a queue that counts one more: a check.             *)
(***************************************************************************)
EXTENDS PtfScript

Counted == Check

Net1 == {"ip1", "ip1_2", "bcast1"}
Net2 == {"ip2", "ip2_2"}

From(port, ip, out) == Expect([in |-> port, dst |-> ip], out)

(* a neighbor on port10 and its next hop *)
OneHop == New("neighbor_entry", HostNbor("port10_rif", "nh_ip", "dmac"))
            \o New("nhop", Hop("port10_rif", "nh_ip"))

OneHopOff == Del(<<"nhop", "neighbor_entry">>)

multipleRoutesTest ==
       OneHop
    \o New("route_entry1", Route("default_vrf", {"ip1"}, "nhop"))
    \o New("route_entry2", Route("default_vrf", {"nh_ip"}, "nhop"))
    \o Try(From("port11", "ip1", Plain({"port10"}, "dmac")) \o From("port11", "nh_ip", Plain({"port10"}, "dmac")),
           Del(<<"route_entry1", "route_entry2">>) \o OneHopOff)

dropRouteTest ==
       OneHop
    \o New("route_entry", Route("default_vrf", {"ip1"}, "nhop") @@ [action |-> "TRAP"])
    \o Try(Counted, Del(<<"route_entry">>) \o OneHopOff)

(* the second next hop and neighbor are variables only after the first check *)
routeUpdateTest ==
       OneHop
    \o New("route_entry", Route("default_vrf", {"ip1"}, "nhop"))
    \o Try(   From("port11", "ip1", Plain({"port10"}, "dmac"))
           \o New("neighbor_entry2", HostNbor("port10_rif", "nh_ip2", "dmac2"))
           \o New("nhop2", Hop("port10_rif", "nh_ip2"))
           \o Set("route_entry", "nh", "nhop2") \o From("port11", "ip1", Plain({"port10"}, "dmac2"))
           \o Set("route_entry", "action", "DROP") \o From("port11", "ip1", Nothing)
           \o Reset("route_entry", "action") \o From("port11", "ip1", Plain({"port10"}, "dmac2"))
           \o Set("route_entry", "action", "TRAP") \o Counted
           \o Reset("route_entry", "action") \o From("port11", "ip1", Plain({"port10"}, "dmac2")),
           Del(<<"route_entry", "nhop", "nhop2", "neighbor_entry", "neighbor_entry2">>))

routeIngressRifTest ==
       OneHop
    \o New("route_entry", Route("default_vrf", {"ip1"}, "nhop"))
    \o Try(From("port10", "ip1", Plain({"port10"}, "dmac")), Del(<<"route_entry">>) \o OneHopOff)

emptyECMPGroupTest ==
       New("nhop_group", Group)
    \o New("route_entry", Route("default_vrf", {"ip1"}, "nhop_group"))
    \o Try(From("port10", "ip1", Nothing), Del(<<"route_entry", "nhop_group">>))

-----------------------------------------------------------------------------
SviPorts == <<"port24", "port25", "port26">>

SviNbor(i) ==
    LET k == ToString(i)
    IN     New("neighbor_entry" \o k, HostNbor("vlan100_rif", "nh_ip" \o k, "dmac" \o k))
        \o New("nhop" \o k, Hop("vlan100_rif", "nh_ip" \o k))
        \o New("route_entry" \o k, Route("default_vrf", {"ip" \o k}, "nhop" \o k))

SviFdb(i) == New("fdb_entry" \o ToString(i),
                 Fdb("vlan100", "dmac" \o ToString(i), SviPorts[i] \o "_bp"))

(* the FDB entries are removed in the try block only *)
sviNeighborTest ==
       For(SviPorts, LAMBDA p : New(p \o "_bp", BridgePort(p)))
    \o New("vlan100", Vlan)
    \o For(SviPorts, LAMBDA p : New(p \o "_member", VlanMember("vlan100", p \o "_bp", "untagged")))
    \o For(SviPorts, LAMBDA p : Set(p, "pvid", "100"))
    \o New("vlan100_rif", VlanRif("default_vrf", "vlan100"))
    \o Upto(3, SviNbor)
    \o Try(   Upto(3, SviFdb)
           \o From("port10", "ip1", Plain({"port24"}, "dmac1"))
           \o Del(<<"fdb_entry3", "fdb_entry2", "fdb_entry1">>),
              Del(<<"route_entry3", "route_entry2", "route_entry1", "nhop3", "nhop2", "nhop1",
                    "neighbor_entry3", "neighbor_entry2", "neighbor_entry1", "vlan100_rif">>)
           \o For(SviPorts, LAMBDA p : Reset(p, "pvid"))
           \o For(Reverse(SviPorts), LAMBDA p : Del(<<p \o "_member">>))
           \o Del(<<"vlan100">>)
           \o For(Reverse(SviPorts), LAMBDA p : Del(<<p \o "_bp">>)))

(* the CPU port is no object of the store *)
cpuForwardTest ==
       New("route_entry", DropRoute("default_vrf", {"ip1"}))
    \o Try(   From("port0", "ip1", Nothing)
           \o New("trap_group", TrapGroup) \o New("trap", Trap("trap_group")) \o Counted,
           Del(<<"route_entry", "trap", "trap_group">>))

-----------------------------------------------------------------------------
LagPorts == {"port17", "port18", "port19"}

RemoveAddSetUp ==
       Must("nbr_entry_v4", HostNbor("lag4_rif", "ip1", "dmac"))
    \o Must("net_route", Route("default_vrf", {"ip1"}, "lag4_rif"))

RemoveAddNeighborTestV4 ==
       From("port10", "ip1", Plain(LagPorts, "dmac"))
    \o Del(<<"nbr_entry_v4">>) \o Check \o From("port10", "ip1", Nothing) \o Counted
    \o Must("nbr_entry_v4", HostNbor("lag4_rif", "ip1", "dmac"))
    \o From("port10", "ip1", Plain(LagPorts, "dmac"))

RemoveAddTearDown == Del(<<"net_route", "nbr_entry_v4">>)

(* a route and a neighbor for one address, each with and without the other *)
routeNbrColisionTest ==
    LET Neighbor == New("nbr_entry", HostNbor("port10_rif", "ip1", "dmac"))
        Connect  == New("route_entry", Route("default_vrf", {"ip1"}, "port10_rif"))
        Arrives  == From("port11", "ip1", Plain({"port10"}, "dmac"))
        Gleaned  == Counted
    IN     Neighbor \o New("nhop", Hop("port10_rif", "ip1"))
        \o Try(   Arrives \o Connect \o Arrives \o Del(<<"route_entry">>) \o Arrives
               \o Connect \o Arrives \o Del(<<"nbr_entry">>) \o Gleaned \o Neighbor \o Arrives
               \o Del(<<"route_entry", "nbr_entry">>) \o From("port11", "ip1", Nothing)
               \o Connect \o Gleaned \o Neighbor \o Arrives,
               Del(<<"route_entry", "nhop", "nbr_entry">>))

-----------------------------------------------------------------------------
(* MUTANT of DirBcastSetUp: the VLAN interface is created before its VLAN *)
DirBcastSetUp_RifFirst ==
       New("port24_bp", BridgePort("port24")) \o New("port25_bp", BridgePort("port25"))
    \o New("vlan100_rif", VlanRif("default_vrf", "vlan100"))
    \o New("vlan100", Vlan)
    \o New("vlan100_member1", VlanMember("vlan100", "port24_bp", "untagged"))
    \o New("vlan100_member2", VlanMember("vlan100", "port25_bp", "untagged"))
    \o Set("port24", "pvid", "100") \o Set("port25", "pvid", "100")
    \o New("fdb_entry", Fdb("vlan100", "dmac1", "port24_bp"))

(* L3DirBcastRouteTestHelper *)
DirBcastSetUp ==
       New("port24_bp", BridgePort("port24")) \o New("port25_bp", BridgePort("port25"))
    \o New("vlan100", Vlan)
    \o New("vlan100_member1", VlanMember("vlan100", "port24_bp", "untagged"))
    \o New("vlan100_member2", VlanMember("vlan100", "port25_bp", "untagged"))
    \o Set("port24", "pvid", "100") \o Set("port25", "pvid", "100")
    \o New("fdb_entry", Fdb("vlan100", "dmac1", "port24_bp"))
    \o New("vlan100_rif", VlanRif("default_vrf", "vlan100"))

DirBcastTearDown ==
       Del(<<"vlan100_rif", "fdb_entry">>) \o Reset("port24", "pvid") \o Reset("port25", "pvid")
    \o Del(<<"vlan100_member1", "vlan100_member2", "vlan100", "port24_bp", "port25_bp">>)

trafficTrapTest1 == Counted \o Counted

trafficTrapTest2 == Counted \o Counted

(* the broadcast address of the VLAN's prefix goes to all of its ports *)
trafficTest ==
       From("port10", "ip1", Plain({"port24"}, "dmac1"))
    \o From("port10", "bcast1", Copies({"port24", "port25"}, "bcast_mac"))
    \o From("port25", "ip2", Plain({"port10"}, "dmac2"))

Connected == New("route_entry1", Route("default_vrf", Net1, "vlan100_rif"))
               \o New("route_entry2", Route("default_vrf", Net2, "port10_rif"))

BcastNbor == New("nbr_entry0", HostNbor("vlan100_rif", "bcast1", "bcast_mac"))

(* MUTANT of ArpEntries: the two neighbors have each other's address *)
ArpEntries_Swapped ==
       New("nbr_entry1", HostNbor("vlan100_rif", "ip1", "dmac2")) \o New("nhop1", Hop("vlan100_rif", "ip1"))
    \o New("nbr_entry2", HostNbor("port10_rif", "ip2", "dmac1")) \o New("nhop2", Hop("port10_rif", "ip2"))

ArpEntries ==
       New("nbr_entry1", HostNbor("vlan100_rif", "ip1", "dmac1")) \o New("nhop1", Hop("vlan100_rif", "ip1"))
    \o New("nbr_entry2", HostNbor("port10_rif", "ip2", "dmac2")) \o New("nhop2", Hop("port10_rif", "ip2"))

DirBcastGleanAndForwardTest ==
    Try(Connected \o trafficTrapTest1 \o trafficTrapTest2 \o BcastNbor \o ArpEntries
          \o trafficTest \o trafficTrapTest2,
        Del(<<"route_entry1", "route_entry2">>)
          \o For(<<"nhop1", "nhop2", "nbr_entry1", "nbr_entry2", "nbr_entry0">>,
                 LAMBDA n : When(n, Del(<<n>>))))

DirBcastForwardTest ==
    Try(ArpEntries \o BcastNbor \o Connected \o trafficTest \o trafficTrapTest2,
        Del(<<"route_entry1", "route_entry2">>)
          \o When("nhop1", Del(<<"nhop1">>)) \o When("nhop2", Del(<<"nhop2">>))
          \o Del(<<"nbr_entry1", "nbr_entry2", "nbr_entry0">>))

-----------------------------------------------------------------------------
DirBcast(body) == Case(DirBcastSetUp, body, DirBcastTearDown)

Suite == [route_multiple     |-> multipleRoutesTest,
          route_drop         |-> dropRouteTest,
          route_update       |-> routeUpdateTest,
          route_ingress_rif  |-> routeIngressRifTest,
          route_empty_group  |-> emptyECMPGroupTest,
          route_svi          |-> sviNeighborTest,
          route_cpu          |-> cpuForwardTest,
          route_remove_nbor  |-> Case(RemoveAddSetUp, RemoveAddNeighborTestV4, RemoveAddTearDown),
          route_collision    |-> routeNbrColisionTest,
          route_bcast_glean  |-> DirBcast(DirBcastGleanAndForwardTest),
          route_bcast        |-> DirBcast(DirBcastForwardTest)]

=============================================================================
