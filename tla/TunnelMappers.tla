--------------------------- MODULE TunnelMappers ----------------------------
(***************************************************************************)
(* src/ptf/saitunnel.py, MultipleMapperEntriesBase: one VXLAN tunnel for   *)
(* eight customers in five virtual routers, whose VNIs only the entries of *)
(* the tunnel's mappers say.  The v6 class runs the same program.          *)
(***************************************************************************)
EXTENDS PtfScript

(* customer i: its virtual router, its interface and, in a VLAN, its port *)
Customers ==
    <<[vr |-> "ovrf1",   rif |-> "orif1",   bp |-> NULL],
      [vr |-> "ovrf234", rif |-> "orif234", bp |-> "port0_bp"],
      [vr |-> "ovrf234", rif |-> "orif234", bp |-> "port1_bp"],
      [vr |-> "ovrf234", rif |-> "orif234", bp |-> "lag1_bp"],
      [vr |-> "ovrf5",   rif |-> "orif5",   bp |-> NULL],
      [vr |-> "ovrf67",  rif |-> "orif6",   bp |-> NULL],
      [vr |-> "ovrf67",  rif |-> "orif7",   bp |-> NULL],
      [vr |-> "ovrf8",   rif |-> "orif8",   bp |-> NULL]>>

Numbers == [i \in DOMAIN Customers |-> i]

(* of customer i: the host, and the name of the object of a kind *)
Host(i, fam)   == "customer" \o ToString(i) \o "_ip" \o fam
Mac(i)         == "customer" \o ToString(i) \o "_mac"
Of(kind, i, v) == kind \o ToString(i) \o v

-----------------------------------------------------------------------------
Interfaces ==
       New("uvrf", Vrf) \o New("urif_lpb", LoopRif("uvrf"))
    \o New("ovrf1", Vrf) \o New("ovrf234", Vrf) \o New("ovrf5", Vrf) \o New("ovrf67", Vrf)
    \o New("ovrf8", Vrf)
    \o New("orif1", PortRif("ovrf1", "port24"))
    \o New("orif234", VlanRif("ovrf234", "vlan10"))
    \o New("orif5", SubRif("ovrf5", "port25", "orif5_vlan_no"))
    \o New("orif6", SubRif("ovrf67", "port26", "orif6_vlan_no"))
    \o New("orif7", SubRif("ovrf67", "port26", "orif7_vlan_no"))
    \o New("orif8", PortRif("ovrf8", "port27"))
    \o New("urif", PortRif("uvrf", "port28")) \o New("unhop", Hop("urif", "tun_ip"))
    \o New("unbor", Nbor("urif", "tun_ip", "unbor_mac"))
    \o New("tunnel_route", Route("uvrf", {"tun_ip"}, "unhop"))

(* the first four virtual routers have entries, in the encapsulation map *)
Mapped == <<"ovrf1", "ovrf234", "ovrf5", "ovrf67">>

Routers == Mapped \o <<"ovrf8">>

Vni(vr) == [ovrf1 |-> "vni1", ovrf234 |-> "vni234", ovrf5 |-> "vni5", ovrf67 |-> "vni67",
            ovrf8 |-> "vni8"][vr]

TunnelAndRoutes ==
       New("encap_map", TunnelMap) \o New("decap_map", TunnelMap)
    \o Upto(Len(Mapped), LAMBDA i :
              New(Of("encap_map_entry", i, ""), EncapEntry("encap_map", Mapped[i], Vni(Mapped[i])))
           \o New(Of("decap_map_entry", i, ""), DecapEntry("encap_map", Mapped[i], Vni(Mapped[i]))))
    \o New("tunnel", Tunnel("urif_lpb", {"encap_map"}, {"decap_map"})
                       @@ [ettl |-> "PIPE", dttl |-> "PIPE"])
    \o New("tunnel_term", Term("uvrf", "tunnel", "lpb_ip"))
    \o New("tunnel_nhop", TunHop("tunnel", "tun_ip", "inner_dmac", NULL))
    \o Upto(Len(Routers), LAMBDA i :
              New(Of("vm_route", i, ""), Route(Routers[i], {"vm_ip"}, "tunnel_nhop"))
           \o New(Of("vm_v6_route", i, ""), Route(Routers[i], {"vm_ipv6"}, "tunnel_nhop")))

(* the two hosts of customer i *)
CustomerOn(i) ==
    LET c == Customers[i]
        host(v, fam) ==
               New(Of("onhop", i, v), Hop(c.rif, Host(i, fam)))
            \o New(Of("onbor", i, v), Nbor(c.rif, Host(i, fam), Mac(i)))
            \o New(Of("customer", i, v \o "_route"),
                   Route(c.vr, {Host(i, fam)}, Of("onhop", i, v)))
    IN host("", "") \o host("_v6", "v6")

(* customers 2, 3 and 4 are in a VLAN: the FDB has the port of each *)
VlanCustomers ==
    For(<<2, 3, 4>>, LAMBDA i :
           CustomerOn(i)
        \o New(Of("c", i, "_fdb_entry"), Fdb("vlan10", Mac(i), Customers[i].bp)) \o Check)

RoutedCustomers == For(<<5, 6, 7, 8>>, CustomerOn)

SetUp == Interfaces \o TunnelAndRoutes \o CustomerOn(1) \o VlanCustomers \o RoutedCustomers

CustomerOff(i) ==
    Del(<<Of("customer", i, "_v6_route"), Of("onbor", i, "_v6"), Of("onhop", i, "_v6"),
          Of("customer", i, "_route"), Of("onbor", i, ""), Of("onhop", i, "")>>)

(* all entries of the FDB, then what is numbered, as far as it is there *)
TearDown ==
       Flush
    \o For(Reverse(Numbers), CustomerOff)
    \o Del(Numbered("vm_v6_route", 5)) \o Del(Numbered("vm_route", 5))
    \o Del(<<"tunnel_nhop", "tunnel_term", "tunnel">>)
    \o Del(Numbered("decap_map_entry", 4)) \o Del(Numbered("encap_map_entry", 4))
    \o Del(<<"decap_map", "encap_map", "tunnel_route", "unbor", "unhop", "urif",
             "orif8", "orif7", "orif6", "orif5", "orif234", "orif1",
             "ovrf8", "ovrf67", "ovrf5", "ovrf234", "ovrf1", "urif_lpb", "uvrf">>)

-----------------------------------------------------------------------------
(* the ports a packet of customer i may use; a packet of a sub port has its tag *)
Data(i, ports, tag) == [i |-> i, ports |-> ports, tag |-> tag]

pkt_data ==
    <<Data(1, <<"port24">>, << >>), Data(2, <<"port0">>, << >>), Data(3, <<"port1">>, << >>),
      Data(4, <<"port4", "port5", "port6">>, << >>),
      Data(5, <<"port25">>, [vid |-> "orif5_vlan_no"]),
      Data(6, <<"port26">>, [vid |-> "orif6_vlan_no"]),
      Data(7, <<"port26">>, [vid |-> "orif7_vlan_no"])>>

VniFor(i) == Vni(Customers[i].vr)

(* res is what becomes of it, in a tunnel header with that VNI *)
InHeader(vni) == Marked(InTunnel({"port28"}, "unbor_mac", <<"tun_ip", "inner_dmac", vni>>),
                        <<"default", NULL, NULL>>)

Encap(d, fam) ==
    Expect([in |-> d.ports[1], dst |-> "vm_ip" \o fam] @@ d.tag, InHeader(VniFor(d.i)))

Decap(i, fam, res) ==
    Expect([in |-> "port28", outer |-> "lpb_ip", from |-> "tun_ip", vni |-> VniFor(i),
            dst |-> Host(i, fam)], res)

Arrives(d) == Marked(Plain(ToSet(d.ports), Mac(d.i)), <<"inner", NULL, NULL>>)

encapV4Test == For(pkt_data, LAMBDA d : Encap(d, ""))
decapV4Test == For(pkt_data, LAMBDA d : Decap(d.i, "", Arrives(d)))
encapV6Test == For(pkt_data, LAMBDA d : Encap(d, "v6"))
decapV6Test == For(pkt_data, LAMBDA d : Decap(d.i, "v6", Arrives(d)))

(***************************************************************************)
(* The eighth customer, whose entries come and go.  The test wants vni8 in *)
(* the tunnel header even while no entry says it.                          *)
(***************************************************************************)
addDelMapperEntriesTest ==
    LET eighth == Data(8, <<"port27">>, << >>)
        encap  == Encap(eighth, "")
        no     == Decap(8, "", Nothing)
    IN Method(Assigned(SetUp),
              encap \o Check \o no
           \o New("encap_map_entry", EncapEntry("encap_map", "ovrf8", "vni8"))
           \o encap \o no
           \o New("decap_map_entry", DecapEntry("encap_map", "ovrf8", "vni8"))
           \o encap \o Decap(8, "", Arrives(eighth))
           \o Del(<<"decap_map_entry">>) \o encap \o no
           \o Del(<<"encap_map_entry">>) \o encap \o Check \o no)

Suite == [mappers |-> Case(SetUp, encapV4Test \o decapV4Test \o encapV6Test \o decapV6Test
                                    \o addDelMapperEntriesTest, TearDown)]

=============================================================================
