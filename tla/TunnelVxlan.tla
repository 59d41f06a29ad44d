---------------------------- MODULE TunnelVxlan ----------------------------
(***************************************************************************)
(* src/ptf/saitunnel.py: the tests on one VXLAN tunnel between a customer  *)
(* port and an underlay port (VxLanBaseSetup and the classes over it).     *)
(* The v4 and the v6 underlay classes run the same programs.               *)
(***************************************************************************)
EXTENDS PtfScript

(* the objects of VxLanBaseSetup, by the attribute of the test that keeps each *)
Objects ==
    [uvrf                    |-> Vrf,
     ovrf                    |-> Vrf,
     urif_lpb                |-> LoopRif("uvrf"),
     urif                    |-> PortRif("uvrf", "port25"),
     orif                    |-> PortRif("ovrf", "port24"),
     encap_tunnel_map        |-> TunnelMap,
     decap_tunnel_map        |-> TunnelMap,
     encap_tunnel_map_entry  |-> EncapEntry("encap_tunnel_map", "ovrf", "vni"),
     decap_tunnel_map_entry  |-> DecapEntry("decap_tunnel_map", "ovrf", "vni"),
     tunnel                  |-> Tunnel("urif_lpb", {"encap_tunnel_map"}, {"decap_tunnel_map"}),
     tunnel_term             |-> TermP2P("uvrf", "tunnel", "lpb_ip", "tun_ip"),
     onhop                   |-> Hop("orif", "customer_ip"),
     onbor                   |-> Nbor("orif", "customer_ip", "customer_mac"),
     customer_route          |-> Route("ovrf", {"customer_ip"}, "onhop"),
     onhop_v6                |-> Hop("orif", "customer_ipv6"),
     onbor_v6                |-> Nbor("orif", "customer_ipv6", "customer_mac"),
     customer_v6_route       |-> Route("ovrf", {"customer_ipv6"}, "onhop_v6"),
     tunnel_nhop             |-> TunHop("tunnel", "tun_ip", "inner_dmac", "vni"),
     vm_route                |-> Route("ovrf", {"vm_ip"}, "tunnel_nhop"),
     vm_v6_route             |-> Route("ovrf", {"vm_ipv6"}, "tunnel_nhop"),
     unhop                   |-> Hop("urif", "tun_ip"),
     unbor                   |-> Nbor("urif", "tun_ip", "unbor_mac"),
     tunnel_route            |-> Route("uvrf", {"tun_ip"}, "unhop")]

Order == <<"uvrf", "ovrf", "urif_lpb", "urif", "orif", "encap_tunnel_map",
           "decap_tunnel_map", "encap_tunnel_map_entry", "decap_tunnel_map_entry",
           "tunnel", "tunnel_term", "onhop", "onbor", "customer_route", "onhop_v6",
           "onbor_v6", "customer_v6_route", "tunnel_nhop", "vm_route", "vm_v6_route",
           "unhop", "unbor", "tunnel_route">>

SetUp == Make(Objects, Order)

TearDown == Del(Reverse(Order))

(***************************************************************************)
(* The packets.                                                            *)
(***************************************************************************)
Header == <<"tun_ip", "inner_dmac", "vni">>

Encap(dst) == Expect([in |-> "port24", dst |-> dst],
                     InTunnel({"port25"}, "unbor_mac", Header))

Decap(dst, src, out) ==
    Expect([in |-> "port25", outer |-> "lpb_ip", from |-> src, vni |-> "vni", dst |-> dst], out)

(* k packets with a header that is not valid: none may come out *)
Dropped(k) == Checks(k)

basicTunnelTest == Decap("customer_ip", "tun_ip", Plain({"port24"}, "customer_mac"))

encapDecapTest == Encap("vm_ip")
                    \o Decap("customer_ip", "tun_ip", Plain({"port24"}, "customer_mac"))

encapDecapIpv6UnderlayTest == encapDecapTest

(* the tunnel is point to point: another source is not its peer *)
tunnelTermSrcIpTest == Decap("customer_ip", "test_src_ip", Nothing)

tunnelTermSrcIpIpv6UnderlayTest == tunnelTermSrcIpTest

-----------------------------------------------------------------------------
(* TunnelMalformedEncapPacketsBase *)
tunnelEncapInvalidIpVersionTest == Dropped(2)
tunnelEncapInvalidIhlTest       == Dropped(5)
tunnelEncapInvalidTtlTest       == Dropped(1)
tunnelEncapInvalidChksumTest    == Dropped(1)
tunnelEncapInvalidSrcIpTest     == Dropped(3)
tunnelEncapInvalidHlimTest      == Dropped(1)

(* packets of the MTU of the overlay and of the underlay, then a larger one *)
MtuTest(overlay, underlay, dst) ==
    Try(   Set("orif", "mtu", overlay) \o Check
        \o Set("urif", "mtu", underlay) \o Check
        \o Encap(dst) \o Encap(dst) \o Dropped(1),
        Reset("orif", "mtu") \o Reset("urif", "mtu"))

tunnelEncapInvalidIpv4MtuTest == MtuTest("200", "200 + offset - 1", "vm_ip")
tunnelEncapInvalidIpv6MtuTest == MtuTest("500", "500 + offset - 1", "vm_ipv6")

MalformedEncap ==
       tunnelEncapInvalidIpVersionTest \o tunnelEncapInvalidIhlTest
    \o tunnelEncapInvalidTtlTest \o tunnelEncapInvalidChksumTest
    \o tunnelEncapInvalidSrcIpTest \o Method(ToSet(Order), tunnelEncapInvalidIpv4MtuTest)
    \o tunnelEncapInvalidHlimTest \o Method(ToSet(Order), tunnelEncapInvalidIpv6MtuTest)

-----------------------------------------------------------------------------
(* TunnelMalformedDecapPacketsBase *)
tunnelInvalidInnerSmacTest           == Dropped(3)
tunnelInvalidInnerDmacTest           == Dropped(1)
tunnelDecapInvalidInnerDmacTest      == Dropped(2)
tunnelDecapInvalidInnerIpVersionTest == Dropped(2)
tunnelDecapInvalidInnerIhlTest       == Dropped(5)
tunnelDecapInvalidInnerTtlTest       == Dropped(1)
tunnelDecapInvalidInnerChksumTest    == Dropped(1)
tunnelDecapInvalidInnerSrcIpTest     == Dropped(4)
tunnelDecapInvalidInnerHlimTest      == Dropped(1)
tunnelDecapInvalidOuterIpVersionTest == Dropped(2)
tunnelDecapInvalidOuterIhlTest       == Dropped(5) \o Dropped(5)
tunnelDecapInvalidOuterTtlTest       == Dropped(2)
tunnelDecapInvalidOuterChksumTest    == Dropped(2)
tunnelDecapInvalidOuterSrcIpTest     == Dropped(4)
tunnelDecapInvalidOuterHlimTest      == Dropped(2)

MalformedDecapIpv4Underlay ==
       tunnelInvalidInnerSmacTest \o tunnelInvalidInnerDmacTest
    \o tunnelDecapInvalidInnerDmacTest \o tunnelDecapInvalidInnerIpVersionTest
    \o tunnelDecapInvalidInnerIhlTest \o tunnelDecapInvalidInnerTtlTest
    \o tunnelDecapInvalidInnerChksumTest \o tunnelDecapInvalidInnerSrcIpTest
    \o tunnelDecapInvalidInnerHlimTest \o tunnelDecapInvalidOuterIpVersionTest
    \o tunnelDecapInvalidOuterIhlTest \o tunnelDecapInvalidOuterTtlTest
    \o tunnelDecapInvalidOuterChksumTest \o tunnelDecapInvalidOuterSrcIpTest

(* its first call is of tunnelInvalidInnerSmacDropTest, which no class has *)
MalformedDecapIpv6Underlay ==
       Raise \o tunnelInvalidInnerDmacTest
    \o tunnelDecapInvalidInnerDmacTest \o tunnelDecapInvalidInnerIpVersionTest
    \o tunnelDecapInvalidInnerIhlTest \o tunnelDecapInvalidInnerTtlTest
    \o tunnelDecapInvalidInnerChksumTest \o tunnelDecapInvalidInnerSrcIpTest
    \o tunnelDecapInvalidInnerHlimTest \o tunnelDecapInvalidOuterIpVersionTest
    \o tunnelDecapInvalidOuterHlimTest \o tunnelDecapInvalidOuterSrcIpTest

(***************************************************************************)
(* The tests: each is one setUp, one run, one tearDown.                    *)
(***************************************************************************)
Run(body) == Case(SetUp, body, TearDown)

Suite ==
    [vxlan_basic              |-> Run(basicTunnelTest),
     vxlan_v4_underlay        |-> Run(encapDecapTest \o tunnelTermSrcIpTest),
     vxlan_v6_underlay        |-> Run(encapDecapIpv6UnderlayTest \o tunnelTermSrcIpIpv6UnderlayTest),
     vxlan_malformed_encap    |-> Run(MalformedEncap),
     vxlan_malformed_decap_v4 |-> Run(MalformedDecapIpv4Underlay),
     vxlan_malformed_decap_v6 |-> Run(MalformedDecapIpv6Underlay)]

=============================================================================
