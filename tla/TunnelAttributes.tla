-------------------------- MODULE TunnelAttributes --------------------------
(***************************************************************************)
(* src/ptf/saitunnel.py: TunnelAttributesTest, TunnelTtlModeTest and       *)
(* TunnelQosModeTest.  Each test makes a tunnel of its own, with the       *)
(* attributes it is about, and takes it away.                              *)
(***************************************************************************)
EXTENDS PtfScript

(* what the setUp of the three classes creates *)
Objects ==
    [uvrf              |-> Vrf,
     ovrf              |-> Vrf,
     urif_lpb          |-> LoopRif("uvrf"),
     orif_lpb          |-> LoopRif("ovrf"),
     urif              |-> PortRif("uvrf", "port25"),
     unhop             |-> Hop("urif", "tun_ip"),
     unhop_v6          |-> Hop("urif", "tun_ipv6"),
     unbor             |-> Nbor("urif", "tun_ip", "unbor_mac"),
     unbor_v6          |-> Nbor("urif", "tun_ipv6", "unbor_mac"),
     tunnel_route      |-> Route("uvrf", {"tun_ip"}, "unhop"),
     tunnel_route_v6   |-> Route("uvrf", {"tun_ipv6"}, "unhop_v6"),
     orif              |-> PortRif("ovrf", "port24"),
     onhop             |-> Hop("orif", "customer_ip"),
     onhop_v6          |-> Hop("orif", "customer_ipv6"),
     onbor             |-> Nbor("orif", "customer_ip", "customer_mac"),
     onbor_v6          |-> Nbor("orif", "customer_ipv6", "customer_mac"),
     customer_route    |-> Route("ovrf", {"customer_ip"}, "onhop"),
     customer_route_v6 |-> Route("ovrf", {"customer_ipv6"}, "onhop_v6")]

Order == <<"uvrf", "ovrf", "urif_lpb", "orif_lpb", "urif", "unhop", "unhop_v6",
           "unbor", "unbor_v6", "tunnel_route", "tunnel_route_v6", "orif", "onhop",
           "onhop_v6", "onbor", "onbor_v6", "customer_route", "customer_route_v6">>

SetUp == Make(Objects, Order)

TearDown ==
    Del(<<"tunnel_route", "tunnel_route_v6", "unbor", "unbor_v6", "unhop", "unhop_v6",
          "customer_route", "customer_route_v6", "onbor", "onbor_v6", "onhop", "onhop_v6",
          "orif", "urif", "orif_lpb", "urif_lpb", "ovrf", "uvrf">>)

Call(s) == Method(ToSet(Order), s)

-----------------------------------------------------------------------------
(***************************************************************************)
(* The tunnels.  The decapsulation entry is put into the encapsulation map *)
(* (tunnelDualEncapMapperTest is the one test that does not).              *)
(***************************************************************************)
VxlanOf(attrs) ==
       New("encap_tunnel_map", TunnelMap) \o New("decap_tunnel_map", TunnelMap)
    \o New("encap_tunnel_map_entry", EncapEntry("encap_tunnel_map", "ovrf", "vni"))
    \o New("decap_tunnel_map_entry", DecapEntry("encap_tunnel_map", "ovrf", "vni"))
    \o New("tunnel", Tunnel("urif_lpb", {"encap_tunnel_map"}, {"decap_tunnel_map"}) @@ attrs)

VxlanEnds ==
       New("tunnel_term", Term("uvrf", "tunnel", "lpb_ip"))
    \o New("tunnel_nhop", TunHop("tunnel", "tun_ip", "inner_dmac", "vni"))
    \o New("vm_route", Route("ovrf", {"vm_ip"}, "tunnel_nhop"))

TunnelOff == Del(<<"vm_route", "tunnel_nhop", "tunnel_term", "tunnel">>)

MapsOff == Del(<<"decap_tunnel_map_entry", "encap_tunnel_map_entry",
                 "decap_tunnel_map", "encap_tunnel_map">>)

(* out and in are the families of the outer and the inner header *)
IpInIp(out, in, term, vni, attrs) ==
       New("tunnel", IpTunnel("urif_lpb", "orif_lpb") @@ attrs)
    \o New("tunnel_term", term)
    \o New("tunnel_nhop", TunHop("tunnel", "tun_ip" \o out, "inner_dmac", vni))
    \o New("vm_route", Route("ovrf", {"vm_ip" \o in}, "tunnel_nhop"))

P2P(out)   == TermP2P("uvrf", "tunnel", "lpb_ip" \o out, "tun_ip" \o out)
NoSrc(out) == Term("uvrf", "tunnel", "lpb_ip" \o out)

(* the packets: from the customer into the tunnel, and out of it *)
Encap(out, in, vni, qos) ==
    Expect([in |-> "port24", dst |-> "vm_ip" \o in],
           Marked(InTunnel({"port25"}, "unbor_mac", <<"tun_ip" \o out, "inner_dmac", vni>>), qos))

DecapFrom(port, dst, out, in, res) ==
    Expect([in |-> port, outer |-> dst, from |-> "tun_ip" \o out, vni |-> "vni",
            dst |-> "customer_ip" \o in], res)

Decap(out, in, qos) ==
    DecapFrom("port25", "lpb_ip" \o out, out, in,
              Marked(Plain({"port24"}, "customer_mac"), qos))

VxlanEncap(qos) == Encap("", "", "vni", qos)
VxlanDecap(qos) == Decap("", "", qos)

VxlanTest(attrs, s, fin) ==
    Call(Try(VxlanOf(attrs) \o VxlanEnds \o s, fin \o TunnelOff \o MapsOff))

IpInIpTest(tunnel, s, fin) == Call(Try(tunnel \o s, fin \o TunnelOff))

-----------------------------------------------------------------------------
(***************************************************************************)
(* TunnelAttributesTest: the TTL in the pipe model.                        *)
(***************************************************************************)
EncapTtl(mode, val) == [ettl |-> mode, ettlval |-> val]
DecapTtl(mode)      == [dttl |-> mode]

encapTtlPipeModeVxlanTest ==
    VxlanTest(EncapTtl("PIPE", "20"),
              VxlanEncap(<<"20", NULL, NULL>>) \o Set("tunnel", "ettlval", "32")
                \o VxlanEncap(<<"32", NULL, NULL>>), << >>)

encapTtlPipeModeIpInIpTest ==
    IpInIpTest(IpInIp("", "", P2P(""), NULL, EncapTtl("PIPE", "20")),
               Encap("", "", NULL, <<"20", NULL, NULL>>), << >>)

encapTtlPipeModeIpv6InIpv6Test ==
    IpInIpTest(IpInIp("v6", "v6", P2P("v6"), NULL, EncapTtl("PIPE", "20")),
               Encap("v6", "v6", NULL, <<"20", NULL, NULL>>), << >>)

decapTtlPipeModeVxlanTest ==
    VxlanTest(DecapTtl("PIPE"), VxlanDecap(<<"inner", NULL, NULL>>), << >>)

decapTtlPipeModeIpInIpTest ==
    IpInIpTest(IpInIp("", "", NoSrc(""), "vni", DecapTtl("PIPE")),
               Decap("", "", <<"inner", NULL, NULL>>), << >>)

decapTtlPipeModeIpv6InIpv6Test ==
    IpInIpTest(IpInIp("v6", "v6", NoSrc("v6"), "vni", DecapTtl("PIPE")),
               Decap("v6", "v6", <<"inner", NULL, NULL>>), << >>)

(***************************************************************************)
(* The DSCP: through the tunnel, and then once more with maps that rewrite *)
(* it between the port a packet comes in on and the one it leaves through. *)
(***************************************************************************)
QosMaps(in, out) ==
       New("dscp_to_tc_map_id", QosMap) \o Set(in, "dscp_to_tc", "dscp_to_tc_map_id")
    \o New("tc_to_dscp_map_id", QosMap) \o Set(out, "tc_to_dscp", "tc_to_dscp_map_id")

QosMapsOff(in, out) ==
    When("tc_to_dscp_map_id",
            Reset(in, "dscp_to_tc") \o Del(<<"dscp_to_tc_map_id">>)
         \o Reset(out, "tc_to_dscp") \o Del(<<"tc_to_dscp_map_id">>))

EncapDscp(mode) == [ettl |-> "PIPE", edscp |-> mode, edscpval |-> "10"]
DecapDscp(mode) == [dttl |-> "PIPE", ddscp |-> mode]

(* the outer DSCP in the header a tunnel adds *)
Outer(mode, val, own) == IF mode = "PIPE" THEN val ELSE own

EncapRewritten(mode) ==
       QosMaps("port24", "port25")
    \o VxlanEncap(<<"default", Outer(mode, "12", "rewritten"), "rewritten">>)

EncapDscpVxlan(mode) ==
    LET sent(val) == VxlanEncap(<<"default", Outer(mode, val, NULL), NULL>>) IN
    VxlanTest(EncapDscp(mode),
              sent("10") \o Set("tunnel", "edscpval", "12") \o sent("12")
                \o EncapRewritten(mode),
              QosMapsOff("port24", "port25"))

EncapDscpIpInIp(fam, mode) ==
    IpInIpTest(IpInIp(fam, fam, P2P(fam), NULL, EncapDscp(mode)),
               Encap(fam, fam, NULL, <<"default", Outer(mode, "10", NULL), NULL>>)
                 \o QosMaps("port24", "port25")
                 \o Encap(fam, fam, NULL, <<"default", Outer(mode, "10", "rewritten"), "rewritten">>),
               QosMapsOff("port24", "port25"))

(* left unsaid is the DSCP of the outer header *)
Left(mode) == IF mode = "PIPE" THEN "inner" ELSE NULL

DecapRewritten ==
    QosMaps("port25", "port24") \o VxlanDecap(<<"inner", "rewritten", NULL>>)

DecapDscpVxlan(mode) ==
    VxlanTest(DecapDscp(mode),
              VxlanDecap(<<"inner", Left(mode), NULL>>) \o DecapRewritten,
              QosMapsOff("port25", "port24"))

DecapDscpIpInIp(fam, mode) ==
    IpInIpTest(IpInIp(fam, fam, NoSrc(fam), "vni", DecapDscp(mode)),
               Decap(fam, fam, <<"inner", Left(mode), NULL>>) \o QosMaps("port25", "port24")
                 \o Decap(fam, fam, <<"inner", "rewritten", NULL>>),
               QosMapsOff("port25", "port24"))

encapDscpUniformModeVxlanTest        == EncapDscpVxlan("UNIFORM")
encapDscpUniformModeIpv4InIpv4Test   == EncapDscpIpInIp("", "UNIFORM")
encapDscpUniformModeIpv6InIpv6Test   == EncapDscpIpInIp("v6", "UNIFORM")
decapDscpUniformModeVxlanTest        == DecapDscpVxlan("UNIFORM")
decapDscpUniformModeIpv4InIpv4Test   == DecapDscpIpInIp("", "UNIFORM")
decapDscpUniformModeIpv6InIpv6Test   == DecapDscpIpInIp("v6", "UNIFORM")

-----------------------------------------------------------------------------
(* which packets a tunnel takes *)
Pipes == [ettl |-> "PIPE", dttl |-> "PIPE"]

Taken == VxlanDecap(<<"inner", NULL, NULL>>)

tunnelTermDstIpTest ==
    VxlanTest(Pipes, Taken \o DecapFrom("port25", "test_ip", "", "", Nothing), << >>)

tunnelTermVrIdTest ==
    Call(Try(   New("test_uvrf", Vrf) \o New("test_urif", PortRif("test_uvrf", "port26"))
             \o VxlanOf(Pipes) \o VxlanEnds
             \o Taken \o DecapFrom("port26", "lpb_ip", "", "", Nothing),
             TunnelOff \o MapsOff \o Del(<<"test_urif", "test_uvrf">>)))

tunnelDualEncapMapperTest ==
    Call(Try(   New("encap_tunnel_map", TunnelMap) \o New("encap_tunnel_map_2", TunnelMap)
             \o New("decap_tunnel_map", TunnelMap)
             \o New("encap_tunnel_map_entry", EncapEntry("encap_tunnel_map", "ovrf", "vni"))
             \o New("decap_tunnel_map_entry", DecapEntry("decap_tunnel_map", "ovrf", "vni"))
             \o New("tunnel", Tunnel("urif_lpb", {"encap_tunnel_map", "encap_tunnel_map_2"},
                                     {"decap_tunnel_map"}) @@ Pipes)
             \o VxlanEnds
             \o VxlanEncap(<<"default", NULL, NULL>>),
             TunnelOff \o MapsOff \o Del(<<"encap_tunnel_map_2">>)))

(***************************************************************************)
(* A VNI that is mapped to a virtual router, to a VLAN, or to both: the    *)
(* virtual router comes first.                                             *)
(***************************************************************************)
Ovlan ==
       New("ovlan", Vlan)
    \o New("orif_vlan", VlanRif("ovrf", "ovlan"))
    \o New("ovlan_member", VlanMember("ovlan", "port21_bp", "tagged"))
    \o New("mac2_entry", Fdb("ovlan", "customer2_mac", "port21_bp"))

VrfEntry  == New("decap_entry_vrf", DecapEntry("decap_map_vrf", "ovrf", "vni"))
VlanEntry == New("decap_entry_vlan", DecapVlan("decap_map_vlan", "ovlan", "vni"))

SendL2(out) ==
    Expect([in |-> "port25", outer |-> "lpb_ip", from |-> "tun_ip", vni |-> "vni",
            mac |-> "customer2_mac", dst |-> "customer2_ip"], out)

Bridges == SendL2(Marked(Plain({"port21"}, "customer2_mac"), <<"inner", NULL, NULL>>))

DualDecapUp ==
       New("encap_tunnel_map", TunnelMap) \o New("decap_map_vrf", TunnelMap)
    \o New("decap_map_vlan", TunnelMap)
    \o New("encap_tunnel_map_entry", EncapEntry("encap_tunnel_map", "ovrf", "vni"))
    \o VrfEntry
    \o Sure("tunnel", Tunnel("urif_lpb", {"encap_tunnel_map"},
                             {"decap_map_vrf", "decap_map_vlan"}) @@ Pipes)
    \o VxlanEnds

DualDecapTraffic ==
       Taken \o VlanEntry \o Taken \o SendL2(Nothing)
    \o Del(<<"decap_entry_vlan">>) \o Taken
    \o Del(<<"decap_entry_vrf">>) \o VlanEntry \o Bridges \o Taken
    \o VrfEntry \o Taken \o SendL2(Nothing)
    \o Del(<<"decap_entry_vrf">>) \o Taken \o Bridges

DualDecapOff ==
       When("tunnel", TunnelOff)
    \o When("decap_entry_vrf", Del(<<"decap_entry_vrf">>))
    \o When("decap_entry_vlan", Del(<<"decap_entry_vlan">>))
    \o Del(<<"encap_tunnel_map_entry", "decap_map_vrf", "decap_map_vlan",
             "encap_tunnel_map", "mac2_entry", "ovlan_member", "orif_vlan", "ovlan">>)

tunnelDualDecapMapperTest ==
    Call(Ovlan \o Try(DualDecapUp \o DualDecapTraffic, DualDecapOff))

tunnelPeerModeTest ==
    LET vxlan == VxlanOf(Pipes) IN
    Call(Try(vxlan \o <<[op |-> "made", n |-> "tunnel"]>> \o VxlanEnds \o Taken,
             When("tunnel", TunnelOff) \o MapsOff))

TunnelAttributesTest ==
       encapTtlPipeModeVxlanTest \o encapTtlPipeModeIpInIpTest
    \o encapTtlPipeModeIpv6InIpv6Test \o decapTtlPipeModeVxlanTest
    \o decapTtlPipeModeIpInIpTest \o decapTtlPipeModeIpv6InIpv6Test
    \o encapDscpUniformModeVxlanTest \o encapDscpUniformModeIpv4InIpv4Test
    \o encapDscpUniformModeIpv6InIpv6Test \o decapDscpUniformModeVxlanTest
    \o decapDscpUniformModeIpv4InIpv4Test \o decapDscpUniformModeIpv6InIpv6Test
    \o tunnelTermDstIpTest \o tunnelTermVrIdTest \o tunnelDualEncapMapperTest
    \o tunnelDualDecapMapperTest \o tunnelPeerModeTest

-----------------------------------------------------------------------------
(***************************************************************************)
(* TunnelTtlModeTest: the mode of a tunnel is changed and changed back.    *)
(***************************************************************************)
TtlSetUp    == SetUp
TtlTearDown == TearDown

Switched(mode, Sent(_)) ==
       Sent("UNIFORM") \o Set("tunnel", mode, "PIPE") \o Sent("PIPE")
    \o Set("tunnel", mode, "UNIFORM") \o Sent("UNIFORM")

UniformEncap == EncapTtl("UNIFORM", "20")

EncapSwitched(out, in, vni) ==
    Switched("ettl", LAMBDA m : Encap(out, in, vni, <<IF m = "PIPE" THEN "20" ELSE NULL, NULL, NULL>>))

DecapSwitched(out, in) ==
    Switched("dttl", LAMBDA m : Decap(out, in, <<IF m = "PIPE" THEN "inner" ELSE NULL, NULL, NULL>>))

EncapTtlIpInIp(out, in) ==
    IpInIpTest(IpInIp(out, in, P2P(out), NULL, UniformEncap), EncapSwitched(out, in, NULL), << >>)

DecapTtlIpInIp(out, in, term) ==
    IpInIpTest(IpInIp(out, in, term, NULL, DecapTtl("UNIFORM")), DecapSwitched(out, in), << >>)

encapTtlUniformModeVxlanTest ==
    VxlanTest(UniformEncap, EncapSwitched("", "", "vni"), << >>)

encapTtlUniformModeIpv4InIpv4Test == EncapTtlIpInIp("", "")
encapTtlUniformModeIpv4InIpv6Test == EncapTtlIpInIp("v6", "")
encapTtlUniformModeIpv6InIpv4Test == EncapTtlIpInIp("", "v6")
encapTtlUniformModeIpv6InIpv6Test == EncapTtlIpInIp("v6", "v6")

decapTtlUniformModeVxlanTest ==
    VxlanTest(DecapTtl("UNIFORM"), DecapSwitched("", ""), << >>)

decapTtlUniformModeIpv4InIpv4Test == DecapTtlIpInIp("", "", NoSrc(""))
decapTtlUniformModeIpv4InIpv6Test == DecapTtlIpInIp("v6", "", P2P("v6"))
decapTtlUniformModeIpv6InIpv4Test == DecapTtlIpInIp("", "v6", NoSrc(""))
decapTtlUniformModeIpv6InIpv6Test == DecapTtlIpInIp("v6", "v6", NoSrc("v6"))

TunnelTtlModeTest ==
       encapTtlUniformModeVxlanTest
    \o encapTtlUniformModeIpv4InIpv4Test \o encapTtlUniformModeIpv4InIpv6Test
    \o encapTtlUniformModeIpv6InIpv4Test \o encapTtlUniformModeIpv6InIpv6Test
    \o decapTtlUniformModeVxlanTest
    \o decapTtlUniformModeIpv4InIpv4Test \o decapTtlUniformModeIpv4InIpv6Test
    \o decapTtlUniformModeIpv6InIpv4Test \o decapTtlUniformModeIpv6InIpv6Test

(* TunnelQosModeTest *)
QosSetUp    == SetUp
QosTearDown == TearDown

encapDscpPipeModeVxlanTest      == EncapDscpVxlan("PIPE")
encapDscpPipeModeIpInIpTest     == EncapDscpIpInIp("", "PIPE")
encapDscpPipeModeIpv6InIpv6Test == EncapDscpIpInIp("v6", "PIPE")
decapDscpPipeModeVxlanTest      == DecapDscpVxlan("PIPE")
decapDscpPipeModeIpInIpTest     == DecapDscpIpInIp("", "PIPE")
decapDscpPipeModeIpv6InIpv6Test == DecapDscpIpInIp("v6", "PIPE")

TunnelQosModeTest ==
       encapDscpPipeModeVxlanTest \o encapDscpPipeModeIpInIpTest
    \o encapDscpPipeModeIpv6InIpv6Test \o decapDscpPipeModeVxlanTest
    \o decapDscpPipeModeIpInIpTest \o decapDscpPipeModeIpv6InIpv6Test

Suite == [attributes |-> Case(SetUp, TunnelAttributesTest, TearDown),
          ttl_modes  |-> Case(TtlSetUp, TunnelTtlModeTest, TtlTearDown),
          qos_modes  |-> Case(QosSetUp, TunnelQosModeTest, QosTearDown)]

=============================================================================
