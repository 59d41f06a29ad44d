----------------------------- MODULE TunnelP2Mp -----------------------------
(***************************************************************************)
(* src/ptf/saitunnel.py: IpInIpTunnelBase, one IP in IP tunnel to one      *)
(* peer, and VxLanP2MpTnnnelBase and IpInIpP2MpTunnelBase, one tunnel that *)
(* takes packets from three peers, each in a virtual router of its own.    *)
(* The v6 classes run the same programs.                                   *)
(***************************************************************************)
EXTENDS PtfScript

(* a customer behind the interface orif of ovrf; names end in i *)
CustomerOf(i, ovrf, orif) ==
    LET ip == "customer" \o i \o "_ip"  mac == "customer" \o i \o "_mac"
        hop == "onhop" \o i  nbor == "onbor" \o i  route == "customer" \o i
    IN     New(hop, Hop(orif, ip)) \o New(nbor, Nbor(orif, ip, mac))
        \o New(route \o "_route", Route(ovrf, {ip}, hop))
        \o New(hop \o "_v6", Hop(orif, ip \o "v6"))
        \o New(nbor \o "_v6", Nbor(orif, ip \o "v6", mac))
        \o New(route \o "_v6_route", Route(ovrf, {ip \o "v6"}, hop \o "_v6"))

CustomerOff(i) ==
    Del(<<"customer" \o i \o "_v6_route", "onbor" \o i \o "_v6", "onhop" \o i \o "_v6",
          "customer" \o i \o "_route", "onbor" \o i, "onhop" \o i>>)

VmRoutes == New("vm_route", Route("ovrf", {"vm_ip"}, "tunnel_nhop"))
              \o New("vm_v6_route", Route("ovrf", {"vm_ipv6"}, "tunnel_nhop"))

Overlay == VmRoutes \o New("orif", PortRif("ovrf", "port24")) \o CustomerOf("", "ovrf", "orif")

OverlayOff == CustomerOff("") \o Del(<<"orif", "vm_v6_route", "vm_route">>)

(* both tunnels keep the TTLs of the inner and the outer header apart *)
Pipe == [ettl |-> "PIPE", dttl |-> "PIPE"]

IntoTunnel(mac, ip, vni, fam) ==
    Expect([in |-> "port24", dst |-> "vm_ip" \o fam],
           Marked(InTunnel({"port25"}, mac, <<ip, "inner_dmac", vni>>), <<"default", NULL, NULL>>))

OutOfTunnel(port, outer, from, vni, dst, res) ==
    Expect([in |-> port, outer |-> outer, from |-> from, vni |-> vni, dst |-> dst],
           Marked(res, <<"inner", NULL, NULL>>))

Customer == Plain({"port24"}, "customer_mac")

-----------------------------------------------------------------------------
(* IpInIpTunnelBase *)
IpSetUp ==
       New("uvrf", Vrf) \o New("ovrf", Vrf)
    \o New("urif_lpb", LoopRif("uvrf")) \o New("orif_lpb", LoopRif("ovrf"))
    \o New("urif", PortRif("uvrf", "port25")) \o New("unhop", Hop("urif", "tun_ip"))
    \o New("unbor", Nbor("urif", "tun_ip", "unbor_mac"))
    \o New("tunnel_route", Route("uvrf", {"tun_ip"}, "unhop"))
    \o New("tunnel", IpTunnel("urif_lpb", "orif_lpb") @@ Pipe)
    \o New("tunnel_term", TermP2P("uvrf", "tunnel", "lpb_ip", "tun_ip"))
    \o New("tunnel_nhop", TunHop("tunnel", "tun_ip", "inner_dmac", NULL))
    \o Overlay

IpTearDown ==
       OverlayOff
    \o Del(<<"tunnel_nhop", "tunnel_term", "tunnel", "tunnel_route", "unbor", "unhop",
             "urif", "orif_lpb", "urif_lpb", "ovrf", "uvrf">>)

InnerIpTest(fam) ==
       IntoTunnel("unbor_mac", "tun_ip", NULL, fam)
    \o OutOfTunnel("port25", "lpb_ip", "tun_ip", NULL, "customer_ip" \o fam, Customer)

innerIpv4TunnelTest == InnerIpTest("")
innerIpv6TunnelTest == InnerIpTest("v6")

(* the tunnel is point to point: another source is not its peer *)
tunnelTermSrcIpTest ==
    Expect([in |-> "port25", outer |-> "lpb_ip", from |-> "test_src_ip", vni |-> NULL,
            dst |-> "customer_ip"], Nothing)

-----------------------------------------------------------------------------
(* The three peers.  The neighbor of the third is put on the first's interface. *)
Peer(i, port, on) ==
    LET vr == "uvrf" \o i  rif == "urif" \o i  ip == "tun_ip" \o i
    IN     New(rif, PortRif(vr, port)) \o New("unhop" \o i, Hop(rif, ip))
        \o New("unbor" \o i, Nbor(on, ip, "unbor_mac" \o i))
        \o New("tunnel_route" \o i, Route(vr, {ip}, "unhop" \o i))

PeerOff(i) == Del(<<"tunnel_route" \o i, "unbor" \o i, "unhop" \o i, "urif" \o i>>)

Vrfs == New("uvrf1", Vrf) \o New("uvrf2", Vrf) \o New("uvrf3", Vrf) \o New("ovrf", Vrf)
          \o New("urif_lpb", LoopRif("uvrf1"))

VrfsOff == Del(<<"urif_lpb", "ovrf", "uvrf3", "uvrf2", "uvrf1">>)

Peers    == Peer("1", "port25", "urif1") \o Peer("2", "port26", "urif2")
              \o Peer("3", "port27", "urif1")
PeersOff == PeerOff("3") \o PeerOff("2") \o PeerOff("1")

Ends(vni) ==
       For(<<"1", "2", "3">>, LAMBDA i :
           New("tunnel_term" \o i,
               Term("uvrf" \o i, "tunnel", "lpb_ip" \o i)))
    \o New("tunnel_nhop", TunHop("tunnel", "tun_ip1", "inner_dmac", vni))

EndsOff == Del(<<"tunnel_nhop", "tunnel_term3", "tunnel_term2", "tunnel_term1", "tunnel">>)

(* into the tunnel to the first peer, and out of it from each of them *)
FromPeers(vni, fam) ==
    LET from(port, i) == OutOfTunnel(port, "lpb_ip" \o i, "tun_ip" \o i, vni,
                                     "customer_ip" \o fam, Customer)
    IN from("port25", "1") \o from("port26", "2") \o from("port27", "3")

AllPeers(vni, fam) == IntoTunnel("unbor_mac1", "tun_ip1", vni, fam) \o FromPeers(vni, fam)

-----------------------------------------------------------------------------
(***************************************************************************)
(* VxLanP2MpTnnnelBase: both entries are put into the encapsulation map.   *)
(* The decapsulation entries of the second and the third customer give the *)
(* VRF as the key and the VNI as the value; the entry relates the two.     *)
(***************************************************************************)
MapEntries(ovrf, vni, i) ==
       New("encap_tunnel_map_entry" \o i, EncapEntry("encap_tunnel_map", ovrf, vni))
    \o New("decap_tunnel_map_entry" \o i, DecapEntry("encap_tunnel_map", ovrf, vni))

EntriesOff(i) == Del(<<"decap_tunnel_map_entry" \o i, "encap_tunnel_map_entry" \o i>>)

VxlanTunnel ==
       New("encap_tunnel_map", TunnelMap) \o New("decap_tunnel_map", TunnelMap)
    \o MapEntries("ovrf", "vni", "")
    \o New("tunnel", Tunnel("urif_lpb", {"encap_tunnel_map"}, {"decap_tunnel_map"}) @@ Pipe)

VxSetUp == Vrfs \o Peers \o VxlanTunnel \o Ends("vni") \o Overlay

VxTearDown ==
       OverlayOff \o EndsOff \o EntriesOff("") \o Del(<<"decap_tunnel_map", "encap_tunnel_map">>)
    \o PeersOff \o VrfsOff

vxLanP2MpSingleIpv4OvrfTunnelTest == AllPeers("vni", "")
vxLanP2MpSingleIpv6OvrfTunnelTest == AllPeers("vni", "v6")

(* the packets of one peer for one customer *)
Data(i, uport, vni, c, oport) ==
    [i |-> i, uport |-> uport, vni |-> vni, customer |-> c, oport |-> oport]

DataOf == <<Data("1", "port25", "vni", "", "port24"), Data("2", "port26", "vni2", "2", "port28"),
            Data("3", "port27", "vni3", "3", "port29")>>

Decapsulated(d, fam, res) ==
    OutOfTunnel(d.uport, "lpb_ip" \o d.i, "tun_ip" \o d.i, d.vni,
                "customer" \o d.customer \o "_ip" \o fam, res)

MultipleOvrf(data, fam) ==
       IntoTunnel("unbor_mac1", "tun_ip1", "vni", fam)
    \o For(data, LAMBDA d : Decapsulated(d, fam,
                                 Plain({d.oport}, "customer" \o d.customer \o "_mac")))

vxLanP2MpMultipleIpv4OvrfTunnelTest(data) == MultipleOvrf(data, "")
vxLanP2MpMultipleIpv6OvrfTunnelTest(data) == MultipleOvrf(data, "v6")

Both(data) == vxLanP2MpMultipleIpv4OvrfTunnelTest(data)
                \o vxLanP2MpMultipleIpv6OvrfTunnelTest(data)

noMapperEntryMultipleOvrfTunnelTest(d) ==
    Expect([in |-> d.uport, outer |-> "lpb_ip" \o d.i, from |-> "tun_ip" \o d.i,
            vni |-> d.vni, dst |-> "customer" \o d.customer \o "_ip"], Nothing)

OvrfsOf ==
       New("ovrf2", Vrf) \o New("ovrf3", Vrf)
    \o New("orif2", PortRif("ovrf2", "port28")) \o New("orif3", PortRif("ovrf3", "port29"))
    \o MapEntries("ovrf2", "vni2", "2")
    \o CustomerOf("2", "ovrf2", "orif2") \o CustomerOf("3", "ovrf3", "orif3")

OvrfsOff ==
       CustomerOff("3") \o CustomerOff("2") \o EntriesOff("2")
    \o Del(<<"orif3", "orif2", "ovrf3", "ovrf2">>)

(* the third pair of entries comes and goes in the try block *)
ThirdEntries ==
       MapEntries("ovrf3", "vni3", "3") \o Both(DataOf) \o EntriesOff("3")
    \o Both(SubSeq(DataOf, 1, 2)) \o noMapperEntryMultipleOvrfTunnelTest(DataOf[3])

vxLanP2MpMultipleOvrfTunnelTest ==
    Method(Assigned(VxSetUp),
           Try(OvrfsOf \o Both(SubSeq(DataOf, 1, 2)) \o ThirdEntries, OvrfsOff))

-----------------------------------------------------------------------------
(* IpInIpP2MpTunnelBase *)
IpP2MpSetUp ==
       Vrfs \o New("orif_lpb", LoopRif("ovrf")) \o Peers
    \o New("tunnel", IpTunnel("urif_lpb", "orif_lpb") @@ Pipe) \o Ends(NULL) \o Overlay

IpP2MpTearDown == OverlayOff \o EndsOff \o PeersOff \o Del(<<"orif_lpb">>) \o VrfsOff

innerIpv4P2MpTunnelTest == AllPeers(NULL, "")
innerIpv6P2MpTunnelTest == AllPeers(NULL, "v6")

-----------------------------------------------------------------------------
Suite ==
    [ipinip      |-> Case(IpSetUp, innerIpv4TunnelTest \o innerIpv6TunnelTest
                                     \o tunnelTermSrcIpTest, IpTearDown),
     vxlan_p2mp  |-> Case(VxSetUp, vxLanP2MpSingleIpv4OvrfTunnelTest
                                     \o vxLanP2MpSingleIpv6OvrfTunnelTest
                                     \o vxLanP2MpMultipleOvrfTunnelTest, VxTearDown),
     ipinip_p2mp |-> Case(IpP2MpSetUp, innerIpv4P2MpTunnelTest \o innerIpv6P2MpTunnelTest,
                          IpP2MpTearDown)]

=============================================================================
