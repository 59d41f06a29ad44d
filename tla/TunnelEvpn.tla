----------------------------- MODULE TunnelEvpn -----------------------------
(***************************************************************************)
(* src/ptf/saitunnel.py, VxLanEvpnTest: an EVPN prefix reached by a P2MP   *)
(* tunnel, and the P2P tunnel of the same peer as a member of a VLAN.      *)
(***************************************************************************)
EXTENDS PtfScript

Underlay ==
       New("urif_lpb", LoopRif("default_vrf"))
    \o New("uport1_my_route", Route("default_vrf", {"uport1_myip"}, NULL))
    \o New("uport1_prefix_route", Route("default_vrf", {"uport1_myip", "tun1_ip"}, "port10_rif"))
    \o New("unbor", HostNbor("port10_rif", "tun1_ip", "unbor1_mac"))
    \o New("unhop", Hop("port10_rif", "tun1_ip"))

(* a VLAN of the overlay: its interface, its own address and its broadcast *)
OverlayVlan(v, hosts) ==
       New(v \o "_evpn_rif", VlanRif("ovrf", v))
    \o New(v \o "_my_route", Route("ovrf", {v \o "_myip"}, NULL))
    \o New(v \o "_nbor_dir_br", HostNbor(v \o "_evpn_rif", v \o "_dir_br", "bcast_mac"))
    \o New(v \o "_prefix_route",
           Route("ovrf", {v \o "_myip", v \o "_dir_br"} \cup hosts, v \o "_evpn_rif"))

Customer ==
       New("customer1_fdb_entry", Fdb("vlan10", "customer1_mac", "port0_bp"))
    \o New("customer1_nbor", HostNbor("vlan10_evpn_rif", "customer1_ip", "customer1_mac"))
    \o New("customer1_nhop", Hop("vlan10_evpn_rif", "customer1_ip"))

SetUp ==
       Underlay \o New("ovrf", Vrf)
    \o OverlayVlan("vlan10", {"customer1_ip"}) \o OverlayVlan("vlan20", {})
    \o Customer

OverlayVlanOff(v) ==
    Del(<<v \o "_prefix_route", v \o "_nbor_dir_br", v \o "_my_route", v \o "_evpn_rif">>)

TearDown ==
       Flush \o Del(<<"customer1_nhop", "customer1_nbor">>)
    \o OverlayVlanOff("vlan10") \o OverlayVlanOff("vlan20")
    \o Del(<<"ovrf", "unhop", "unbor", "uport1_prefix_route", "uport1_my_route", "urif_lpb">>)

Mappers == [emaps |-> {"encap_map_vlan", "encap_map_vrf"},
            dmaps |-> {"decap_map_vlan", "decap_map_vrf"}]

EvpnTunnel == Tunnel("urif_lpb", Mappers.emaps, Mappers.dmaps)

Tunnels ==
       New("dummy_vlan", Vlan) \o New("dummy_vlan_rif", VlanRif("ovrf", "dummy_vlan"))
    \o New("decap_map_vlan", TunnelMap) \o New("encap_map_vlan", TunnelMap)
    \o New("decap_map_vrf", TunnelMap) \o New("encap_map_vrf", TunnelMap)
    \o New("tunnel0", EvpnTunnel)
    \o New("tunnel_term", Term("default_vrf", "tunnel0", "lpb_ip"))
    \o New("decap_entry_vlan", DecapVlan("decap_map_vlan", "dummy_vlan", "vni_for_ovrf"))
    \o New("encap_entry_vrf", EncapEntry("encap_map_vrf", "ovrf", "vni_for_ovrf"))
    \o New("decap_entry_vrf", DecapEntry("decap_map_vrf", "ovrf", "vni_for_ovrf"))
    \o New("tunnel1", EvpnTunnel @@ [peer |-> "tun1_ip"]) \o Checks(2)
    \o New("tun1_bp", TunnelBridgePort("tunnel1")) \o Checks(2)
    \o New("tun1_vlan_member", VlanMember("vlan10", "tun1_bp", "untagged")) \o Check

Prefix ==
       New("tunnel_nhop", TunHop("tunnel0", "tun1_ip", "inner_dmac", "vni_for_ovrf"))
    \o New("customer2_prefix_route", Route("ovrf", {"customer2_ip", "customer2_net"}, "tunnel_nhop"))

Traffic ==
       Expect([in |-> "port0", dst |-> "customer2_ip"],
              InTunnel({"port10"}, "unbor1_mac", <<"tun1_ip", "inner_dmac", "vni_for_ovrf">>))
    \o Expect([in |-> "port10", outer |-> "lpb_ip", from |-> "tun1_ip", vni |-> "vni_for_ovrf",
               dst |-> "customer1_ip"], Plain({"port0"}, "customer1_mac"))

(* what was made only if no call before it failed goes only if it is there *)
EvpnOff ==
       Del(<<"customer2_prefix_route", "tunnel_nhop">>)
    \o When("tun1_vlan_member", Del(<<"tun1_vlan_member">>))
    \o When("tun1_bp", Del(<<"tun1_bp">>))
    \o When("tunnel1", Del(<<"tunnel1">>))
    \o Del(<<"decap_entry_vrf", "encap_entry_vrf", "decap_entry_vlan", "tunnel_term", "tunnel0",
             "encap_map_vrf", "decap_map_vrf", "encap_map_vlan", "decap_map_vlan",
             "dummy_vlan_rif", "dummy_vlan">>)

vxLanL3EvpnPrefixTest == Try(Tunnels \o Prefix \o Traffic, EvpnOff)

Suite == [evpn |-> Case(SetUp, vxLanL3EvpnPrefixTest, TearDown)]

=============================================================================
