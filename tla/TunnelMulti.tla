---------------------------- MODULE TunnelMulti ----------------------------
(***************************************************************************)
(* src/ptf/saitunnel.py, VxlanMultiTunnelBase: two VXLAN tunnels that      *)
(* share their mappers, over one virtual router (two is FALSE) or one for  *)
(* each of the customers.  The v6 classes run the same programs.           *)
(***************************************************************************)
EXTENDS PtfScript

(* of a customer: its virtual router and its interface *)
Ovrf(two) == IF two THEN "ovrf2" ELSE "ovrf"
Orif(two) == IF two THEN "orif2" ELSE "orif"
Vni(two)  == IF two THEN "vni2" ELSE "vni1"

Underlay ==
    [uvrf1         |-> Vrf,
     uvrf2         |-> Vrf,
     urif1_lpb     |-> LoopRif("uvrf1"),
     urif2_lpb     |-> LoopRif("uvrf2"),
     urif1         |-> PortRif("uvrf1", "port26"),
     unhop1        |-> Hop("urif1", "tun1_ip"),
     unbor1        |-> Nbor("urif1", "tun1_ip", "unbor1_mac"),
     tunnel1_route |-> Route("uvrf1", {"tun1_ip"}, "unhop1"),
     urif2         |-> PortRif("uvrf2", "port27"),
     unhop2        |-> Hop("urif2", "tun2_ip"),
     unbor2        |-> Nbor("urif2", "tun2_ip", "unbor2_mac"),
     tunnel2_route |-> Route("uvrf2", {"tun2_ip"}, "unhop2")]

(* the decapsulation entries are put into the encapsulation map *)
Tunnels(two) ==
    [encap_map     |-> TunnelMap,
     decap_map     |-> TunnelMap,
     encap_mapent  |-> EncapEntry("encap_map", "ovrf", "vni1"),
     decap_mapent  |-> DecapEntry("encap_map", "ovrf", "vni1"),
     encap_mapent2 |-> EncapEntry("encap_map", "ovrf2", "vni2"),
     decap_mapent2 |-> DecapEntry("encap_map", "ovrf2", "vni2"),
     tunnel1       |-> Tunnel("urif1_lpb", {"encap_map"}, {"decap_map"}),
     tunnel2       |-> Tunnel("urif2_lpb", {"encap_map"}, {"decap_map"}),
     tunnel1_term  |-> Term("uvrf1", "tunnel1", "lpb1_ip"),
     tunnel2_term  |-> Term("uvrf2", "tunnel2", "lpb2_ip"),
     tunnel_nhop   |-> TunHop("tunnel1", "tun1_ip", NULL, "vni1"),
     vm1_route     |-> Route("ovrf", {"vm1_ip"}, "tunnel_nhop"),
     vm1_v6_route  |-> Route("ovrf", {"vm1_ipv6"}, "tunnel_nhop"),
     tunnel2_nhop  |-> TunHop("tunnel2", "tun2_ip", "inner_dmac", Vni(two)),
     vm2_route     |-> Route(Ovrf(two), {"vm2_ip"}, "tunnel2_nhop"),
     vm2_v6_route  |-> Route(Ovrf(two), {"vm2_ipv6"}, "tunnel2_nhop")]

Overlay(two) ==
    [ovrf               |-> Vrf,
     ovrf2              |-> Vrf,
     orif               |-> PortRif("ovrf", "port24"),
     orif2              |-> PortRif("ovrf2", "port25"),
     onhop1             |-> Hop("orif", "customer1_ip"),
     onbor1             |-> Nbor("orif", "customer1_ip", "vxlan_global_mac"),
     customer1_route    |-> Route("ovrf", {"customer1_ip"}, "onhop1"),
     onhop1_v6          |-> Hop("orif", "customer1_ipv6"),
     onbor1_v6          |-> Nbor("orif", "customer1_ipv6", "vxlan_global_mac"),
     customer1_v6_route |-> Route("ovrf", {"customer1_ipv6"}, "onhop1_v6"),
     onhop2             |-> Hop(Orif(two), "customer2_ip"),
     onbor2             |-> Nbor(Orif(two), "customer2_ip", "customer2_mac"),
     customer2_route    |-> Route(Ovrf(two), {"customer2_ip"}, "onhop2"),
     onhop2_v6          |-> Hop(Orif(two), "customer2_ipv6"),
     onbor2_v6          |-> Nbor(Orif(two), "customer2_ipv6", "customer2_mac"),
     customer2_v6_route |-> Route(Ovrf(two), {"customer2_ipv6"}, "onhop2_v6")]

Also(two, ns) == IF two THEN ns ELSE << >>

Order(two) ==
       <<"uvrf1", "uvrf2", "ovrf">> \o Also(two, <<"ovrf2">>)
    \o <<"orif">> \o Also(two, <<"orif2">>)
    \o <<"urif1_lpb", "urif2_lpb", "urif1", "unhop1", "unbor1", "tunnel1_route",
         "urif2", "unhop2", "unbor2", "tunnel2_route",
         "encap_map", "decap_map", "encap_mapent", "decap_mapent">>
    \o Also(two, <<"encap_mapent2", "decap_mapent2">>)
    \o <<"tunnel1", "tunnel2", "tunnel1_term", "tunnel2_term",
         "tunnel_nhop", "vm1_route", "vm1_v6_route", "tunnel2_nhop", "vm2_route", "vm2_v6_route",
         "onhop1", "onbor1", "customer1_route", "onhop1_v6", "onbor1_v6", "customer1_v6_route",
         "onhop2", "onbor2", "customer2_route", "onhop2_v6", "onbor2_v6", "customer2_v6_route">>

SetUp(two) == Make(Underlay @@ Tunnels(two) @@ Overlay(two), Order(two))

TearDown(two) ==
       Del(<<"customer2_v6_route", "onbor2_v6", "onhop2_v6", "customer2_route", "onbor2", "onhop2",
             "customer1_v6_route", "onbor1_v6", "onhop1_v6", "customer1_route", "onbor1", "onhop1",
             "vm2_v6_route", "vm2_route", "tunnel2_nhop", "vm1_v6_route", "vm1_route",
             "tunnel_nhop", "tunnel2_term", "tunnel1_term", "tunnel2", "tunnel1">>)
    \o Del(Also(two, <<"decap_mapent2", "encap_mapent2">>))
    \o Del(<<"decap_mapent", "encap_mapent", "decap_map", "encap_map",
             "tunnel2_route", "unbor2", "unhop2", "urif2",
             "tunnel1_route", "unbor1", "unhop1", "urif1", "urif2_lpb", "urif1_lpb">>)
    \o Del(Also(two, <<"orif2">>)) \o Del(<<"orif">>)
    \o Del(Also(two, <<"ovrf2">>)) \o Del(<<"ovrf", "uvrf2", "uvrf1">>)

(* each tunnel once in each direction; fam is "" or "v6", as in vm1_ipv6 *)
FirstTunnel(fam) ==
       Expect([in |-> "port24", dst |-> "vm1_ip" \o fam],
              InTunnel({"port26"}, "unbor1_mac", <<"tun1_ip", NULL, "vni1">>))
    \o Expect([in |-> "port26", outer |-> "lpb1_ip", from |-> "tun1_ip", vni |-> "vni1",
               dst |-> "customer1_ip" \o fam],
              Plain({"port24"}, "vxlan_global_mac"))

SecondTunnel(two, fam) ==
    LET oport2 == IF two THEN "port25" ELSE "port24" IN
       Expect([in |-> oport2, dst |-> "vm2_ip" \o fam],
              InTunnel({"port27"}, "unbor2_mac", <<"tun2_ip", "inner_dmac", Vni(two)>>))
    \o Expect([in |-> "port27", outer |-> "lpb2_ip", from |-> "tun2_ip", vni |-> Vni(two),
               dst |-> "customer2_ip" \o fam],
              Plain({oport2}, "customer2_mac"))

multipleTunnelIpv4Test(two) == FirstTunnel("") \o SecondTunnel(two, "")
multipleTunnelIpv6Test(two) == FirstTunnel("v6") \o SecondTunnel(two, "v6")

Run(two, body) == Case(SetUp(two), body, TearDown(two))

Test(two) == multipleTunnelIpv4Test(two) \o multipleTunnelIpv6Test(two)

Suite == [multi_ovrf  |-> Run(FALSE, Test(FALSE)),
          multi_ovrfs |-> Run(TRUE, Test(TRUE))]

=============================================================================
