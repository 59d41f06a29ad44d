----------------------------- MODULE TunnelRifs -----------------------------
(***************************************************************************)
(* src/ptf/saitunnel.py, VxLanRifsConfigBaseSetup and the four classes     *)
(* over it: one VXLAN tunnel between every kind of overlay interface and   *)
(* every kind of underlay interface (port, sub port, LAG, VLAN), and ECMP  *)
(* groups of them.  The v6 classes run the same programs.                  *)
(*                                                                         *)
(* The switch learns: the tests send from the hosts of a VLAN first.       *)
(***************************************************************************)
EXTENDS PtfScript

(***************************************************************************)
(* An interface: the script that makes what it is on, the router           *)
(* interface, its VLAN tag, its bridge ports when it is on a VLAN, and the *)
(* hosts (or peers) behind it, each with the ports that lead there.        *)
(***************************************************************************)
Behind(id, ports) == [id |-> id, ports |-> ports]

Interface(id, pre, rif, tag, bps, groups) ==
    [id |-> id, pre |-> pre, rif |-> rif, tag |-> tag, bps |-> bps, groups |-> groups]

LagOn(l, ps) == New(l, Lag) \o New(l \o "_member1", LagMember(l, ps[1]))
                            \o New(l \o "_member2", LagMember(l, ps[2]))
LagOff(l)    == Del(<<l \o "_member2", l \o "_member1", l>>)

L3Port(id, vr, p) ==
    Interface(id, << >>, PortRif(vr, p), << >>, << >>, <<Behind(id, <<p>>)>>)

SubPort(id, vr, p) ==
    LET vid == "vlan_no" \o id
    IN  Interface(id, << >>, SubRif(vr, p, vid), [vid |-> vid], << >>, <<Behind(id, <<p>>)>>)

L3Lag(id, vr, l, ps) ==
    Interface(id, LagOn(l, ps), PortRif(vr, l), << >>, << >>, <<Behind(id, ps)>>)

(* an untagged and a tagged port, an untagged and a tagged LAG; s is "o" or "u" *)
BridgePorts(s) == <<s \o "port_bp1", s \o "port_bp2", s \o "lag2_bp", s \o "lag3_bp">>

SviOn(s, ps) ==
    LET under == <<ps[1][1], ps[2][1], s \o "lag2", s \o "lag3">>
        bps   == BridgePorts(s)
        vlan  == s \o "vlan"
        member(i, tag) == New(vlan \o "_member" \o ToString(i), VlanMember(vlan, bps[i], tag))
    IN     LagOn(under[3], ps[3]) \o LagOn(under[4], ps[4])
        \o Upto(4, LAMBDA i : New(bps[i], BridgePort(under[i])))
        \o New(vlan, Vlan)
        \o member(1, "untagged") \o Set(under[1], "pvid", vlan) \o member(2, "tagged")
        \o member(3, "untagged") \o Set(under[3], "pvid", vlan) \o member(4, "tagged")

Svi(id, vr, s, ps) ==
    Interface(id, SviOn(s, ps), VlanRif(vr, s \o "vlan"), << >>, BridgePorts(s),
              [j \in 1..4 |-> Behind(id \o ToString(j), ps[j])])

(* the members of the VLAN and its LAGs; bps is the order of the bridge ports *)
ReverseBridgePorts(s) == Reverse(BridgePorts(s))
LagsFirst(s) == <<s \o "lag3_bp", s \o "lag2_bp", s \o "port_bp1", s \o "port_bp2">>

SviOff(s, members, bps) ==
       members \o Del(<<s \o "vlan">>) \o Del(bps)
    \o LagOff(s \o "lag3") \o LagOff(s \o "lag2") \o LagOff(s \o "lag1")

OverlayMembersOff(port) ==
       Del(<<"ovlan_member4">>) \o Reset("olag2", "pvid")
    \o Del(<<"ovlan_member3", "ovlan_member2">>) \o Reset(port, "pvid")
    \o Del(<<"ovlan_member1">>)

UnderlayMembersOff(port) ==
       Del(<<"uvlan_member4">>) \o Reset("ulag2", "pvid") \o Del(<<"uvlan_member3">>)
    \o Reset(port, "pvid") \o Del(<<"uvlan_member2", "uvlan_member1">>)

-----------------------------------------------------------------------------
(* VxLanRifsConfigBaseSetup *)
SetUp ==
       New("ovrf", Vrf) \o New("uvrf", Vrf) \o New("urif_lpb", LoopRif("uvrf"))
    \o New("encap_tunnel_map", TunnelMap) \o New("decap_tunnel_map", TunnelMap)
    \o New("encap_map_entry", EncapEntry("encap_tunnel_map", "ovrf", "vni"))
    \o New("decap_map_entry", DecapEntry("decap_tunnel_map", "ovrf", "vni"))
    \o New("tunnel", Tunnel("urif_lpb", {"encap_tunnel_map"}, {"decap_tunnel_map"})
                       @@ [ettl |-> "PIPE", dttl |-> "PIPE"])
    \o New("tunnel_term", Term("uvrf", "tunnel", "lpb_ip"))
    \o New("tunnel_nhop", TunHop("tunnel", "tun_ip", "inner_dmac", "vni"))

TearDown == Del(<<"tunnel_nhop", "tunnel_term", "tunnel", "decap_map_entry", "encap_map_entry",
                  "decap_tunnel_map", "encap_tunnel_map", "urif_lpb", "uvrf", "ovrf">>)

Fams == <<"", "v6">>

(* names of an address and of objects by what is behind an interface *)
Ip(kind, g, fam) == kind \o g.id \o "_ip" \o fam
Mac(kind, g)     == kind \o g.id \o "_mac"
By(kind, g)      == kind \o g.id
Behinds(is)      == For(is, LAMBDA i : i.groups)
All(kind, gs)    == [k \in DOMAIN gs |-> By(kind, gs[k])]

(* the static FDB entries of the bridge ports of a VLAN *)
FdbEntries(i, kind) ==
    Upto(Len(i.bps), LAMBDA k :
        New(By("fdb_" \o kind, i.groups[k]), Fdb(i.rif.vlan, Mac(kind, i.groups[k]), i.bps[k])))

HostOn(rif, g, fam) ==
       New(By("onhop", g) \o fam, Hop(rif, Ip("customer", g, fam)))
    \o New(By("onbor", g) \o fam, Nbor(rif, Ip("customer", g, fam), Mac("customer", g)))
    \o New(By("customer_route", g) \o fam,
           Route("ovrf", {Ip("customer", g, fam)}, By("onhop", g) \o fam))

configureOrif(i) ==
       FdbEntries(i, "customer") \o New(By("orif", i), i.rif)
    \o For(i.groups, LAMBDA g : For(Fams, LAMBDA f : HostOn(By("orif", i), g, f)))

VmRoutes(g, nh) ==
    For(Fams, LAMBDA f : New(By("vm_route", g) \o f, Route("ovrf", {Ip("vm", g, f)}, nh)))

configureUrif(i, vm_route, tunnel_route) ==
    LET peer(g) ==
               New(By("unhop", g), Hop(By("urif", i), Ip("tun", g, "")))
            \o New(By("unbor", g), Nbor(By("urif", i), Ip("tun", g, ""), Mac("unbor", g)))
            \o (IF ~vm_route THEN << >>
                ELSE New(By("tunnel_nhop", g), TunHop("tunnel", Ip("tun", g, ""), "inner_dmac", "vni"))
                       \o VmRoutes(g, By("tunnel_nhop", g)))
            \o (IF ~tunnel_route THEN << >>
                ELSE New(By("tunnel_term", g), Term("uvrf", "tunnel", Ip("lpb", g, "")))
                       \o New(By("tunnel_route", g),
                              Route("uvrf", {Ip("tun", g, "")}, By("unhop", g))))
    IN  FdbEntries(i, "unbor") \o New(By("urif", i), i.rif) \o For(i.groups, peer)

(* the customer has no number; the tunnel next hops are members of one group *)
Alone == [id |-> ""]

configureOverlayEcmp(port, gs) ==
       New("orif", PortRif("ovrf", port)) \o For(Fams, LAMBDA f : HostOn("orif", Alone, f))
    \o For(gs, LAMBDA g :
              New(By("tunnel_nhop", g), TunHop("tunnel", Ip("tun", g, ""), "inner_dmac", "vni"))
           \o New(By("ecmp_member", g), Member("tunnel_ecmp", By("tunnel_nhop", g))))
    \o VmRoutes(Alone, "tunnel_ecmp")

-----------------------------------------------------------------------------
(***************************************************************************)
(* The packets.  A verify_any_packet_any_port takes any of the packets on  *)
(* any of the ports.                                                       *)
(***************************************************************************)
Header(g) == <<Ip("tun", g, ""), "inner_dmac", "vni">>

AnyOf(macs, headers, ports) ==
    {Result({p}, m, h, <<"default", NULL, NULL>>) : p \in ports, m \in macs, h \in headers}

PortsOf(gs) == UNION {ToSet(gs[k].ports) : k \in DOMAIN gs}

EncapFrom(i, p, dst, out) == Expect([in |-> p, dst |-> dst] @@ i.tag, out)

v4EncapTest(i, p, g) ==
    EncapFrom(i, p, Ip("vm", g, ""), AnyOf({Mac("unbor", g)}, {Header(g)}, ToSet(g.ports)))
v6EncapTest(i, p, g) ==
    EncapFrom(i, p, Ip("vm", g, "v6"), AnyOf({Mac("unbor", g)}, {Header(g)}, ToSet(g.ports)))

DecapTo(u, p, from, c, fam) ==
    Expect([in |-> p, outer |-> "lpb_ip", from |-> Ip("tun", from, ""), vni |-> "vni",
            dst |-> Ip("customer", c, fam)] @@ u.tag,
           Marked(Plain(ToSet(c.ports), Mac("customer", c)), <<"inner", NULL, NULL>>))

v4DecapTest(u, p, from, c) == DecapTo(u, p, from, c, "")
v6DecapTest(u, p, from, c) == DecapTo(u, p, from, c, "v6")

(* F for each port of each host of the interface, which is learned in a VLAN *)
FromEach(i, F(_, _)) ==
    Upto(Len(i.groups), LAMBDA k :
        LET g == i.groups[k]
        IN  For(g.ports, LAMBDA p :
                (IF i.bps = << >> THEN << >>
                 ELSE Learn(i.rif.vlan, Mac("customer", g), i.bps[k])) \o F(p, g)))

verifyEncap(o, u) ==
    FromEach(o, LAMBDA p, c :
        For(u.groups, LAMBDA g : v4EncapTest(o, p, g) \o v6EncapTest(o, p, g)))

verifyDecap(o, u) ==
    For(u.groups, LAMBDA from : For(from.ports, LAMBDA p :
        For(o.groups, LAMBDA c : v4DecapTest(u, p, from, c) \o v6DecapTest(u, p, from, c))))

(* to each of the hosts behind the ECMP group gs *)
EcmpEncap(o, p, gs, fam) ==
    For(gs, LAMBDA g : EncapFrom(o, p, Ip("vm", g, fam),
        AnyOf({Mac("unbor", gs[k]) : k \in DOMAIN gs}, {Header(g)}, PortsOf(gs))))

v4EcmpEncapTest(o, p, gs) == EcmpEncap(o, p, gs, "")
v6EcmpEncapTest(o, p, gs) == EcmpEncap(o, p, gs, "v6")

(* to the one host, through one of the tunnels *)
OverlayEcmp(o, p, gs, fam) ==
    EncapFrom(o, p, Ip("vm", Alone, fam),
              UNION {AnyOf({Mac("unbor", gs[k])}, {Header(gs[k])}, PortsOf(gs)) : k \in DOMAIN gs})

v4OverlayEcmpEncapTest(o, p, gs) == OverlayEcmp(o, p, gs, "")
v6OverlayEcmpEncapTest(o, p, gs) == OverlayEcmp(o, p, gs, "v6")

(* to the one host, in any of the tunnels, to any of the members us of the other group *)
BothEcmp(o, p, gs, fam) ==
    EncapFrom(o, p, Ip("vm", Alone, fam),
              AnyOf({Mac("unbor", gs[k]) : k \in DOMAIN gs}, {Header(gs[k]) : k \in DOMAIN gs},
                    PortsOf(gs)))

v4BothEcmpEncapTest(o, p, gs) == BothEcmp(o, p, gs, "")
v6BothEcmpEncapTest(o, p, gs) == BothEcmp(o, p, gs, "v6")

verifyEcmpEncap(o, gs, mode) ==
    FromEach(o, LAMBDA p, c :
        CASE mode = "overlay" -> v4OverlayEcmpEncapTest(o, p, gs) \o v6OverlayEcmpEncapTest(o, p, gs)
          [] mode = "both"    -> v4BothEcmpEncapTest(o, p, gs) \o v6BothEcmpEncapTest(o, p, gs)
          [] OTHER            -> v4EcmpEncapTest(o, p, gs) \o v6EcmpEncapTest(o, p, gs))

UnderlayGroup(gs) ==
       New("uecmp", Group)
    \o For(gs, LAMBDA g : New(By("uecmp_member", g), Member("uecmp", By("unhop", g))))
    \o New("tunnel_route", Route("uvrf", {Ip("tun", gs[k], "") : k \in DOMAIN gs} \cup {"tun_net"},
                                 "uecmp"))

(* a member chosen at random is removed and, after some checks, there again *)
addDelEcmpMemberTest(o, gs) ==
    OneOf([k \in DOMAIN gs |->
              Del(<<By("uecmp_member", gs[k])>>) \o verifyEcmpEncap(o, RemoveAt(gs, k), "")
           \o New(By("uecmp_member", gs[k]), Member("uecmp", By("unhop", gs[k])))
           \o verifyEcmpEncap(o, gs, "")])

(* packets from one host to one chosen at random, and how many went where *)
loadBalancingTest(o, gs) ==
    OneOf([k \in DOMAIN gs |->
              EncapFrom(o, o.groups[1].ports[1], Ip("vm", gs[k], ""),
                        AnyOf({Mac("unbor", gs[j]) : j \in DOMAIN gs}, {Header(gs[k])}, PortsOf(gs)))])
    \o Check

-----------------------------------------------------------------------------
(***************************************************************************)
(* The classes whose overlay has an interface of each kind.                *)
(***************************************************************************)
PortPairs(ps) == <<<<ps[1]>>, <<ps[2]>>, <<ps[3], ps[4]>>, <<ps[5], ps[6]>>>>

OPorts ==
    <<L3Port("1", "ovrf", "port0"), SubPort("2", "ovrf", "port1"),
      L3Lag("3", "ovrf", "olag1", <<"port2", "port3">>),
      Svi("4", "ovrf", "o", PortPairs(<<"port4", "port5", "port6", "port7", "port8", "port9">>))>>

OSetUp == SetUp \o For(OPorts, LAMBDA o : o.pre \o configureOrif(o))

OTearDown ==
       Flush
    \o For(Behinds(OPorts), LAMBDA g : For(Fams, LAMBDA f :
           Del(<<By("customer_route", g) \o f, By("onbor", g) \o f, By("onhop", g) \o f>>)))
    \o Del(All("orif", OPorts))
    \o SviOff("o", OverlayMembersOff("port4"), ReverseBridgePorts("o")) \o TearDown

OCall(s) == Method(Assigned(OSetUp), s)

UPorts ==
    <<L3Port("1", "uvrf", "port10"), SubPort("2", "uvrf", "port11"),
      L3Lag("3", "uvrf", "ulag1", <<"port12", "port13">>),
      Svi("4", "uvrf", "u", PortPairs(<<"port14", "port15", "port16", "port17", "port18", "port19">>))>>

Urifs(us, vm_route, tunnel_route) ==
    For(us, LAMBDA u : u.pre \o configureUrif(u, vm_route, tunnel_route))

VmRoutesOff(gs) == For(gs, LAMBDA g : For(Fams, LAMBDA f : Del(<<By("vm_route", g) \o f>>)))

UrifsOff(us, port, bps) == Del(All("urif", us)) \o SviOff("u", UnderlayMembersOff(port), bps)

PortsToPortsUp  == Urifs(Front(UPorts), TRUE, TRUE)
PortsToPortsSvi == Urifs(<<Last(UPorts)>>, TRUE, TRUE)

PortsToPortsOff ==
       Flush \o VmRoutesOff(Behinds(UPorts))
    \o For(Behinds(UPorts), LAMBDA g :
           Del(<<By("tunnel_route", g), By("tunnel_term", g), By("tunnel_nhop", g),
                 By("unbor", g), By("unhop", g)>>))
    \o UrifsOff(UPorts, "port14", ReverseBridgePorts("u"))

PortsToPortsChecks ==
    For(OPorts, LAMBDA o : For(UPorts, LAMBDA u : verifyEncap(o, u) \o verifyDecap(o, u)))

portsToPortsConfigTest ==
    OCall(Try(PortsToPortsUp \o PortsToPortsSvi \o PortsToPortsChecks, PortsToPortsOff))

(***************************************************************************)
(* The lists of portsToEcmpConfigTest are walked together: while a member  *)
(* is gone, it is gone from its list, and what comes last in the others is *)
(* not reached.                                                            *)
(***************************************************************************)
WalkTogether(members, gs) ==
    Upto(Len(members), LAMBDA k :
        Del(<<By("uecmp_member", members[k]), By("tunnel_nhop", gs[k]), By("unbor", gs[k]),
              By("unhop", gs[k])>>))

MembersOff(gs) ==
    LET from[k \in 1..(Len(gs) + 1)] ==
            IF k > Len(gs) THEN WalkTogether(gs, gs)
            ELSE IfElse(By("uecmp_member", gs[k]), from[k + 1], WalkTogether(RemoveAt(gs, k), gs))
    IN  from[1]

PortsToEcmpUp  == Urifs(Front(UPorts), TRUE, FALSE)
PortsToEcmpSvi == Urifs(<<Last(UPorts)>>, TRUE, FALSE) \o UnderlayGroup(Behinds(UPorts))

PortsToEcmpOff ==
       Flush \o Del(<<"tunnel_route">>) \o VmRoutesOff(Behinds(UPorts))
    \o MembersOff(Behinds(UPorts)) \o Del(<<"uecmp">>)
    \o UrifsOff(UPorts, "port14", ReverseBridgePorts("u"))

PortsToEcmpChecks ==
    LET gs == Behinds(UPorts) IN
       For(OPorts, LAMBDA o :
           verifyEcmpEncap(o, gs, "") \o For(UPorts, LAMBDA u : verifyDecap(o, u)))
    \o OneOf([k \in DOMAIN OPorts |-> addDelEcmpMemberTest(OPorts[k], gs)])
    \o loadBalancingTest(OPorts[1], gs)

portsToEcmpConfigTest ==
    OCall(Try(PortsToEcmpUp \o PortsToEcmpSvi \o PortsToEcmpChecks, PortsToEcmpOff))

EPorts == <<L3Port("1", "uvrf", "port10"), L3Port("2", "uvrf", "port11"), L3Port("3", "uvrf", "port12")>>

PPorts ==
    <<SubPort("4", "uvrf", "port13"), L3Lag("5", "uvrf", "ulag1", <<"port14", "port15">>),
      Svi("6", "uvrf", "u", PortPairs(<<"port16", "port17", "port18", "port19", "port20", "port21">>))>>

(* es are the interfaces of the ECMP group, ps the others; Hops(g) is removed too *)
PortsEcmpOff(es, ps, port, vm, Hops(_)) ==
       Flush \o Del(<<"tunnel_route">> \o All("tunnel_route", Behinds(ps)))
    \o Del(All("tunnel_term", Behinds(ps)))
    \o For(es, LAMBDA e : When(By("uecmp_member", e), Del(<<By("uecmp_member", e)>>)))
    \o Del(<<"uecmp">>) \o vm
    \o For(Behinds(es \o ps), LAMBDA g : Del(Hops(g) \o <<By("unbor", g), By("unhop", g)>>))
    \o UrifsOff(es \o ps, port, LagsFirst("u"))

PortsToPortsEcmpUp ==
    Urifs(EPorts, TRUE, FALSE) \o UnderlayGroup(Behinds(EPorts)) \o Urifs(Front(PPorts), TRUE, TRUE)

PortsToPortsEcmpSvi == Urifs(<<Last(PPorts)>>, TRUE, TRUE)

PortsToPortsEcmpOff ==
    PortsEcmpOff(EPorts, PPorts, "port16", VmRoutesOff(Behinds(EPorts \o PPorts)),
                 LAMBDA g : <<By("tunnel_nhop", g)>>)

PortsToPortsEcmpChecks ==
    LET gs == Behinds(EPorts) IN
       For(OPorts, LAMBDA o :
              For(PPorts, LAMBDA u : verifyEncap(o, u) \o verifyDecap(o, u))
           \o verifyEcmpEncap(o, gs, "")
           \o For(EPorts, LAMBDA u : verifyDecap(o, u)))
    \o OneOf([k \in DOMAIN OPorts |-> addDelEcmpMemberTest(OPorts[k], gs)])

portsToPortsEcmpConfigTest ==
    OCall(Try(PortsToPortsEcmpUp \o PortsToPortsEcmpSvi \o PortsToPortsEcmpChecks,
              PortsToPortsEcmpOff))

-----------------------------------------------------------------------------
(***************************************************************************)
(* The classes whose overlay is one port and an ECMP group of tunnels.     *)
(***************************************************************************)
ESetUp    == SetUp \o New("tunnel_ecmp", Group)
ETearDown == Del(<<"tunnel_ecmp">>) \o TearDown

ECall(s) == Method(Assigned(ESetUp), s)

OPort == [L3Port("", "ovrf", "port0") EXCEPT !.groups = <<Behind("", <<"port0">>)>>]

UPortsE ==
    <<L3Port("1", "uvrf", "port1"), SubPort("2", "uvrf", "port2"),
      L3Lag("3", "uvrf", "ulag1", <<"port3", "port4">>),
      Svi("4", "uvrf", "u", PortPairs(<<"port5", "port6", "port7", "port8", "port9", "port10">>))>>

OverlayEcmpOff(gs) ==
       For(Fams, LAMBDA f : Del(<<"vm_route" \o f, "customer_route" \o f, "onbor" \o f, "onhop" \o f>>))
    \o Del(<<"orif">>)
    \o For(gs, LAMBDA g : Del(<<By("ecmp_member", g), By("tunnel_nhop", g)>>))

EcmpChecks(us, mode) ==
    verifyEcmpEncap(OPort, Behinds(us), mode) \o For(us, LAMBDA u : verifyDecap(OPort, u))

EcmpToPortsUp ==
    configureOverlayEcmp("port0", Behinds(UPortsE)) \o Urifs(Front(UPortsE), FALSE, TRUE)

EcmpToPortsSvi == Urifs(<<Last(UPortsE)>>, FALSE, TRUE)

EcmpToPortsOff ==
       Flush
    \o For(Behinds(UPortsE), LAMBDA g :
           Del(<<By("tunnel_route", g), By("tunnel_term", g), By("unbor", g), By("unhop", g)>>))
    \o UrifsOff(UPortsE, "port5", ReverseBridgePorts("u"))

(* what configureOverlayEcmp made is taken down only when all checks passed *)
ecmpToPortsConfigTest ==
    ECall(Try(EcmpToPortsUp \o EcmpToPortsSvi \o EcmpChecks(UPortsE, "overlay"), EcmpToPortsOff)
            \o OverlayEcmpOff(Behinds(UPortsE)))

EcmpToEcmpUp ==
    configureOverlayEcmp("port0", Behinds(UPortsE)) \o Urifs(Front(UPortsE), FALSE, FALSE)

EcmpToEcmpSvi == Urifs(<<Last(UPortsE)>>, FALSE, FALSE) \o UnderlayGroup(Behinds(UPortsE))

EcmpToEcmpOff ==
    LET gs == Behinds(UPortsE) IN
       Flush \o Del(<<"tunnel_route">>)
    \o For(gs, LAMBDA g : Del(<<By("uecmp_member", g), By("unbor", g), By("unhop", g)>>))
    \o Del(<<"uecmp">>)
    \o UrifsOff(UPortsE, "port5", ReverseBridgePorts("u")) \o OverlayEcmpOff(gs)

ecmpToEcmpConfigTest ==
    ECall(Try(EcmpToEcmpUp \o EcmpToEcmpSvi \o EcmpChecks(UPortsE, "both"), EcmpToEcmpOff))

EPortsE == <<L3Port("1", "uvrf", "port1"), L3Port("2", "uvrf", "port2"), L3Port("3", "uvrf", "port3")>>

PPortsE ==
    <<SubPort("4", "uvrf", "port4"), L3Lag("5", "uvrf", "ulag1", <<"port5", "port6">>),
      Svi("6", "uvrf", "u", PortPairs(<<"port7", "port8", "port9", "port10", "port11", "port12">>))>>

EcmpToPortsEcmpUp ==
       configureOverlayEcmp("port0", Behinds(EPortsE \o PPortsE)) \o Urifs(EPortsE, FALSE, FALSE)
    \o UnderlayGroup(Behinds(EPortsE)) \o Urifs(Front(PPortsE), FALSE, TRUE)

EcmpToPortsEcmpSvi == Urifs(<<Last(PPortsE)>>, FALSE, TRUE)

EcmpToPortsEcmpOff ==
    PortsEcmpOff(EPortsE, PPortsE, "port7", << >>, LAMBDA g : << >>)
      \o OverlayEcmpOff(Behinds(EPortsE \o PPortsE))

ecmpToPortsEcmpConfigTest ==
    ECall(Try(   EcmpToPortsEcmpUp \o EcmpToPortsEcmpSvi \o EcmpChecks(EPortsE \o PPortsE, "both"),
              EcmpToPortsEcmpOff))

-----------------------------------------------------------------------------
(***************************************************************************)
(* VxLanRifsConfigTunnelIpv6UnderlayOportsTest and ...OecmpTest repeat the *)
(* two classes line by line, but for the addresses of the underlay.        *)
(***************************************************************************)
OSetUpV6                     == OSetUp
OTearDownV6                  == OTearDown
PortsToPortsUpV6             == PortsToPortsUp
PortsToPortsSviV6            == PortsToPortsSvi
PortsToPortsOffV6            == PortsToPortsOff
portsToPortsConfigV6Test     == portsToPortsConfigTest
PortsToEcmpUpV6              == PortsToEcmpUp
PortsToEcmpSviV6             == PortsToEcmpSvi
PortsToEcmpOffV6             == PortsToEcmpOff
portsToEcmpConfigV6Test      == portsToEcmpConfigTest
PortsToPortsEcmpUpV6         == PortsToPortsEcmpUp
PortsToPortsEcmpSviV6        == PortsToPortsEcmpSvi
PortsToPortsEcmpOffV6        == PortsToPortsEcmpOff
portsToPortsEcmpConfigV6Test == portsToPortsEcmpConfigTest
ESetUpV6                     == ESetUp
ETearDownV6                  == ETearDown
EcmpToPortsUpV6              == EcmpToPortsUp
EcmpToPortsSviV6             == EcmpToPortsSvi
EcmpToPortsOffV6             == EcmpToPortsOff
ecmpToPortsConfigV6Test      == ecmpToPortsConfigTest
EcmpToEcmpUpV6               == EcmpToEcmpUp
EcmpToEcmpSviV6              == EcmpToEcmpSvi
EcmpToEcmpOffV6              == EcmpToEcmpOff
ecmpToEcmpConfigV6Test       == ecmpToEcmpConfigTest
EcmpToPortsEcmpUpV6          == EcmpToPortsEcmpUp
EcmpToPortsEcmpSviV6         == EcmpToPortsEcmpSvi
EcmpToPortsEcmpOffV6         == EcmpToPortsEcmpOff
ecmpToPortsEcmpConfigV6Test  == ecmpToPortsEcmpConfigTest

OTests   == portsToPortsConfigTest \o portsToEcmpConfigTest \o portsToPortsEcmpConfigTest
ETests   == ecmpToPortsConfigTest \o ecmpToEcmpConfigTest \o ecmpToPortsEcmpConfigTest
OTestsV6 == portsToPortsConfigV6Test \o portsToEcmpConfigV6Test \o portsToPortsEcmpConfigV6Test
ETestsV6 == ecmpToPortsConfigV6Test \o ecmpToEcmpConfigV6Test \o ecmpToPortsEcmpConfigV6Test

Suite == [rifs_ports    |-> Case(OSetUp, OTests, OTearDown),
          rifs_ecmp     |-> Case(ESetUp, ETests, ETearDown),
          rifs_ports_v6 |-> Case(OSetUpV6, OTestsV6, OTearDownV6),
          rifs_ecmp_v6  |-> Case(ESetUpV6, ETestsV6, ETearDownV6)]

=============================================================================
