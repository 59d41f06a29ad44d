------------------------------ MODULE LagTests -----------------------------
(***************************************************************************)
(* src/ptf/sailag.py: the members of a LAG, what they do while they are    *)
(* disabled, and how a packet chooses one of them.  A packet of a VLAN     *)
(* that is not routed is bridged; the addresses the switch learns from the *)
(* packets play no part, since no test sends to one from elsewhere.        *)
(***************************************************************************)
EXTENDS PtfScript

(* a packet that comes in on a port, with the tag of a VLAN or untagged *)
Bare(port, out)        == Expect([in |-> port, mac |-> "dst_mac", bridged |-> TRUE], out)
Tagged(port, vid, out) == Expect([in |-> port, mac |-> "dst_mac", bridged |-> TRUE, tag |-> vid], out)

(* a copy through each of the ports ps, and through one port of each LAG *)
Floods(ps, lag)          == UNION {Copies(ps \cup {p}, "dst_mac") : p \in lag}
FloodsBoth(ps, lag, oth) == UNION {Floods(ps \cup {p}, lag) : p \in oth}

Lag1 == {"port4", "port5", "port6"}
Lag2 == {"port7", "port8", "port9"}

(* what a member does, with and without an assertion on the status *)
Off(m) == Set(m, "egress_disable", TRUE) \o Check
On(m)  == Reset(m, "egress_disable") \o Check

BothWays(m) == Set(m, "ingress_disable", TRUE) \o Off(m)
Again(m)    == Reset(m, "ingress_disable") \o On(m)

(* the test counts how often each port was chosen *)
Shares(k) == Checks(k)

print_ports_stats(k) == Checks(k)

-----------------------------------------------------------------------------
(* LAGCreateLagMember: the second member on the port is refused *)
createRemoveLagMemberTest ==
    LET Members == Checks(2)
        NewMember == LagMember("new_lag", "port24")
    IN     New("new_lag", Lag) \o Members
        \o New("new_lag_member24", NewMember) \o Members \o Checks(2)
        \o Deny("lag_member_fail", NewMember) \o Members
        \o Del(<<"new_lag_member24">>) \o Check \o Members
        \o Del(<<"new_lag">>) \o Check
        \o Del(<<"new_lag">>) \o Check

-----------------------------------------------------------------------------
(* untagged and tagged packets of VLAN 10, from its ports and from its LAG *)
FloodAll ==
       Bare("port0", Floods({"port1"}, Lag1))
    \o Tagged("port1", "vlan10", Floods({"port0"}, Lag1))
    \o Tagged("port4", "vlan10", Copies({"port0", "port1"}, "dst_mac"))

(* LAGDisableIngressLagMember; the last check has three packets for two ports *)
disableIngressLagMember ==
       FloodAll
    \o BothWays("lag1_member4") \o Bare("port4", Nothing)
    \o Again("lag1_member4") \o print_ports_stats(7) \o Check

DisableIngressTearDown ==
    Reset("lag1_member4", "ingress_disable") \o Reset("lag1_member4", "egress_disable")

-----------------------------------------------------------------------------
(* LAGDisableEgressLagMember *)
disableEgressLagMemberTest ==
       FloodAll
    \o BothWays("lag1_member4") \o BothWays("lag1_member5")
    \o Tagged("port1", "vlan10", Floods({"port0"}, {"port6"}))
    \o BothWays("lag1_member6")
    \o Tagged("port1", "vlan10", Copies({"port0"}, "dst_mac"))
    \o Again("lag1_member4") \o Again("lag1_member5") \o Again("lag1_member6")
    \o Bare("port0", Floods({"port1"}, Lag1))

(* the port VLAN of the LAG was 10 before *)
multipleVlanTest ==
    LET In10 == Floods({"port1"}, Lag1)
        In20 == FloodsBoth({"port3"}, Lag1, Lag2)
    IN     Set("lag1", "pvid", "20")
        \o New("vlan20_member3", VlanMember("vlan20", "lag1_bp", "tagged"))
        \o Try(   Bare("port0", In10) \o Tagged("port0", "vlan10", In10)
               \o Bare("port2", In20) \o Tagged("port2", "vlan20", In20)
               \o Tagged("port2", "vlan50", Nothing) \o Tagged("port0", "vlan50", Nothing),
               Del(<<"vlan20_member3">>) \o Reset("lag1", "pvid"))

(* the member the packets come out of is disabled, until none is left *)
lagMemberActivateFloodTest ==
    LET Orders == <<<<"4", "5", "6">>, <<"4", "6", "5">>, <<"5", "4", "6">>,
                    <<"5", "6", "4">>, <<"6", "4", "5">>, <<"6", "5", "4">>>>
        Out(ms)  == Bare("port0", Floods({"port1"}, {"port" \o m : m \in ms})) \o Check
        Next(m)  == Off("lag1_member" \o m)
        Through(o) ==    Out({o[1], o[2], o[3]}) \o Next(o[1])
                      \o Out({o[2], o[3]}) \o Check \o Next(o[2])
                      \o Out({o[3]}) \o Check \o Next(o[3])
    IN  Try(OneOf([k \in DOMAIN Orders |-> Through(Orders[k])]),
            For(<<"4", "5", "6">>, LAMBDA m : Reset("lag1_member" \o m, "egress_disable")))

(* a static address behind the LAG, which gets a fourth member *)
lagMemberActivateBridgeTest ==
    LET To(ps) == Bare("port0", Plain(ps, "dst_mac")) \o Shares(4)
    IN  Try(   New("lag1_member1", LagMember("lag1", "port1"))
            \o New("fdb_entry", Fdb("vlan10", "dst_mac", "lag1_bp"))
            \o To(Lag1 \cup {"port1"})
            \o Off("lag1_member1") \o To(Lag1)
            \o Off("lag1_member6") \o To({"port4", "port5"})
            \o On("lag1_member6") \o To(Lag1)
            \o On("lag1_member1") \o To(Lag1 \cup {"port1"}),
            Del(<<"lag1_member1", "fdb_entry">>))

DisableEgress == Method({}, disableEgressLagMemberTest) \o Method({}, multipleVlanTest)
                   \o Method({}, lagMemberActivateFloodTest) \o Method({}, lagMemberActivateBridgeTest)

-----------------------------------------------------------------------------
(* LAGAttrPortList: the members of two LAGs, in the order of their creation *)
AttrPortList == Checks(4) \o Checks(4)

(***************************************************************************)
(* LAGL2LoadBalancing and LAGL3LoadBalancing take port 1 out of VLAN 10.   *)
(* What they create again has a new handle, and so a new name.             *)
(***************************************************************************)
Port1Out == Del(<<"vlan10_member1", "port1_bp">>)

Port1Back == New("port1_bp_again", BridgePort("port1"))
               \o New("vlan10_member1_again", VlanMember("vlan10", "port1_bp_again", "tagged"))

(* the fields of the default LAG hash, kept with the switch *)
L2SetUp == Port1Out \o Checks(2) \o Set("switch", "lag_hash_fields", "DST_MAC") \o Checks(2)

L2LoadBalancing == Try(Bare("port0", Floods({}, Lag1)) \o Shares(3), Port1Back)

lagL3LoadBalancePacketTest(ps) ==
    Bare("port0", IF ps = {} THEN Nothing ELSE Floods({}, ps)) \o Shares(3)

l3LoadBalancingDisableMembersTest ==
    LET Sent(ps) == lagL3LoadBalancePacketTest(ps)
    IN  Try(   Sent(Lag1)
            \o Off("lag1_member6") \o Sent({"port4", "port5"})
            \o Off("lag1_member4") \o Sent({"port5"})
            \o Off("lag1_member5") \o Sent({})
            \o On("lag1_member4") \o On("lag1_member5") \o Sent({"port4", "port5"}),
            On("lag1_member4") \o On("lag1_member5") \o On("lag1_member6"))

(* the members that are put back are never removed *)
l3LoadBalancingRemovedMembersTest ==
    LET Sent(ps) == lagL3LoadBalancePacketTest(ps)
        Gone(m)  == Del(<<"lag1_member" \o m>>) \o Check
        Back(m)  == New("lag1_member" \o m \o "_again", LagMember("lag1", "port" \o m))
    IN     Sent(Lag1)
        \o Gone("6") \o Sent({"port4", "port5"})
        \o Gone("4") \o Sent({"port5"})
        \o Gone("5") \o Sent({})
        \o Back("4") \o Back("6") \o Sent({"port4", "port6"})
        \o Back("5") \o Sent(Lag1)
        \o For(<<"port4", "port5", "port6">>, LAMBDA p : Bare(p, Copies({"port0"}, "dst_mac")))

-----------------------------------------------------------------------------
(* LagL3Nhop: a subnet behind a router interface on each of four LAGs *)
Behind(k, rif, dst) ==
       New("nhop" \o k, Hop(rif, "ip" \o k)) \o New("neighbor_entry" \o k, HostNbor(rif, "ip" \o k, "mac" \o k))
    \o New("route_entry" \o k, Route("default_vrf", dst, "nhop" \o k))

Net(k) == {"ip" \o k, "ip" \o k \o "_2"}

NhopSetUp ==
       Behind("10", "port10_rif", {"ip10"})
    \o New("lag1_rif", PortRif("default_vrf", "lag1")) \o Behind("1", "lag1_rif", Net("1"))
    \o New("lag2_rif", PortRif("default_vrf", "lag2")) \o Behind("2", "lag2_rif", Net("2"))
    \o Behind("3", "lag3_rif", Net("3")) \o Behind("4", "lag4_rif", Net("4"))

NhopTearDown ==
    LET All(e) == For(<<"4", "3", "2", "1", "10">>, LAMBDA k : Del(<<e \o k>>))
    IN  All("route_entry") \o All("neighbor_entry") \o All("nhop") \o Del(<<"lag2_rif", "lag1_rif">>)

(* to the second address of a subnet, through one of the ports ps of its LAG *)
packetTest(k, ps) ==
    Expect([in |-> "port10", dst |-> "ip" \o k \o "_2"], Plain(ps, "mac" \o k)) \o Check

runPreTest == packetTest("1", Lag1) \o packetTest("2", Lag2)
                \o packetTest("3", {"port14", "port15", "port16"})
                \o packetTest("4", {"port17", "port18", "port19"})

(* ports 24 and 25 join a LAG and leave it *)
Joins(lag, m25) == New("lag1_member24", LagMember(lag, "port24")) \o New("lag1_member25", m25)
Leaves == Del(<<"lag1_member24", "lag1_member25">>)

Lag4Test ==
    LET all == {"port17", "port18", "port19"}
        Sent(ps) == packetTest("4", ps) \o Shares(3)
        Back(m)  == New("lag4_member" \o m \o "_again", LagMember("lag4", "port" \o m))
    IN     Sent(all)
        \o Del(<<"lag4_member17">>) \o Sent({"port18", "port19"})
        \o Del(<<"lag4_member18">>) \o Sent({"port19"})
        \o Back("17") \o Back("18") \o Sent(all)

runPostTest ==
    LET Sent(k, ps) == packetTest(k, ps) \o Shares(3)
        lag3 == {"port14", "port15", "port16"}
        Disabled(o) == o @@ [egress_disable |-> TRUE]
    IN     Lag4Test
        \o Joins("lag1", Disabled(LagMember("lag1", "port25"))) \o Sent("1", Lag1 \cup {"port24"})
        \o Leaves \o Sent("1", Lag1)
        \o Set("lag2_member7", "egress_disable", TRUE) \o Sent("2", {"port8", "port9"})
        \o Reset("lag2_member7", "egress_disable") \o Sent("2", Lag2)
        \o Reset("lag3_member14", "egress_disable") \o Reset("lag3_member15", "egress_disable")
        \o Sent("3", lag3)
        \o Joins("lag3", LagMember("lag3", "port25")) \o Sent("3", lag3 \cup {"port24", "port25"})
        \o Leaves \o Sent("3", lag3)

-----------------------------------------------------------------------------
Suite == [lag_create    |-> Case(<< >>, createRemoveLagMemberTest, << >>),
          lag_ingress   |-> Case(<< >>, disableIngressLagMember, DisableIngressTearDown),
          lag_egress    |-> Case(<< >>, DisableEgress, << >>),
          lag_port_list |-> Case(<< >>, AttrPortList, << >>),
          lag_l2        |-> Case(L2SetUp, L2LoadBalancing, << >>),
          lag_l3        |-> Case(Port1Out,
                                 l3LoadBalancingDisableMembersTest \o l3LoadBalancingRemovedMembersTest,
                                 Port1Back),
          lag_nhop      |-> Case(NhopSetUp, runPreTest \o runPostTest, NhopTearDown)]

=============================================================================
