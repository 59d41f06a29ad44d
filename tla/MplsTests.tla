----------------------------- MODULE MplsTests -----------------------------
(***************************************************************************)
(* src/ptf/saimpls.py: labels put on, swapped and taken off.  The classes  *)
(* over IPv4 and over IPv6 build the same objects but for those the IPv4   *)
(* class needs for its second virtual router.  An expectation on counters  *)
(* is a plain check; the traffic class of a label is not followed.         *)
(***************************************************************************)
EXTENDS PtfScript

(***************************************************************************)
(* MplsCpuTrapTest.  inseg_entry_4 and debug_cnt are local variables that  *)
(* the finally blocks use and that a check before them leaves unassigned.  *)
(***************************************************************************)
Trapped(label) == BareInseg(label) @@ [action |-> "TRAP"]

CpuTrapSetUp == Checks(5) \o Must("inseg_entry", Trapped("3"))

CpuTrapTearDown == Del(<<"inseg_entry">>)

Dropped(labels) == Expect([in |-> "port10", labels |-> labels, dst |-> "ip"], Nothing)

mplsImplicitNullLabelTrapDropTest ==
    Try(   Checks(2)
        \o Set("inseg_entry", "action", "DROP") \o Dropped(<<"3">>) \o Check
        \o Must("inseg_entry_4", Trapped("4")) \o Dropped(<<"3", "4">>) \o Check,
        Set("inseg_entry", "action", "TRAP") \o Del(<<"inseg_entry_4">>))

mplsLabelLookupMissTest ==
    Try(   Sure("debug_cnt", DebugCounter) \o Dropped(<<"4">>) \o Check
        \o Must("inseg_entry_4", Trapped("4")) \o Dropped(<<"5", "4">>) \o Check,
        Del(<<"inseg_entry_4", "debug_cnt">>))

-----------------------------------------------------------------------------
(***************************************************************************)
(* The objects of the two basic classes and the two of the TTL mode.  ttl  *)
(* is the mode of the next hops that put labels on, pop of the entries     *)
(* that end a path; dst are the prefixes with a route.                     *)
(***************************************************************************)
Outseg(ttl) == [ettl |-> ttl, ettlval |-> "63"]

IngressLer(ttl, dst) ==
    [nhop_label_1 |-> PushHop("port11_rif", "ip_1", <<"1000">>) @@ Outseg(ttl),
     nhop_label_2 |-> PushHop("port11_rif", "ip_2", <<"1000", "2000">>) @@ Outseg(ttl),
     nhop_label_3 |-> PushHop("port11_rif", "ip_3", <<"1000", "2000", "3000">>) @@ Outseg(ttl),
     mpls_neighbor_entry_1 |-> Nbor("port11_rif", "ip_1", "dmac"),
     mpls_neighbor_entry_2 |-> Nbor("port11_rif", "ip_2", "dmac"),
     mpls_neighbor_entry_3 |-> Nbor("port11_rif", "ip_3", "dmac"),
     mpls_encap_route_1 |-> Route("default_vrf", {dst[1]}, "nhop_label_1"),
     mpls_encap_route_2 |-> Route("default_vrf", {dst[2]}, "nhop_label_2"),
     mpls_encap_route_3 |-> Route("default_vrf", {dst[3]}, "nhop_label_3")]

(* the prefix of 20.20.20.1 is a /24; the others are host routes *)
Subnet(dst) == IF dst = "ip_4" THEN {"ip_4", "rest_of_ip_4"} ELSE {dst}

EgressLer(ttl, dst) ==
    [mpls_rif         |-> LoopRif("default_vrf"),
     nhop_1           |-> Hop("port12_rif", "ip_4"),
     neighbor_entry_1 |-> Nbor("port12_rif", "ip_4", "dmac"),
     route_entry_1    |-> Route("default_vrf", Subnet(dst[4]), "nhop_1"),
     inseg_entry_1000 |-> PopInseg("1000", 1, ttl, "mpls_rif"),
     inseg_entry_0    |-> PopInseg("0", 1, ttl, "mpls_rif")]

(* the last hop but one takes the labels off, or leaves an explicit null *)
Php(ttl) ==
    [nhop_2           |-> Hop("port13_rif", "ip_4"),
     neighbor_entry_2 |-> Nbor("port13_rif", "ip_4", "dmac"),
     inseg_entry_2000 |-> PopInseg("2000", 1, "UNIFORM", "nhop_2"),
     inseg_entry_2111 |-> PopInseg("2111", 2, "UNIFORM", "nhop_2"),
     inseg_entry_2222 |-> PopInseg("2222", 3, "UNIFORM", "nhop_2"),
     egress_rif_4     |-> PortRif("default_vrf", "port25"),
     nhop_label_4     |-> SwapHop("egress_rif_4", "ip_5", <<"0">>) @@ Outseg(ttl),
     mpls_neighbor_entry_4 |-> Nbor("egress_rif_4", "ip_5", "dmac"),
     inseg_entry_3000 |-> Inseg("3000", "nhop_label_4")]

SwapTo(label) == SwapHop("egress_rif_5", "ip_6", <<label>>)

TransitSwap ==
    [egress_rif_5          |-> PortRif("default_vrf", "port26"),
     nhop_label_5          |-> SwapTo("0"),
     mpls_neighbor_entry_5 |-> Nbor("egress_rif_5", "ip_6", "dmac"),
     inseg_entry_5000      |-> Inseg("5000", "nhop_label_5")]

SwapEcmp ==
    [egress_rif_6 |-> PortRif("default_vrf", "port27"),
     egress_rif_7 |-> PortRif("default_vrf", "port28"),
     egress_rif_8 |-> PortRif("default_vrf", "port29"),
     nhop_label_6 |-> SwapHop("egress_rif_6", "ip_7", <<"7070">>),
     nhop_label_7 |-> SwapHop("egress_rif_7", "ip_8", <<"7171">>),
     nhop_label_8 |-> SwapHop("egress_rif_8", "ip_9", <<"7272">>),
     ecmp_group   |-> Group,
     ecmp_mbr1    |-> Member("ecmp_group", "nhop_label_6"),
     ecmp_mbr2    |-> Member("ecmp_group", "nhop_label_7"),
     ecmp_mbr3    |-> Member("ecmp_group", "nhop_label_8"),
     mpls_neighbor_entry_6 |-> Nbor("egress_rif_6", "ip_7", "dmac"),
     mpls_neighbor_entry_7 |-> Nbor("egress_rif_7", "ip_8", "dmac"),
     mpls_neighbor_entry_8 |-> Nbor("egress_rif_8", "ip_9", "dmac"),
     inseg_entry_7000      |-> Inseg("7000", "ecmp_group")]

TransitPush(ttl) ==
    [egress_rif_9          |-> PortRif("default_vrf", "port30"),
     nhop_label_9          |-> PushHop("egress_rif_9", "ip_10", <<"9000">>) @@ Outseg(ttl),
     mpls_neighbor_entry_9 |-> Nbor("egress_rif_9", "ip_10", "dmac"),
     inseg_entry_8000      |-> Inseg("8000", "nhop_label_9")]

(* what only the IPv4 class creates *)
SecondVrf ==
    [vrf                |-> Vrf,
     egress_rif_vrf     |-> PortRif("default_vrf", "port24"),
     nhop_vrf           |-> Hop("egress_rif_vrf", "ip_4"),
     neighbor_entry_vrf |-> Nbor("egress_rif_vrf", "ip_4", "dmac"),
     route_entry_vrf    |-> Route("vrf", Subnet("ip_4"), "nhop_vrf")]

(***************************************************************************)
(* The order of the calls.  A neighbor is created after the MPLS next hop  *)
(* with its address.                                                       *)
(***************************************************************************)
IngressOrder == <<"nhop_label_1", "nhop_label_2", "nhop_label_3",
                  "mpls_neighbor_entry_1", "mpls_neighbor_entry_2", "mpls_neighbor_entry_3",
                  "mpls_encap_route_1", "mpls_encap_route_2", "mpls_encap_route_3">>
EgressOrder  == <<"nhop_1", "neighbor_entry_1", "route_entry_1", "inseg_entry_1000", "inseg_entry_0",
                  "nhop_2", "neighbor_entry_2", "inseg_entry_2000", "inseg_entry_2111",
                  "inseg_entry_2222",
                  "egress_rif_4", "nhop_label_4", "mpls_neighbor_entry_4", "inseg_entry_3000">>
SwapOrder    == <<"egress_rif_5", "nhop_label_5", "mpls_neighbor_entry_5", "inseg_entry_5000",
                  "egress_rif_6", "egress_rif_7", "egress_rif_8",
                  "nhop_label_6", "nhop_label_7", "nhop_label_8",
                  "ecmp_group", "ecmp_mbr1", "ecmp_mbr2", "ecmp_mbr3",
                  "mpls_neighbor_entry_6", "mpls_neighbor_entry_7", "mpls_neighbor_entry_8",
                  "inseg_entry_7000">>
PushOrder    == <<"egress_rif_9", "nhop_label_9", "mpls_neighbor_entry_9", "inseg_entry_8000">>

(* the status of these is looked at *)
Asserted(n, o) == o.kind \in {"inseg", "nbor"} /\ n \notin {"neighbor_entry_1", "neighbor_entry_vrf"}

Build(objs, ns) == For(ns, LAMBDA n : IF Asserted(n, objs[n]) THEN Must(n, objs[n]) ELSE New(n, objs[n]))

V6 == <<"dst_1", "dst_2", "dst_3", "dst_4">>
V4 == <<"ip_1", "ip_2", "ip_3", "ip_4">>

BasicObjects(dst) == IngressLer("PIPE", dst) @@ EgressLer("PIPE", dst) @@ Php("PIPE")
                       @@ TransitSwap @@ SwapEcmp @@ TransitPush("PIPE")

MplsIpv6SetUp ==
    Build(BasicObjects(V6), IngressOrder \o <<"mpls_rif">> \o EgressOrder \o SwapOrder \o PushOrder)
      \o Checks(11)

MplsIpv4SetUp ==
    Build(BasicObjects(V4) @@ SecondVrf,
          IngressOrder \o <<"vrf", "egress_rif_vrf", "mpls_rif", "nhop_vrf", "neighbor_entry_vrf",
                            "route_entry_vrf">>
            \o EgressOrder \o SwapOrder \o PushOrder)
      \o Checks(9)

TtlModeSetUp(dst) ==
    Build(IngressLer("UNIFORM", dst) @@ EgressLer("UNIFORM", dst) @@ Php("UNIFORM")
            @@ TransitPush("UNIFORM"),
          IngressOrder \o <<"mpls_rif">> \o EgressOrder \o PushOrder)

MplsIpv6TtlModeSetUp == TtlModeSetUp(V6)
MplsIpv4TtlModeSetUp == TtlModeSetUp(V4)

-----------------------------------------------------------------------------
PushOff    == Del(<<"inseg_entry_8000", "mpls_neighbor_entry_9", "nhop_label_9", "egress_rif_9">>)
SwapOff    == Del(<<"inseg_entry_7000", "mpls_neighbor_entry_8", "mpls_neighbor_entry_7",
                    "mpls_neighbor_entry_6", "ecmp_mbr3", "ecmp_mbr2", "ecmp_mbr1", "ecmp_group",
                    "nhop_label_8", "nhop_label_7", "nhop_label_6",
                    "egress_rif_8", "egress_rif_7", "egress_rif_6",
                    "inseg_entry_5000", "mpls_neighbor_entry_5", "nhop_label_5", "egress_rif_5">>)
PhpOff     == Del(<<"inseg_entry_3000", "mpls_neighbor_entry_4", "nhop_label_4", "egress_rif_4",
                    "inseg_entry_2222", "inseg_entry_2111", "inseg_entry_2000",
                    "neighbor_entry_2", "nhop_2", "inseg_entry_0", "inseg_entry_1000">>)
VrfOff     == Del(<<"route_entry_vrf", "neighbor_entry_vrf", "nhop_vrf", "egress_rif_vrf", "vrf">>)
LerOff     == Del(<<"route_entry_1", "neighbor_entry_1", "nhop_1", "mpls_rif",
                    "mpls_encap_route_1", "mpls_encap_route_2", "mpls_encap_route_3",
                    "mpls_neighbor_entry_1", "mpls_neighbor_entry_2", "mpls_neighbor_entry_3",
                    "nhop_label_1", "nhop_label_2", "nhop_label_3">>)

MplsIpv6TearDown == PushOff \o SwapOff \o PhpOff \o LerOff
MplsIpv4TearDown == PushOff \o SwapOff \o PhpOff \o VrfOff \o LerOff
MplsIpv6TtlModeTearDown == PushOff \o PhpOff \o LerOff
MplsIpv4TtlModeTearDown == MplsIpv6TtlModeTearDown

-----------------------------------------------------------------------------
(* the packets: with labels, or none; what comes out of a port with labels and a TTL *)
Ip(dst)         == [in |-> "port10", dst |-> dst]
Labels(ls, dst) == [in |-> "port10", labels |-> ls, dst |-> dst]

Out(port, ls, ttl) == {Result({port}, "dmac", ls, <<ttl, NULL, NULL>>)}

Pushes(dst, ttl) ==
       Expect(Ip(dst[1]), Out("port11", <<"1000">>, ttl))
    \o Expect(Ip(dst[2]), Out("port11", <<"1000", "2000">>, ttl))
    \o Expect(Ip(dst[3]), Out("port11", <<"1000", "2000", "3000">>, ttl))

Terminated(label, dst, port, ttl) == Expect(Labels(<<label>>, dst), Out(port, << >>, ttl))

mplsIngressLERTestV6 == Pushes(V6, "63") \o Check
mplsIngressLERTestV4 == Pushes(V4, "63") \o Check

mplsEgressLERTermTestV6 == Terminated("1000", "dst_4", "port12", "inner") \o Check
mplsEgressLERTermTestV4 == Terminated("1000", "ip_4", "port12", "inner") \o Check

mplsEgressLERNullTermTestV6 == Terminated("0", "dst_4", "port12", "inner") \o Check
mplsEgressLERNullTermTestV4 == Terminated("0", "ip_4", "port12", "inner") \o Check

(* the interface labels end at, in another virtual router *)
MplsRif(v) == New("mpls_rif", LoopRif(v)) \o Make(EgressLer("PIPE", V4), <<"inseg_entry_1000", "inseg_entry_0">>)

MplsRifOff == Del(<<"inseg_entry_0", "inseg_entry_1000", "mpls_rif">>)

mplsEgressLERTermUpdateMplsRifVrfTest ==
    Try(   Terminated("1000", "ip_4", "port12", "inner")
        \o MplsRifOff \o MplsRif("vrf")
        \o Terminated("1000", "ip_4", "port24", "inner") \o Check,
        MplsRifOff \o MplsRif("default_vrf"))

(* one, two and three labels off; and then two of the three *)
Phps == For(<<<<"2000">>, <<"2111", "2000">>, <<"2222", "2111", "2000">>>>,
            LAMBDA ls : Expect(Labels(ls, "php_ip"), Out("port13", << >>, NULL)))

TwoOfThree ==
    Set("inseg_entry_2222", "pop", 2)
      \o Expect(Labels(<<"2222", "2111", "2000">>, "php_ip"), Out("port13", <<"2000">>, "inner"))

AllThree == Set("inseg_entry_2222", "pop", 3)

mplsEgressPhpTestV6 == Try(Phps \o TwoOfThree \o Check, AllThree)
mplsEgressPhpTestV4 == mplsEgressPhpTestV6

mplsEgressPhpSwapNullTestV6 == Expect(Labels(<<"3000">>, "ip"), Out("port25", <<"0">>, "63")) \o Check
mplsEgressPhpSwapNullTestV4 == mplsEgressPhpSwapNullTestV6

(* the entry, its neighbor and its next hop are made anew, with another label *)
Resupply(label) ==
       Del(<<"inseg_entry_5000", "mpls_neighbor_entry_5", "nhop_label_5">>)
    \o New("nhop_label_5", SwapTo(label))
    \o Build(TransitSwap, <<"mpls_neighbor_entry_5", "inseg_entry_5000">>)

Swapped(from, to) == Expect(Labels(from, "ip"), Out("port26", to, NULL))

mplsTransitSwapTestV6 ==
    Try(   Swapped(<<"5000">>, <<"0">>) \o Resupply("6000")
        \o Swapped(<<"5000">>, <<"6000">>)
        \o Swapped(<<"5000", "4000", "3000">>, <<"6000", "4000", "3000">>) \o Check,
        Resupply("0"))

mplsTransitSwapTestV4 == mplsTransitSwapTestV6

(***************************************************************************)
(* Through one of the interfaces.  Ten more packets are counted on the     *)
(* third interface, or on none (the code has an else of the last of its    *)
(* three ifs alone), a check that may go either way.  The IPv4 test does   *)
(* not look at what _verifyStats returns.                                  *)
(***************************************************************************)
SwapEcmpSent ==
    Expect(Labels(<<"7000">>, "ip"),
           {Result({p}, "dmac", <<l>>, AsIs) : p \in {"port27", "port28", "port29"},
                                               l \in {"7070", "7171", "7272"}})

mplsTransitSwapEcmpHashTestV6 == SwapEcmpSent \o Checks(2)
mplsTransitSwapEcmpHashTestV4 == SwapEcmpSent \o Check

mplsTransitPushTestV6 == Expect(Labels(<<"8000">>, "ip"), Out("port30", <<"9000", "8000">>, "63")) \o Check
mplsTransitPushTestV4 == mplsTransitPushTestV6

-----------------------------------------------------------------------------
(* the TTL: the label's, or in the pipe model the next hop's and the inner one *)
ThirdPush(ttl) == Expect(Ip("dst_3"), Out("port11", <<"1000", "2000", "3000">>, ttl))

mplsIngressLERTtlModeTestV6 ==
       Pushes(V6, NULL)
    \o Set("nhop_label_3", "ettl", "PIPE") \o ThirdPush("63")
    \o Set("nhop_label_3", "ettlval", "32") \o ThirdPush("32")
    \o Set("nhop_label_3", "ettl", "UNIFORM") \o ThirdPush(NULL)

mplsIngressLERTtlModeTestV4 == Pushes(V4, NULL)

mplsEgressLERTermTtlModeTestV6 ==
       Terminated("1000", "dst_4", "port12", NULL)
    \o Set("inseg_entry_1000", "pttl", "PIPE") \o Terminated("1000", "dst_4", "port12", "inner")
    \o Set("inseg_entry_1000", "pttl", "UNIFORM") \o Terminated("1000", "dst_4", "port12", NULL)

mplsEgressLERTermTtlModeTestV4 == Terminated("1000", "ip_4", "port12", NULL)

mplsEgressLERNullTermTtlModeTestV6 == Terminated("0", "dst_4", "port12", NULL)
mplsEgressLERNullTermTtlModeTestV4 == Terminated("0", "ip_4", "port12", NULL)

mplsEgressPhpTtlModeTestV6 ==
    Try(Phps \o Set("inseg_entry_2222", "pttl", "PIPE") \o TwoOfThree, AllThree)

mplsEgressPhpTtlModeTestV4 == Try(Phps, AllThree)

-----------------------------------------------------------------------------
(* MplsCreationTest: port10_rif stands for a next hop *)
mplsCreateAndRemoveTest ==
    Upto(5, LAMBDA i : Must("inseg_entry", BareInseg("200")) \o Del(<<"inseg_entry">>) \o Check)

mplsAttributesTest ==
       Must("inseg_entry", PopInseg("200", 2, "PIPE", "port10_rif") @@ [action |-> "DROP"])
    \o Try(   Checks(3) \o Del(<<"inseg_entry">>) \o Check
           \o New("inseg_entry", BareInseg("200"))
           \o Set("inseg_entry", "action", "DROP") \o Check
           \o Set("inseg_entry", "pop", 2) \o Check
           \o Set("inseg_entry", "nh", "port10_rif") \o Check,
           Del(<<"inseg_entry">>) \o Check)

(* the second create of the entry must be refused *)
mplsCreateTheSameEntryTest ==
    Try(Must("inseg_entry", BareInseg("200")) \o Deny("inseg_entry", BareInseg("200")),
        Del(<<"inseg_entry">>) \o Check)

(* MplsObjectsAvailabilityTest: three entries, the code makes 10 to 100 *)
Entries == Numbered("inseg_entry_", 3)

MplsObjectsAvailabilityTest ==
    Try(   New("mpls_rif", LoopRif("default_vrf"))
        \o Upto(3, LAMBDA i : Must(Entries[i], Inseg(Entries[i], "mpls_rif")))
        \o Check,
        For(Entries, LAMBDA n : When(n, Del(<<n>>))) \o Del(<<"mpls_rif">>))

-----------------------------------------------------------------------------
(* runTest: one method after another, on the objects of one setUp *)
Run(setUp, tests, tearDown) ==
    Case(setUp, For(tests, LAMBDA t : Method(Assigned(setUp), t)), tearDown)

MplsCpuTrapTest ==
    Run(CpuTrapSetUp, <<mplsImplicitNullLabelTrapDropTest, mplsLabelLookupMissTest>>, CpuTrapTearDown)

MplsIpv6Test ==
    Run(MplsIpv6SetUp,
        <<mplsIngressLERTestV6, mplsEgressLERTermTestV6, mplsEgressLERNullTermTestV6,
          mplsEgressPhpTestV6, mplsEgressPhpSwapNullTestV6, mplsTransitSwapTestV6,
          mplsTransitSwapEcmpHashTestV6, mplsTransitPushTestV6>>, MplsIpv6TearDown)

MplsIpv4Test ==
    Run(MplsIpv4SetUp,
        <<mplsIngressLERTestV4, mplsEgressLERTermTestV4, mplsEgressLERTermUpdateMplsRifVrfTest,
          mplsEgressLERNullTermTestV4, mplsEgressPhpTestV4, mplsEgressPhpSwapNullTestV4,
          mplsTransitSwapTestV4, mplsTransitSwapEcmpHashTestV4, mplsTransitPushTestV4>>, MplsIpv4TearDown)

MplsCreationTest ==
    Run(<< >>, <<mplsCreateAndRemoveTest, mplsAttributesTest, mplsCreateTheSameEntryTest>>, << >>)

MplsIpv6TtlModeTest ==
    Run(MplsIpv6TtlModeSetUp,
        <<mplsIngressLERTtlModeTestV6, mplsEgressLERTermTtlModeTestV6,
          mplsEgressLERNullTermTtlModeTestV6, mplsEgressPhpTtlModeTestV6>>, MplsIpv6TtlModeTearDown)

MplsIpv4TtlModeTest ==
    Run(MplsIpv4TtlModeSetUp,
        <<mplsIngressLERTtlModeTestV4, mplsEgressLERTermTtlModeTestV4,
          mplsEgressLERNullTermTtlModeTestV4, mplsEgressPhpTtlModeTestV4>>, MplsIpv4TtlModeTearDown)

(* on SaiHelper, and on SaiHelperBase *)
Suite     == [mpls_trap     |-> MplsCpuTrapTest,
              mpls_v6       |-> MplsIpv6Test,
              mpls_v4       |-> MplsIpv4Test,
              mpls_creation |-> MplsCreationTest,
              mpls_ttl_v6   |-> MplsIpv6TtlModeTest,
              mpls_ttl_v4   |-> MplsIpv4TtlModeTest]
BaseSuite == [mpls_available |-> MplsObjectsAvailabilityTest]

=============================================================================
