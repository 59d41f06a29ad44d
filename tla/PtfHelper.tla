----------------------------- MODULE PtfHelper -----------------------------
(***************************************************************************)
(* src/ptf/sai_base_test.py: the configuration SaiHelper builds before and *)
(* takes down after each test that extends it.  The target is not bmv2.    *)
(***************************************************************************)
EXTENDS PtfScript, FiniteSets

(* a call, and an assertion on its status *)
Checked(s) == s \o Check

Name(p, i) == p \o ToString(i)

create_bridge_ports(is) ==
    For(is, LAMBDA i : Sure(Name("port", i) \o "_bp", BridgePort(Name("port", i))))

destroy_bridge_ports(bps) == Del(bps)

create_lag_with_members(lag, is) ==
       Sure(lag, Lag)
    \o Sure(lag \o "_bp", BridgePort(lag))
    \o For(is, LAMBDA i : New(lag \o "_member" \o ToString(i), LagMember(lag, Name("port", i))))

destroy_lags_with_members(ms, ls) == Del(ms) \o Del(ls)

(* bps are the bridge ports in order, tags how each is tagged *)
create_vlan_with_members(vlan, bps, tags) ==
       Sure(vlan, Vlan)
    \o For(<<1, 2, 3>>, LAMBDA i : New(vlan \o "_member" \o ToString(i - 1),
                                       VlanMember(vlan, bps[i], tags[i])))

destroy_vlans_with_members(ms, vs) == Del(ms) \o Del(vs)

create_routing_interfaces(vlans, lags, ports) ==
       For(vlans, LAMBDA v : Sure(v \o "_rif", VlanRif("default_vrf", v)))
    \o For(lags \o ports, LAMBDA p : Sure(p \o "_rif", PortRif("default_vrf", p)))

destroy_routing_interfaces(rifs) == Del(rifs)

(* both drop; the addresses of the tests are never covered by them alone *)
create_default_v4_v6_route_entry ==
       Sure("default_v6", DropRoute("default_vrf", {"any_v6"}))
    \o Sure("default_v4", DropRoute("default_vrf", {"any_v4"}))

-----------------------------------------------------------------------------
(***************************************************************************)
(* The switch at power on, and SaiHelperBase.                              *)
(***************************************************************************)
DefaultMembers == <<"default_member0", "default_member1">>

PowerOn == [n \in {"default_vrf", "default_vlan"} \cup ToSet(DefaultMembers) |->
              CASE n = "default_vrf"  -> Vrf
                [] n = "default_vlan" -> Vlan
                [] OTHER -> VlanMember("default_vlan", NULL, "untagged")]

get_default_vlan == Check

get_vlan_member == Check

remove_vlan_members(ms) == For(ms, LAMBDA m : Checked(Del(<<m>>)))

remove_default_vlan == get_vlan_member \o remove_vlan_members(DefaultMembers)

start_switch == Check

get_active_port_list == Check

get_default_1q_bridge_id == Check

(* the queues of the CPU port, one after the other *)
check_cpu_port_hdl == Checks(2)

(* MUTANT of BaseSetUp: the ports stay in the default VLAN *)
BaseSetUp_KeepsDefaultVlan ==
       start_switch \o get_default_vlan \o get_active_port_list
    \o Check \o get_default_1q_bridge_id \o Check \o check_cpu_port_hdl

(* the default virtual router and the CPU port must be there *)
BaseSetUp ==
       start_switch \o get_default_vlan \o remove_default_vlan \o get_active_port_list
    \o Check \o get_default_1q_bridge_id \o Check \o check_cpu_port_hdl

(* the switch tells how many entries are left; what is counted is what is taken *)
Counted == {"route", "nhop", "nbor", "nhg", "nhgm", "fdb"}

saveNumberOfAvaiableResources(objects) ==
    [k \in Counted |-> Cardinality({n \in DOMAIN objects : objects[n].kind = k})]

verifyNumberOfAvaiableResources(objects, init_resources) ==
    saveNumberOfAvaiableResources(objects) = init_resources

BaseTearDown(ports) == For(ports, LAMBDA p : Reset(p, "pvid"))

-----------------------------------------------------------------------------
(* SaiHelper *)
SetUp ==
       BaseSetUp
    \o create_bridge_ports(<<0, 1, 2, 3, 20, 21>>)
    \o create_lag_with_members("lag1", <<4, 5, 6>>)
    \o create_lag_with_members("lag2", <<7, 8, 9>>)
    \o create_lag_with_members("lag3", <<14, 15, 16>>)
    \o create_lag_with_members("lag4", <<17, 18, 19>>)
    \o create_lag_with_members("lag5", <<22, 23>>)
    \o create_vlan_with_members("vlan10", <<"port0_bp", "port1_bp", "lag1_bp">>,
                                          <<"untagged", "tagged", "untagged">>)
    \o create_vlan_with_members("vlan20", <<"port2_bp", "port3_bp", "lag2_bp">>,
                                          <<"untagged", "tagged", "untagged">>)
    \o create_vlan_with_members("vlan30", <<"port20_bp", "port21_bp", "lag5_bp">>,
                                          <<"untagged", "tagged", "untagged">>)
    \o Set("port0", "pvid", "10") \o Set("lag1", "pvid", "10") \o Set("port2", "pvid", "20")
    \o create_routing_interfaces(<<"vlan30">>, << >>, << >>)
    \o create_routing_interfaces(<< >>, <<"lag3", "lag4">>, << >>)
    \o create_routing_interfaces(<< >>, << >>, <<"port10", "port11", "port12", "port13">>)
    \o create_default_v4_v6_route_entry

(* the handles the lists of the helper hold: what setUp created, in order *)
Created(kind) ==
    LET made == SelectSeq(SetUp, LAMBDA s : s.op = "create" /\ s.o.kind = kind)
    IN  [i \in DOMAIN made |-> made[i].n]

(* rifs is the list of router interfaces, to which a test may have added *)
TearDownWith(rifs) ==
       Reset("port2", "pvid") \o Reset("lag1", "pvid") \o Reset("port0", "pvid")
    \o destroy_routing_interfaces(rifs)
    \o destroy_vlans_with_members(Created("vlanm"), Created("vlan"))
    \o destroy_bridge_ports(Created("bp"))
    \o destroy_lags_with_members(Created("lagm"), Created("lag"))
    \o BaseTearDown(<<"port0", "port1", "port2">>)

TearDown == TearDownWith(Created("rif"))

(***************************************************************************)
(* MinimalPortVlanConfig: every port in one VLAN.                          *)
(***************************************************************************)
MinimalPorts == <<"port0", "port1", "port2">>

MinimalSetUp ==
       BaseSetUp
    \o For(MinimalPorts, LAMBDA p : Sure(p \o "_bp", BridgePort(p)))
    \o Sure("vlan", Vlan)
    \o For(MinimalPorts,
           LAMBDA p : Sure("vlan_" \o p, VlanMember("vlan", p \o "_bp", "untagged")))
    \o For(MinimalPorts, LAMBDA p : Checked(Set(p, "pvid", "100")))

MinimalTearDown ==
       For(MinimalPorts, LAMBDA p : Reset(p, "pvid"))
    \o For(MinimalPorts, LAMBDA p : Del(<<"vlan_" \o p>>))
    \o Del(<<"vlan">>)
    \o For(MinimalPorts, LAMBDA p : Del(<<p \o "_bp">>))
    \o BaseTearDown(MinimalPorts)

-----------------------------------------------------------------------------
(***************************************************************************)
(* The store a test that extends SaiHelper finds: what setUp created, the  *)
(* default VLAN without its members, and the port VLANs.                   *)
(***************************************************************************)
Helped ==
    LET steps   == SetUp
        made    == [n \in Assigned(steps) |-> steps[CHOOSE i \in DOMAIN steps :
                        steps[i].op = "create" /\ steps[i].n = n].o]
        pvid(v) == Unset @@ [pvid |-> v]
    IN  [made EXCEPT !["lag1"] = @ @@ [pvid |-> "10"]]
          @@ [port0 |-> pvid("10"), port2 |-> pvid("20"), default_vrf |-> Vrf, default_vlan |-> Vlan]

(* and the one a test that extends SaiHelperBase finds *)
Started == [n \in {"default_vrf", "default_vlan"} |-> PowerOn[n]]

(* the tests of the helpers alone *)
Suite == [helper  |-> Case(SetUp, << >>, TearDown),
          minimal |-> Case(MinimalSetUp, << >>, MinimalTearDown)]

=============================================================================
