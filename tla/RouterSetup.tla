---------------------------- MODULE RouterSetup ----------------------------
(***************************************************************************)
(* test/basic_router/basic_router.cpp: basic_router_setup gives each port  *)
(* of the switch a vlan, a router interface, two routes, a host interface  *)
(* and a static MAC entry, and tearup_tests takes the entries away.        *)
(* Every SAI call may fail; setup then returns false where it stands and   *)
(* undoes nothing.  The tests in between touch nothing modelled here       *)
(* (they are BasicRouter's), and the FDB entries are FdbMgr's.             *)
(* Addresses keep their real numbers, so that their limits are real too.   *)
(***************************************************************************)
EXTENDS FdbMgr

CONSTANTS PortCounts, \* the values of SAI_SWITCH_ATTR_PORT_NUMBER considered
          Failing     \* the SAI calls of setup that may fail

PANEL_PORT_VLAN_START == 1024

\* The vlan of the i-th interface, counted from 0, and the octet of its address.
VlanId(n) == PANEL_PORT_VLAN_START + n + 1
Octet(n) == 140 + n + 1

\* The last byte of its MAC addresses: the decimal digits of n + 1, of which "%02x"
\* reads the first two as hexadecimal.
LastByte(n) ==
  LET twoDigits == IF n + 1 < 100 THEN n + 1 ELSE (n + 1) \div 10
  IN  16 * (twoDigits \div 10) + (twoDigits % 10)

DstMac(n) == [macAddr |-> LastByte(n), vlan_id |-> VlanId(n)]

NoMac == 0 \* the bytes of a MacAddress() that was never assigned

ASSUME AddressAssumption ==
  \A count \in PortCounts :
    /\ count \in Nat
    /\ \A n \in 0 .. count - 1 : n \in Ports /\ LastByte(n) \in Macs /\ VlanId(n) \in VlanIds
ASSUME TearupAssumption == NoMac \in Macs /\ VlanId(1) \in VlanIds

VARIABLES
  port_count, pc, i,
  members,   \* the switch: port -> the vlans it is a member of
  pvid,      \* port -> SAI_PORT_ATTR_PORT_VLAN_ID
  rifs,      \* router interfaces: <<vlan, last byte of the MAC address>>
  routes,    \* <<third octet of 10.10.x.130, packet action>>
  hostifs    \* ports that have a netdev

asic == <<members, pvid, rifs, routes, hostifs>>
setupVars == <<fdbVars, port_count, pc, i, asic>>

\* doc/spec.md: SAI puts every port into vlan 1 when the switch is initialised.
SetupInit ==
  /\ FdbInit
  /\ port_count \in PortCounts
  /\ pc = "vlan_members" /\ i = 0
  /\ members = [n \in 0 .. port_count - 1 |-> {1}]
  /\ pvid = [n \in 0 .. port_count - 1 |-> 1]
  /\ rifs = {} /\ routes = {} /\ hostifs = {}

Goto(next) == pc' = next /\ i' = 0

\* A call of setup: it may fail, and setup then returns false.
Fails(call) ==
  /\ call \in Failing
  /\ pc' = "false"
  /\ UNCHANGED <<fdbVars, port_count, i, asic>>

\* The loop that empties vlan_member_list before anything was put into it.
RemoveVlanMembers ==
  /\ pc = "vlan_members"
  /\ Goto("switch")
  /\ UNCHANGED <<fdbVars, port_count, asic>>

\* Traps, virtual router, port state and learning mode, with the attribute reads
\* before them; each may fail.
PrepareSwitch ==
  /\ pc = "switch"
  /\ \/ Fails("prepare_switch")
     \/ Goto("addresses") /\ UNCHANGED <<fdbVars, port_count, asic>>

\* One turn of the loop over g_intfAlias, g_ipAddr, ...: the constructor of
\* IpAddress throws std::invalid_argument when inet_pton refuses the text; the
\* test framework catches it and goes on.
MakeAddress ==
  /\ pc = "addresses"
  /\ UNCHANGED <<fdbVars, port_count, asic>>
  /\ \/ i < port_count /\ Octet(i) <= 255 /\ i' = i + 1 /\ UNCHANGED pc
     \/ i < port_count /\ Octet(i) > 255 /\ pc' = "threw" /\ UNCHANGED i
     \/ i = port_count /\ Goto("create_vlan_member")

-----------------------------------------------------------------------------
(* setup_one_l3_interface and create_hostif for the i-th port.  create_vlan also *)
(* accepts a vlan that exists, and only its failure is seen.                     *)

create_vlan_member ==
  /\ pc = "create_vlan_member"
  /\ \/ i < port_count /\ Fails("create_vlan_member")
     \/ /\ i < port_count /\ pc' = "set_port_attribute"
        /\ members' = [members EXCEPT ![i] = @ \cup {VlanId(i)}]
        /\ UNCHANGED <<fdbVars, port_count, i, pvid, rifs, routes, hostifs>>
     \/ i = port_count /\ Goto("fdb") /\ UNCHANGED <<fdbVars, port_count, asic>>

set_port_attribute ==
  /\ pc = "set_port_attribute"
  /\ \/ Fails("set_port_attribute")
     \/ /\ pc' = "create_router_interface"
        /\ pvid' = [pvid EXCEPT ![i] = VlanId(i)]
        /\ UNCHANGED <<fdbVars, port_count, i, members, rifs, routes, hostifs>>

create_router_interface ==
  /\ pc = "create_router_interface"
  /\ \/ Fails("create_router_interface")
     \/ /\ pc' = "create_route"
        /\ rifs' = rifs \cup {<<VlanId(i), LastByte(i)>>}
        /\ UNCHANGED <<fdbVars, port_count, i, members, pvid, routes, hostifs>>

\* The address of the interface is trapped, its subnet dropped: two calls.
create_route ==
  /\ pc \in {"create_route", "create_subnet_route"}
  /\ \/ Fails("create_route")
     \/ /\ <<Octet(i), IF pc = "create_route" THEN "TRAP" ELSE "DROP">> \notin routes
        /\ routes' = routes \cup {<<Octet(i), IF pc = "create_route" THEN "TRAP" ELSE "DROP">>}
        /\ pc' = IF pc = "create_route" THEN "create_subnet_route" ELSE "create_hostif"
        /\ UNCHANGED <<fdbVars, port_count, i, members, pvid, rifs, hostifs>>

create_hostif ==
  /\ pc = "create_hostif"
  /\ \/ Fails("create_hostif")
     \/ /\ pc' = "create_vlan_member" /\ i' = i + 1
        /\ hostifs' = hostifs \cup {i}
        /\ UNCHANGED <<fdbVars, port_count, members, pvid, rifs, routes>>

\* The last loop, through FdbMgr::Add.
AddFdbEntry ==
  /\ pc = "fdb"
  /\ UNCHANGED <<port_count, asic>>
  /\ \/ /\ i < port_count
        /\ AddEntry(DstMac(i), i)
        /\ IF result'.ok THEN i' = i + 1 /\ UNCHANGED pc ELSE pc' = "false" /\ UNCHANGED i
     \/ i = port_count /\ pc' = "true" /\ UNCHANGED <<fdbVars, i>>

-----------------------------------------------------------------------------
(* tearup_tests, which main calls whatever became of setup and of the tests; it *)
(* looks at no result.  If setup failed before g_dst_mac was filled, the key is another *)
(* one, but m_FdbVector is empty then and Del finds nothing whatever the key.   *)

TearupDel ==
  /\ pc \in {"true", "false", "threw"} /\ pc' = "erase"
  /\ DelEntry(IF port_count > 1 THEN DstMac(1) ELSE [macAddr |-> NoMac, vlan_id |-> VlanId(1)])
  /\ UNCHANGED <<port_count, i, asic>>

TearupErase ==
  /\ pc = "erase" /\ pc' = "erasing"
  /\ BeginEraseAll
  /\ UNCHANGED <<port_count, i, asic>>

TearupErasing ==
  /\ pc = "erasing"
  /\ EraseEntry \/ EndEraseAll
  /\ pc' = IF it' = 0 THEN "shutdown" ELSE pc
  /\ UNCHANGED <<port_count, i, asic>>

Ended == pc = "shutdown" /\ UNCHANGED setupVars

SetupNext ==
  \/ RemoveVlanMembers \/ PrepareSwitch \/ MakeAddress
  \/ create_vlan_member \/ set_port_attribute \/ create_router_interface
  \/ create_route \/ create_hostif \/ AddFdbEntry
  \/ TearupDel \/ TearupErase \/ TearupErasing \/ Ended

SetupSpec == SetupInit /\ [][SetupNext]_setupVars

-----------------------------------------------------------------------------
(* Properties *)

\* When setup returns true, every port has its own interface, untagged in a vlan of
\* its own, with both routes, and the switch forwards the port's test address to it,
\* although from the 100th port on the MAC addresses repeat.
SetupComplete ==
  pc = "true" =>
    \A n \in 0 .. port_count - 1 :
      /\ members[n] \ {1} = {VlanId(n)} /\ pvid[n] = VlanId(n)
      /\ <<VlanId(n), LastByte(n)>> \in rifs
      /\ {<<Octet(n), "TRAP">>, <<Octet(n), "DROP">>} \subseteq routes
      /\ n \in hostifs
      /\ DstMac(n) \in Static /\ fdb[DstMac(n)].port_id = n

\* However far setup came, an EraseAll that returns true at the end leaves no static
\* entry behind.
TearupEmptiesFdb ==
  pc = "shutdown" /\ result.ok => Static = {} /\ m_FdbVector = <<>>

\* The comment in setup: all of the ports are covered.
AllPortsCovered == pc # "threw"

\* The error message of its first loop: the ports are removed from vlan 1.
PortsLeaveVlan1 == pc = "true" => \A n \in 0 .. port_count - 1 : 1 \notin members[n]
=============================================================================
