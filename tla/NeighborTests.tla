--------------------------- MODULE NeighborTests ---------------------------
(***************************************************************************)
(* src/ptf/saineighbor.py: neighbors with and without a host route.  The   *)
(* tests over IPv4 and the tests over IPv6 are the same programs.          *)
(***************************************************************************)
EXTENDS PtfScript

H == INSTANCE PtfHelper

(***************************************************************************)
(* NeighborAttrIpv6TestHelper, NeighborAttrIpv4TestHelper.  destroy_       *)
(* routing_interfaces removes all interfaces of the list, SaiHelper's too; *)
(* SaiHelper's tearDown then does so again.                                *)
(***************************************************************************)
SetUp == H!create_routing_interfaces(<< >>, << >>, <<"port0", "port1">>)

Rifs == H!Created("rif") \o <<"port0_rif", "port1_rif">>

TearDown == H!destroy_routing_interfaces(Rifs) \o H!TearDownWith(Rifs)

SetUpV6    == SetUp
TearDownV6 == TearDown

Sent(ip, out) == Expect([in |-> "port1", dst |-> ip], out)

Arrives(mac) == Sent("ip", Plain({"port0"}, mac))

-----------------------------------------------------------------------------
noHostRouteIpv6NeighborTest ==
    Must("nbr_entry", Nbor("port0_rif", "ip", "mac_addr"))
      \o Try(Sent("ip", Nothing), Del(<<"nbr_entry">>))

addHostRouteIpv6NeighborTest ==
    Must("nbr_entry", HostNbor("port0_rif", "ip", "mac_addr"))
      \o Try(Arrives("mac_addr"), Del(<<"nbr_entry">>))

noHostRouteIpv4NeighborTest  == noHostRouteIpv6NeighborTest
addHostRouteIpv4NeighborTest == addHostRouteIpv6NeighborTest

(* ll_nbr_entry_2 is a variable only when the first half has passed *)
noHostRouteIpv6LinkLocalNeighborTest ==
       Must("ll_nbr_entry_1", Nbor("port0_rif", "ll_ipv6", "mac_addr"))
    \o Try(   Sent("ll_ipv6", Nothing)
           \o Del(<<"ll_nbr_entry_1">>) \o Check
           \o Must("ll_nbr_entry_2", HostNbor("port0_rif", "ll_ipv6", "mac_addr"))
           \o Sent("ll_ipv6", Nothing),
           Del(<<"ll_nbr_entry_2">>))

updateNeighborEntryAttributeDstMacAddr ==
       Must("nbr_entry", HostNbor("port0_rif", "ip", "mac_addr"))
    \o Try(   Arrives("mac_addr")
           \o Set("nbr_entry", "mac", "mac_addr2") \o Check \o Check \o Arrives("mac_addr2"),
           Del(<<"nbr_entry">>))

(* as many neighbors, and the number of those that are left *)
addNeighborEntries(is) ==
    Try(   For(is, LAMBDA i : Must("nbr_entry" \o ToString(i),
                                   HostNbor("port0_rif", "ip" \o ToString(i), "mac" \o ToString(i))))
        \o Check,
        For(is, LAMBDA i : Del(<<"nbr_entry" \o ToString(i)>>)))

addNeighborEntryAttrIPv4addrFamily == addNeighborEntries(<<1, 2, 3>>)
addNeighborEntryAttrIPv6addrFamily == addNeighborEntries(<<1, 2>>)

-----------------------------------------------------------------------------
V4(body) == Case(SetUp, body, TearDown)
V6(body) == Case(SetUpV6, body, TearDownV6)

Suite == [nbor_no_host_v6    |-> V6(noHostRouteIpv6NeighborTest),
          nbor_link_local    |-> V6(noHostRouteIpv6LinkLocalNeighborTest),
          nbor_host_v6       |-> V6(addHostRouteIpv6NeighborTest),
          nbor_no_host_v4    |-> V4(noHostRouteIpv4NeighborTest),
          nbor_host_v4       |-> V4(addHostRouteIpv4NeighborTest),
          nbor_update        |-> V4(updateNeighborEntryAttributeDstMacAddr),
          nbor_many_v4       |-> V4(addNeighborEntryAttrIPv4addrFamily),
          nbor_many_v6       |-> V6(addNeighborEntryAttrIPv6addrFamily)]

=============================================================================
