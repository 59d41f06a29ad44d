--------------------------- MODULE MCRouterSetup ---------------------------
(* Values for TLC: see the .cfg files that name this module. *)
EXTENDS RouterSetup

MCBytes == 0 .. 255
MCVlanIds == 1 .. 4094
MCPorts == 0 .. 127
MCFailing == {"prepare_switch", "create_vlan_member", "set_port_attribute",
              "create_router_interface", "create_route", "create_hostif"}
=============================================================================
