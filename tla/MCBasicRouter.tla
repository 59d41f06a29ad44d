--------------------------- MODULE MCBasicRouter ----------------------------
(* Values of the constants of BasicRouter for TLC. *)
EXTENDS BasicRouter, TLC

CONSTANTS a, b, c, p, q, h, s, n1, n2, n3, n4, g1, g2

AllCalls == {"create_neighbor_entry", "remove_neighbor_entry", "create_next_hop",
             "remove_next_hop", "create_next_hop_group", "remove_next_hop_group",
             "create_route", "set_route_attribute", "remove_route",
             "object_type_query"}
AllLiberties == {"move_neighbor", "update_route", "share_nexthops", "group_api"}
=============================================================================
