------------------------------- MODULE SaiL3 -------------------------------
(***************************************************************************)
(* The L3 part of a SAI implementation (the ASIC and its driver), which is *)
(* not in the repository: only its headers are.  It is modelled from the   *)
(* way test/basic_router calls it.  Every call returns a status; here the  *)
(* parameter ok says whether it is SAI_STATUS_SUCCESS.  A call is refused  *)
(* when its arguments make it impossible, and the calls named in Faulty    *)
(* may also fail for no reason the caller can see (out of resources, a     *)
(* driver error).  A failed call changes nothing.                          *)
(***************************************************************************)
EXTENDS Naturals, FiniteSets

CONSTANTS
  Ips,            \* addresses of neighbors
  Intfs,          \* interfaces: the alias g_intfAlias[i] and the id g_rif_id[i]
  Rifs,           \* the interfaces whose id is a router interface
  Prefixes,       \* destinations of routes
  NhOids,         \* object ids of type SAI_OBJECT_TYPE_NEXT_HOP
  GrpOids,        \* object ids of type SAI_OBJECT_TYPE_NEXT_HOP_GROUP
  NullOid,        \* the object id 0
  Faulty          \* the SAI calls that may fail although they are legal

ASSUME SaiAssumption ==
  /\ Rifs \subseteq Intfs
  /\ NhOids \cap GrpOids = {}
  /\ NullOid \notin NhOids \cup GrpOids

VARIABLES
  neighbors,      \* the neighbor entries, keyed by <<rif_id, ip_address>>
  next_hops,      \* oid of a live next hop -> its ip and rif
  groups,         \* oid of a live next hop group -> its next hop list
  routes          \* prefix -> packet action and next hop id

sai == <<neighbors, next_hops, groups, routes>>

\* std::map<K, V>: m[k] = v, and m.erase(k).
Put(m, k, v) == [x \in DOMAIN m \cup {k} |-> IF x = k THEN v ELSE m[x]]
Erase(m, k)  == [x \in DOMAIN m \ {k} |-> m[x]]
IsMap(m, K, V) == DOMAIN m \subseteq K /\ m \in [DOMAIN m -> V]

\* sai_status_t of a call that its arguments make refused or not.
Status(ok, call, refused) ==
  IF ok THEN ~refused ELSE refused \/ call \in Faulty

-----------------------------------------------------------------------------
create_neighbor_entry(rif, ip, ok) ==
  /\ Status(ok, "create_neighbor_entry",
            rif \notin Rifs \/ <<rif, ip>> \in neighbors)
  /\ neighbors' = IF ok THEN neighbors \cup {<<rif, ip>>} ELSE neighbors

remove_neighbor_entry(rif, ip, ok) ==
  /\ Status(ok, "remove_neighbor_entry", <<rif, ip>> \notin neighbors)
  /\ neighbors' = IF ok THEN neighbors \ {<<rif, ip>>} ELSE neighbors

\* The oid of a removed object may be given to a later one.
create_next_hop(ip, rif, nhid, ok) ==
  /\ Status(ok, "create_next_hop",
            rif \notin Rifs \/ NhOids \subseteq DOMAIN next_hops)
  /\ ok => nhid \in NhOids \ DOMAIN next_hops
  /\ next_hops' =
       IF ok THEN Put(next_hops, nhid, [ip |-> ip, rif |-> rif]) ELSE next_hops

NextHopInUse(nhid) ==
  \/ \E g \in DOMAIN groups : nhid \in groups[g]
  \/ \E p \in DOMAIN routes : routes[p].next_hop = nhid

remove_next_hop(nhid, ok) ==
  /\ Status(ok, "remove_next_hop",
            nhid \notin DOMAIN next_hops \/ NextHopInUse(nhid))
  /\ next_hops' = IF ok THEN Erase(next_hops, nhid) ELSE next_hops

create_next_hop_group(nhids, nhg_id, ok) ==
  /\ Status(ok, "create_next_hop_group",
            ~(nhids \subseteq DOMAIN next_hops) \/ GrpOids \subseteq DOMAIN groups)
  /\ ok => nhg_id \in GrpOids \ DOMAIN groups
  /\ groups' = IF ok THEN Put(groups, nhg_id, nhids) ELSE groups

\* RouteMgr::Del removes the route in the same step, hence the primes.
GroupInUse(nhg_id) == \E p \in DOMAIN routes' : routes'[p].next_hop = nhg_id

remove_next_hop_group(nhg_id, ok) ==
  /\ Status(ok, "remove_next_hop_group",
            nhg_id \notin DOMAIN groups \/ GroupInUse(nhg_id))
  /\ groups' = IF ok THEN Erase(groups, nhg_id) ELSE groups

-----------------------------------------------------------------------------
\* A route carries two independent attributes; one attribute is given at a time,
\* the other one keeps its value (at creation, the default of sairoute.h).
DropAttr == [id |-> "PACKET_ACTION", value |-> "DROP"]
NextHopAttr(oid) == [id |-> "NEXT_HOP_ID", value |-> oid]

DefaultRoute == [action |-> "FORWARD", next_hop |-> NullOid]

SetAttr(route, attr) ==
  IF attr.id = "PACKET_ACTION" THEN [route EXCEPT !.action = attr.value]
                               ELSE [route EXCEPT !.next_hop = attr.value]

\* The attribute names no object, or one that exists (also one created by an
\* earlier call of the same step, hence the primes).
ValidAttr(attr) ==
  attr.id = "NEXT_HOP_ID" =>
    attr.value \in {NullOid} \cup DOMAIN next_hops' \cup DOMAIN groups'

create_route(prefix, attr, ok) ==
  /\ Status(ok, "create_route", prefix \in DOMAIN routes \/ ~ValidAttr(attr))
  /\ routes' = IF ok THEN Put(routes, prefix, SetAttr(DefaultRoute, attr)) ELSE routes

set_route_attribute(prefix, attr, ok) ==
  /\ Status(ok, "set_route_attribute", prefix \notin DOMAIN routes \/ ~ValidAttr(attr))
  /\ routes' =
       IF ok THEN [routes EXCEPT ![prefix] = SetAttr(@, attr)] ELSE routes

remove_route(prefix, ok) ==
  /\ Status(ok, "remove_route", prefix \notin DOMAIN routes)
  /\ routes' = IF ok THEN Erase(routes, prefix) ELSE routes

\* Where the packets of a route go: the addresses of the next hops it resolves to.
MembersOf(oid) ==
  IF oid \in DOMAIN groups THEN groups[oid]
  ELSE IF oid \in DOMAIN next_hops THEN {oid} ELSE {}

Destinations(prefix) ==
  IF routes[prefix].action = "FORWARD"
  THEN {next_hops[n].ip : n \in MembersOf(routes[prefix].next_hop)} ELSE {}
=============================================================================
