--------------------------- MODULE DeliveryProofs ---------------------------
(***************************************************************************)
(* No route of the L3 managers carries traffic to a neighbor that its last *)
(* successful Add did not name, for every set of addresses, interfaces,    *)
(* prefixes and object ids.  SAI may give the id of a removed object to a  *)
(* later one, and m_EcmpGroups keeps ids: the argument is that an id of    *)
(* that cache belongs to an object that cannot be removed, because a route *)
(* goes through it.  Two failures and most liberties break that argument,  *)
(* and are excluded by name: see TestRules and NoLeftovers.                *)
(***************************************************************************)
EXTENDS BasicRouterProofs

\* The caller is basic_router.cpp, or moves neighbors and shares next hops.
TestRules == Liberties \subseteq {"move_neighbor", "share_nexthops"}

\* The two calls whose failure leaves an id behind that nothing pins: a route that
\* is not created after its next hops were cached, and a neighbor entry that stays
\* after its next hop was removed.
NoLeftovers == Faulty \cap {"create_route", "remove_neighbor_entry"} = {}

-----------------------------------------------------------------------------
(* The inductive invariant *)

LiveOids == DOMAIN next_hops \cup DOMAIN groups \cup {NullOid}
IpsOf(oid) == {next_hops[n].ip : n \in MembersOf(oid)}

\* With NbrInv: the id that a neighbor entry holds is the live next hop of its address.
NbrsHaveNextHops == DOMAIN m_ip2NbrMap = DOMAIN m_ip2NextHopMap

\* What the groups and the routes of the ASIC name is there.
NamedAlive ==
  /\ \A g \in DOMAIN groups : groups[g] \subseteq DOMAIN next_hops
  /\ \A p \in DOMAIN routes : routes[p].next_hop \in LiveOids

\* A cached next hop is held by a route that was added for the same set; a cached
\* group is the one that the group manager has for the set.
Pinned(nexthops, oid) ==
  /\ oid \in NhOids =>
       \E p \in DOMAIN routes \cap DOMAIN m_Routes :
         m_Routes[p] = nexthops /\ routes[p].next_hop = oid
  /\ oid \in GrpOids =>
       /\ oid \in DOMAIN groups /\ nexthops \in DOMAIN m_ips2NextHGMap
       /\ m_ips2NextHGMap[nexthops] = oid

CachePinned ==
  \A nexthops \in DOMAIN m_EcmpGroups :
    /\ Pinned(nexthops, m_EcmpGroups[nexthops])
    /\ IpsOf(m_EcmpGroups[nexthops]) \subseteq nexthops

BlackHoleIsNull ==
  BlackHole \in DOMAIN m_EcmpGroups /\ m_EcmpGroups[BlackHole] = NullOid

RoutesDeliver ==
  \A p \in DOMAIN routes \cap DOMAIN m_Routes : IpsOf(routes[p].next_hop) \subseteq m_Routes[p]

WantIsTable ==
  \A p \in DOMAIN want : p \in DOMAIN m_Routes /\ want[p] = m_Routes[p]

DeliveryInv ==
  /\ NbrsHaveNextHops /\ NamedAlive /\ CachePinned /\ BlackHoleIsNull
  /\ RoutesDeliver /\ WantIsTable
  /\ phase # "NextHopMgr::EraseAll"

\* What was proved before.
Known == NbrInv /\ RouteInv /\ GroupsLive

(* Ids have their kinds. *)
LEMMA Kinds ==
  ASSUME Known
  PROVE  /\ DOMAIN next_hops \subseteq NhOids /\ DOMAIN groups \subseteq GrpOids
         /\ NhOids \cap GrpOids = {} /\ NullOid \notin NhOids \cup GrpOids
         /\ \A S \in DOMAIN m_EcmpGroups : m_EcmpGroups[S] \in NhOids \cup GrpOids \cup {NullOid}
BY SaiAssumption DEF Known, NbrInv, NbrTypes, RouteInv, GroupTypes, IsMap, Oids

(* The invariant is what it claims to be. *)
LEMMA InvDelivers ==
  ASSUME DeliveryInv
  PROVE  NoMisdelivery
<1> SUFFICES ASSUME NEW p \in DOMAIN want \cap DOMAIN routes
             PROVE  Destinations(p) \subseteq want[p]
  BY DEF NoMisdelivery
<1>1. p \in DOMAIN m_Routes /\ want[p] = m_Routes[p]
  BY DEF DeliveryInv, WantIsTable
<1>2. IpsOf(routes[p].next_hop) \subseteq m_Routes[p]
  BY <1>1 DEF DeliveryInv, RoutesDeliver
<1>3. Destinations(p) \subseteq IpsOf(routes[p].next_hop)
  BY DEF Destinations, IpsOf
<1> QED
  BY <1>1, <1>2, <1>3

-----------------------------------------------------------------------------
(* The neighbors.  A step of the neighbor manager creates next hops under fresh ids *)
(* and removes those that nothing goes through.                                     *)
UsedNextHopsKept ==
  \A n \in DOMAIN next_hops :
    NextHopInUse(n) => n \in DOMAIN next_hops' /\ next_hops'[n] = next_hops[n]

(* What a route or a group names has the same addresses after such a step. *)
LEMMA UsedKeepsIps ==
  ASSUME Known, Known', DeliveryInv, UsedNextHopsKept, OnlyNeighbors,
         NEW oid,
         \/ oid = NullOid \/ oid \in DOMAIN groups
         \/ \E p \in DOMAIN routes : routes[p].next_hop = oid
  PROVE  /\ IpsOf(oid)' = IpsOf(oid)
         /\ oid \in LiveOids /\ oid \in LiveOids'
<1>1. UNCHANGED <<groups, routes>>
  BY DEF OnlyNeighbors
<1>2. CASE oid \in DOMAIN groups
  <2>1. \A n \in groups[oid] :
          n \in DOMAIN next_hops /\ n \in DOMAIN next_hops' /\ next_hops'[n] = next_hops[n]
    BY <1>2 DEF DeliveryInv, NamedAlive, UsedNextHopsKept, NextHopInUse
  <2> QED
    BY <1>1, <1>2, <2>1 DEF IpsOf, MembersOf, LiveOids
<1>3. CASE oid = NullOid
  <2>1. oid \notin DOMAIN groups \cup DOMAIN next_hops \cup DOMAIN next_hops'
    BY <1>3, SaiAssumption DEF Known, NbrInv, NbrTypes, RouteInv, GroupTypes, IsMap
  <2> QED
    BY <1>1, <1>3, <2>1 DEF IpsOf, MembersOf, LiveOids
<1>4. CASE oid \notin DOMAIN groups /\ oid # NullOid
  <2>1. NextHopInUse(oid)
    BY <1>4 DEF NextHopInUse
  <2>2. oid \in DOMAIN next_hops
    BY <1>4 DEF DeliveryInv, NamedAlive, LiveOids
  <2>3. oid \in DOMAIN next_hops' /\ next_hops'[oid] = next_hops[oid]
    BY <2>1, <2>2 DEF UsedNextHopsKept
  <2> QED
    BY <1>1, <1>4, <2>2, <2>3 DEF IpsOf, MembersOf, LiveOids
<1> QED
  BY <1>2, <1>3, <1>4

LEMMA NextHopsMove ==
  ASSUME Known, Known', DeliveryInv, UsedNextHopsKept, NbrsHaveNextHops', OnlyNeighbors,
         phase' # "NextHopMgr::EraseAll"
  PROVE  DeliveryInv'
<1>1. UNCHANGED <<groups, routes, m_ips2NextHGMap, m_Routes, m_EcmpGroups, want>>
  BY DEF OnlyNeighbors
<1>2. ASSUME NEW oid, \/ oid = NullOid \/ oid \in DOMAIN groups
                      \/ \E p \in DOMAIN routes : routes[p].next_hop = oid
      PROVE  IpsOf(oid)' = IpsOf(oid) /\ oid \in LiveOids'
  BY <1>2, UsedKeepsIps
<1>3. NamedAlive'
  <2>1. \A g \in DOMAIN groups : groups[g] \subseteq DOMAIN next_hops'
    BY DEF DeliveryInv, NamedAlive, UsedNextHopsKept, NextHopInUse
  <2> QED
    BY <1>1, <1>2, <2>1 DEF NamedAlive
<1>4. RoutesDeliver'
  BY <1>1, <1>2 DEF DeliveryInv, RoutesDeliver
<1>5. CachePinned'
  <2> SUFFICES ASSUME NEW S \in DOMAIN m_EcmpGroups
               PROVE  Pinned(S, m_EcmpGroups[S])' /\ IpsOf(m_EcmpGroups[S])' \subseteq S
    BY <1>1 DEF CachePinned
  <2>1. Pinned(S, m_EcmpGroups[S]) /\ IpsOf(m_EcmpGroups[S]) \subseteq S
    BY DEF DeliveryInv, CachePinned
  <2>2. Pinned(S, m_EcmpGroups[S])'
    BY <1>1, <2>1 DEF Pinned
  <2>3. \/ m_EcmpGroups[S] = NullOid \/ m_EcmpGroups[S] \in DOMAIN groups
        \/ \E p \in DOMAIN routes : routes[p].next_hop = m_EcmpGroups[S]
    BY <2>1, Kinds DEF Pinned
  <2>4. IpsOf(m_EcmpGroups[S])' = IpsOf(m_EcmpGroups[S])
    BY <1>1, <1>2, <2>3
  <2> QED
    BY <2>1, <2>2, <2>4
<1> QED
  BY <1>1, <1>3, <1>4, <1>5
     DEF DeliveryInv, BlackHoleIsNull, WantIsTable

LEMMA NeighborAddKeeps ==
  ASSUME Known, DeliveryInv,
         NEW ip \in Ips, NEW mac \in Macs, NEW intf \in Intfs, NEW ok \in BOOLEAN,
         NeighborMgr_Add(ip, mac, intf, ok)
  PROVE  UsedNextHopsKept /\ NbrsHaveNextHops'
<1>1. CASE /\ create_neighbor_entry(intf, ip, FALSE)
           /\ UNCHANGED <<next_hops, m_ip2NextHopMap, m_ip2NbrMap>>
  BY <1>1 DEF UsedNextHopsKept, DeliveryInv, NbrsHaveNextHops
<1>2. ASSUME create_neighbor_entry(intf, ip, TRUE), NextHopMgr_Add(ip, mac, intf, ok),
             IF ok THEN StoreNeighbor(ip, mac, intf) ELSE UNCHANGED m_ip2NbrMap
      PROVE  UsedNextHopsKept /\ NbrsHaveNextHops'
  <2>1. UsedNextHopsKept
    <3>1. CASE UNCHANGED next_hops
      BY <3>1 DEF UsedNextHopsKept
    <3>2. ASSUME NEW nhid \in NhOids, create_next_hop(ip, intf, nhid, TRUE)
          PROVE  UsedNextHopsKept
      BY <3>2 DEF create_next_hop, Put, UsedNextHopsKept
    <3>3. ASSUME create_next_hop(ip, intf, NullOid, FALSE)
          PROVE  UsedNextHopsKept
      BY <3>3 DEF create_next_hop, UsedNextHopsKept
    <3> QED
      BY <1>2, <3>1, <3>2, <3>3 DEF NextHopMgr_Add, NhVars
  <2>2. /\ ok => DOMAIN m_ip2NextHopMap' = DOMAIN m_ip2NextHopMap \cup {ip}
        /\ ~ok => DOMAIN m_ip2NextHopMap' = DOMAIN m_ip2NextHopMap
    BY <1>2 DEF NextHopMgr_Add, NhVars, SameNextHop, Put
  <2>3. /\ ok => DOMAIN m_ip2NbrMap' = DOMAIN m_ip2NbrMap \cup {ip}
        /\ ~ok => DOMAIN m_ip2NbrMap' = DOMAIN m_ip2NbrMap
    BY <1>2 DEF StoreNeighbor, Put
  <2> QED
    BY <2>1, <2>2, <2>3 DEF DeliveryInv, NbrsHaveNextHops
<1> QED
  BY <1>1, <1>2 DEF NeighborMgr_Add

(* A removal of the neighbor, once its next hop is removed, succeeds. *)
LEMMA NeighborDelKeeps ==
  ASSUME NoLeftovers, Known, DeliveryInv,
         NEW ip \in Ips, NEW ok \in BOOLEAN, NeighborMgr_Del(ip, ok)
  PROVE  UsedNextHopsKept /\ NbrsHaveNextHops'
<1>1. CASE UNCHANGED NbrVars
  BY <1>1 DEF NbrVars, UsedNextHopsKept, DeliveryInv, NbrsHaveNextHops
<1>2. CASE NextHopMgr_Del(ip, FALSE) /\ UNCHANGED m_ip2NbrMap
  BY <1>2 DEF NextHopMgr_Del, remove_next_hop, UsedNextHopsKept, DeliveryInv,
              NbrsHaveNextHops
<1>3. CASE /\ ip \in DOMAIN m_ip2NbrMap /\ NextHopMgr_Del(ip, TRUE)
           /\ remove_neighbor_entry(m_ip2NbrMap[ip].rif_id, ip, ok)
           /\ m_ip2NbrMap' = IF ok THEN Erase(m_ip2NbrMap, ip) ELSE m_ip2NbrMap
  <2> DEFINE nhid == m_ip2NextHopMap[ip].nhid
  <2>1. ip \in DOMAIN m_ip2NextHopMap
    BY <1>3 DEF DeliveryInv, NbrsHaveNextHops
  <2>2. /\ ~ NextHopInUse(nhid)
        /\ next_hops' = Erase(next_hops, nhid)
        /\ m_ip2NextHopMap' = Erase(m_ip2NextHopMap, ip)
    BY <1>3, <2>1 DEF NextHopMgr_Del, remove_next_hop, Status
  <2>3. ok
    BY <1>3 DEF remove_neighbor_entry, Status, NoLeftovers, Known, NbrInv, NeighborsLive
  <2>4. UsedNextHopsKept
    BY <2>2 DEF UsedNextHopsKept, Erase
  <2>5. NbrsHaveNextHops'
    BY <1>3, <2>2, <2>3 DEF DeliveryInv, NbrsHaveNextHops, Erase
  <2> QED
    BY <2>4, <2>5
<1> QED
  BY <1>1, <1>2, <1>3 DEF NeighborMgr_Del

-----------------------------------------------------------------------------
(* The routes.  What Add has before it writes the route: an id for the set, which *)
(* is of the cache or a new one, and maybe a new group.                           *)
Prepared(nexthops, oid) ==
  /\ IsMap(groups', GrpOids, SUBSET NhOids) /\ DOMAIN groups \subseteq DOMAIN groups'
  /\ \A g \in DOMAIN groups : groups'[g] = groups[g]
  /\ \A g \in DOMAIN groups' : groups'[g] \subseteq DOMAIN next_hops
  /\ \A S \in DOMAIN m_ips2NextHGMap \ {nexthops} :
       S \in DOMAIN m_ips2NextHGMap' /\ m_ips2NextHGMap'[S] = m_ips2NextHGMap[S]
  /\ DOMAIN m_EcmpGroups' = DOMAIN m_EcmpGroups \cup {nexthops}
  /\ m_EcmpGroups'[nexthops] = oid
  /\ \A S \in DOMAIN m_EcmpGroups \ {nexthops} : m_EcmpGroups'[S] = m_EcmpGroups[S]
  /\ oid \in DOMAIN next_hops \cup DOMAIN groups' \cup {NullOid}
  /\ oid \in GrpOids =>
       nexthops \in DOMAIN m_ips2NextHGMap' /\ m_ips2NextHGMap'[nexthops] = oid
  /\ \A n \in DOMAIN next_hops :
       oid = n \/ (oid \in DOMAIN groups' /\ n \in groups'[oid])
         => next_hops[n].ip \in nexthops
  /\ nexthops = BlackHole => oid = NullOid

(* A new group changes nothing for what is live. *)
LEMMA GroupsGrow ==
  ASSUME Known, UNCHANGED next_hops, DOMAIN groups' \subseteq GrpOids,
         \A g \in DOMAIN groups : g \in DOMAIN groups' /\ groups'[g] = groups[g],
         NEW x \in LiveOids
  PROVE  IpsOf(x)' = IpsOf(x)
<1>1. x \in DOMAIN groups' <=> x \in DOMAIN groups
  BY Kinds DEF LiveOids
<1>2. MembersOf(x)' = MembersOf(x)
  BY <1>1 DEF MembersOf
<1> QED
  BY <1>2 DEF IpsOf

(* The id that a neighbor entry holds is the live next hop of its address. *)
LEMMA NeighborIds ==
  ASSUME Known, DeliveryInv, NEW nexthops, NEW nhid \in Nhids(nexthops)
  PROVE  nhid \in DOMAIN next_hops /\ next_hops[nhid].ip \in nexthops
<1>1. PICK ip \in nexthops \cap DOMAIN m_ip2NbrMap : nhid = m_ip2NbrMap[ip].nhid
  BY DEF Nhids, KnownNeighbors
<1>2. ip \in DOMAIN m_ip2NextHopMap /\ m_ip2NextHopMap[ip].nhid = nhid
  BY <1>1 DEF DeliveryInv, NbrsHaveNextHops, Known, NbrInv, NeighborHasItsNextHop
<1>3. /\ nhid \in DOMAIN next_hops
      /\ next_hops[nhid] = [ip |-> ip, rif |-> m_ip2NextHopMap[ip].rif_id]
  BY <1>2 DEF Known, NbrInv, NextHopsLive
<1> QED
  BY <1>1, <1>3

(* A new group is made of next hops of the set. *)
LEMMA NewGroup ==
  ASSUME Known, DeliveryInv, NEW nexthops \in NextHopSets, NEW nhg_id \in GrpOids,
         create_next_hop_group(Nhids(nexthops), nhg_id, TRUE)
  PROVE  /\ nhg_id \notin DOMAIN groups
         /\ DOMAIN groups' = DOMAIN groups \cup {nhg_id}
         /\ groups'[nhg_id] = Nhids(nexthops)
         /\ IsMap(groups', GrpOids, SUBSET NhOids)
         /\ \A g \in DOMAIN groups : groups'[g] = groups[g]
         /\ \A g \in DOMAIN groups' : groups'[g] \subseteq DOMAIN next_hops
<1>1. nhg_id \notin DOMAIN groups /\ groups' = Put(groups, nhg_id, Nhids(nexthops))
  BY DEF create_next_hop_group
<1>2. Nhids(nexthops) \subseteq DOMAIN next_hops
  BY NeighborIds
<1>3. IsMap(groups, GrpOids, SUBSET NhOids)
  BY DEF Known, RouteInv, GroupTypes
<1>4. Nhids(nexthops) \in SUBSET NhOids
  BY <1>2, Kinds
<1>5. /\ DOMAIN groups' = DOMAIN groups \cup {nhg_id}
      /\ groups'[nhg_id] = Nhids(nexthops)
      /\ \A g \in DOMAIN groups : groups'[g] = groups[g]
  BY <1>1 DEF Put
<1>6. IsMap(groups', GrpOids, SUBSET NhOids)
  BY <1>1, <1>3, <1>4 DEF IsMap, Put
<1>7. \A g \in DOMAIN groups' : groups'[g] \subseteq DOMAIN next_hops
  BY <1>2, <1>5 DEF DeliveryInv, NamedAlive
<1> QED
  BY <1>1, <1>5, <1>6, <1>7

\* What the cached id of a set goes to, in terms of the next hops.
LEMMA CachedIps ==
  ASSUME Known, DeliveryInv, NEW S \in DOMAIN m_EcmpGroups, NEW n \in DOMAIN next_hops,
         \/ m_EcmpGroups[S] = n
         \/ m_EcmpGroups[S] \in DOMAIN groups /\ n \in groups[m_EcmpGroups[S]]
  PROVE  next_hops[n].ip \in S
<1>1. n \notin DOMAIN groups
  BY Kinds
<1>2. n \in MembersOf(m_EcmpGroups[S])
  BY <1>1 DEF MembersOf
<1>3. IpsOf(m_EcmpGroups[S]) \subseteq S
  BY DEF DeliveryInv, CachePinned
<1> QED
  BY <1>2, <1>3 DEF IpsOf

LEMMA ResolvedPrepares ==
  ASSUME Known, DeliveryInv, NEW nexthops \in NextHopSets, OnlyRoutes,
         NEW oid, Resolved(nexthops, oid)
  PROVE  Prepared(nexthops, oid)
<1> DEFINE Same == UNCHANGED <<groups, m_ips2NextHGMap>>
<1>1. ASSUME Same
      PROVE  /\ IsMap(groups', GrpOids, SUBSET NhOids)
             /\ \A g \in DOMAIN groups' : groups'[g] \subseteq DOMAIN next_hops
  BY <1>1 DEF Known, RouteInv, GroupTypes, DeliveryInv, NamedAlive
<1>2. BlackHole \in DOMAIN m_EcmpGroups /\ m_EcmpGroups[BlackHole] = NullOid
  BY DEF DeliveryInv, BlackHoleIsNull
<1>3. CASE nexthops \in DOMAIN m_EcmpGroups
  <2>1. Same /\ UNCHANGED m_EcmpGroups /\ oid = m_EcmpGroups[nexthops]
    BY <1>3 DEF Resolved
  <2>2. Pinned(nexthops, oid)
    BY <1>3, <2>1 DEF DeliveryInv, CachePinned
  <2>3. oid \in DOMAIN next_hops \cup DOMAIN groups \cup {NullOid}
    BY <1>3, <2>1, <2>2, Kinds DEF Pinned, DeliveryInv, NamedAlive, LiveOids
  <2>4. \A n \in DOMAIN next_hops :
          oid = n \/ (oid \in DOMAIN groups /\ n \in groups[oid])
            => next_hops[n].ip \in nexthops
    BY <1>3, <2>1, CachedIps
  <2> QED
    BY <1>1, <1>2, <1>3, <2>1, <2>2, <2>3, <2>4 DEF Prepared, Pinned
<1>4. CASE /\ nexthops \notin DOMAIN m_EcmpGroups /\ Same /\ Nhids(nexthops) = {oid}
           /\ m_EcmpGroups' = Put(m_EcmpGroups, nexthops, oid)
  <2>1. oid \in DOMAIN next_hops /\ next_hops[oid].ip \in nexthops
    BY <1>4, NeighborIds
  <2>2. oid \notin GrpOids /\ oid \notin DOMAIN groups
    BY <2>1, Kinds
  <2>3. nexthops # BlackHole
    BY <1>2, <1>4
  <2> QED
    BY <1>1, <1>4, <2>1, <2>2, <2>3 DEF Prepared, Put
<1>5. ASSUME nexthops \notin DOMAIN m_EcmpGroups,
             NEW nhg_id \in GrpOids, create_next_hop_group(Nhids(nexthops), nhg_id, TRUE),
             m_ips2NextHGMap' = Put(m_ips2NextHGMap, nexthops, nhg_id), oid = nhg_id,
             m_EcmpGroups' = Put(m_EcmpGroups, nexthops, oid)
      PROVE  Prepared(nexthops, oid)
  <2>1. /\ DOMAIN groups' = DOMAIN groups \cup {oid}
        /\ groups'[oid] = Nhids(nexthops)
        /\ IsMap(groups', GrpOids, SUBSET NhOids)
        /\ \A g \in DOMAIN groups : groups'[g] = groups[g]
        /\ \A g \in DOMAIN groups' : groups'[g] \subseteq DOMAIN next_hops
    BY <1>5, NewGroup
  <2>2. \A n \in DOMAIN next_hops : oid = n \/ n \in groups'[oid] => next_hops[n].ip \in nexthops
    BY <1>5, <2>1, NeighborIds, Kinds
  <2>3. nexthops # BlackHole
    BY <1>2, <1>5
  <2> QED
    BY <1>5, <2>1, <2>2, <2>3 DEF Prepared, Put
<1>6. CASE /\ nexthops \notin DOMAIN m_EcmpGroups /\ KnownCount(nexthops) > 1
           /\ NextHopGrpMgr_Add(nexthops, TRUE)
           /\ oid = m_ips2NextHGMap'[nexthops]
           /\ m_EcmpGroups' = Put(m_EcmpGroups, nexthops, oid)
  <2>1. PICK nhg_id \in GrpOids :
          /\ create_next_hop_group(Nhids(nexthops), nhg_id, TRUE)
          /\ m_ips2NextHGMap' = Put(m_ips2NextHGMap, nexthops, nhg_id)
    <3>1. KnownCount(nexthops) # 1
      BY <1>6
    <3> QED
      BY <1>6, <3>1, Zenon DEF NextHopGrpMgr_Add
  <2>2. oid = nhg_id
    BY <1>6, <2>1 DEF Put
  <2> QED
    BY <1>5, <1>6, <2>1, <2>2
<1> QED
  BY <1>3, <1>4, <1>6 DEF Resolved, GrpVars

(* A route that is added is created, with the id of its set. *)
LEMMA RouteAddWrites ==
  ASSUME TestRules, NoLeftovers, Known, DeliveryInv, OnlyRoutes,
         NEW prefix \in Prefixes \ (DOMAIN m_Routes \cup SetupPrefixes),
         NEW nexthops \in NextHopSets, NEW ok \in BOOLEAN,
         NEW oid, Prepared(nexthops, oid),
         WriteRoute(prefix, nexthops, RouteAttr(nexthops, oid), ok)
  PROVE  /\ ok /\ prefix \notin DOMAIN routes
         /\ routes' = Put(routes, prefix, SetAttr(DefaultRoute, RouteAttr(nexthops, oid)))
         /\ m_Routes' = Put(m_Routes, prefix, nexthops)
<1>1. create_route(prefix, RouteAttr(nexthops, oid), ok) /\ RecordRoute(prefix, nexthops, ok)
  BY DEF WriteRoute
<1>2. prefix \notin DOMAIN routes
  BY DEF Known, RouteInv, RoutesTracked
<1>3. ValidAttr(RouteAttr(nexthops, oid))
  BY DEF ValidAttr, RouteAttr, DropAttr, NextHopAttr, Prepared, OnlyRoutes
<1>4. ok
  BY <1>1, <1>2, <1>3 DEF create_route, Status, NoLeftovers
<1> QED
  BY <1>1, <1>2, <1>4 DEF create_route, RecordRoute

LEMMA RouteWriteKeeps ==
  ASSUME TestRules, NoLeftovers, Known, DeliveryInv, OnlyRoutes,
         NEW prefix \in Prefixes \ (DOMAIN m_Routes \cup SetupPrefixes),
         NEW nexthops \in NextHopSets, NEW ok \in BOOLEAN,
         NEW oid, Prepared(nexthops, oid),
         WriteRoute(prefix, nexthops, RouteAttr(nexthops, oid), ok),
         want' = IF ok THEN Put(want, prefix, nexthops) ELSE want,
         phase' = phase
  PROVE  DeliveryInv'
<1> DEFINE route == SetAttr(DefaultRoute, RouteAttr(nexthops, oid))
<1>1. /\ ok /\ prefix \notin DOMAIN routes /\ prefix \notin DOMAIN m_Routes
      /\ routes' = Put(routes, prefix, route)
      /\ m_Routes' = Put(m_Routes, prefix, nexthops)
      /\ want' = Put(want, prefix, nexthops)
  BY RouteAddWrites
<1>2. UNCHANGED <<next_hops, m_ip2NextHopMap, m_ip2NbrMap>>
  BY DEF OnlyRoutes
<1>3. route.next_hop = oid
  BY DEF Prepared, RouteAttr, SetAttr, DefaultRoute, DropAttr, NextHopAttr
<1>4. /\ DOMAIN routes' = DOMAIN routes \cup {prefix}
      /\ DOMAIN m_Routes' = DOMAIN m_Routes \cup {prefix}
      /\ routes'[prefix].next_hop = oid /\ m_Routes'[prefix] = nexthops
      /\ \A p \in DOMAIN routes : routes'[p] = routes[p]
      /\ \A p \in DOMAIN m_Routes : m_Routes'[p] = m_Routes[p]
  BY <1>1, <1>3 DEF Put
\* What was named before has the same addresses as before.
<1>5. ASSUME NEW x \in LiveOids
      PROVE  IpsOf(x)' = IpsOf(x)
  BY <1>2, <1>5, GroupsGrow DEF Prepared, IsMap
<1>6. IpsOf(oid)' \subseteq nexthops
  <2>1. \A n \in MembersOf(oid)' :
           n \in DOMAIN next_hops /\ (oid = n \/ (oid \in DOMAIN groups' /\ n \in groups'[oid]))
    BY <1>2 DEF MembersOf, Prepared
  <2>2. \A n \in MembersOf(oid)' : next_hops[n].ip \in nexthops
    BY <2>1 DEF Prepared
  <2> QED
    BY <1>2, <2>2 DEF IpsOf
<1>7. NamedAlive'
  BY <1>2, <1>4 DEF Prepared, DeliveryInv, NamedAlive, LiveOids
<1>8. RoutesDeliver'
  <2>1. ASSUME NEW p \in DOMAIN routes \cap DOMAIN m_Routes
        PROVE  IpsOf(routes[p].next_hop)' \subseteq m_Routes'[p]
    <3>1. routes[p].next_hop \in LiveOids /\ IpsOf(routes[p].next_hop) \subseteq m_Routes[p]
      BY DEF DeliveryInv, NamedAlive, RoutesDeliver
    <3>2. routes'[p] = routes[p] /\ m_Routes'[p] = m_Routes[p]
      BY <1>4
    <3>3. \A x \in LiveOids : IpsOf(x)' = IpsOf(x)
      BY <1>5
    <3> QED
      BY <3>1, <3>2, <3>3
  <2> SUFFICES ASSUME NEW p \in DOMAIN routes' \cap DOMAIN m_Routes'
               PROVE  IpsOf(routes[p].next_hop)' \subseteq m_Routes'[p]
    BY DEF RoutesDeliver
  <2>2. CASE p = prefix
    BY <1>4, <1>6, <2>2
  <2>3. CASE p # prefix
    BY <1>4, <2>1, <2>3
  <2> QED
    BY <2>2, <2>3
<1>9. CachePinned'
  <2> SUFFICES ASSUME NEW S \in DOMAIN m_EcmpGroups'
               PROVE  Pinned(S, m_EcmpGroups[S])' /\ IpsOf(m_EcmpGroups[S])' \subseteq S
    BY DEF CachePinned
  <2>1. CASE S = nexthops
    <3>1. m_EcmpGroups'[S] = oid
      BY <2>1 DEF Prepared
    <3>2. oid \in GrpOids => oid \in DOMAIN groups'
      BY Kinds, SaiAssumption DEF Prepared
    <3>3. Pinned(S, m_EcmpGroups[S])'
      BY <1>4, <2>1, <3>1, <3>2 DEF Prepared, Pinned
    <3> QED
      BY <1>6, <2>1, <3>1, <3>3
  <2>2. CASE S # nexthops
    <3>1. S \in DOMAIN m_EcmpGroups /\ m_EcmpGroups'[S] = m_EcmpGroups[S]
      BY <2>2 DEF Prepared
    <3>2. Pinned(S, m_EcmpGroups[S]) /\ IpsOf(m_EcmpGroups[S]) \subseteq S
      BY <3>1 DEF DeliveryInv, CachePinned
    <3>3. Pinned(S, m_EcmpGroups[S])'
      BY <1>4, <2>2, <3>1, <3>2 DEF Prepared, Pinned
    <3>4. m_EcmpGroups[S] \in LiveOids
      BY <3>1, <3>2, Kinds DEF Pinned, DeliveryInv, NamedAlive, LiveOids
    <3>5. IpsOf(m_EcmpGroups[S])' = IpsOf(m_EcmpGroups[S])
      BY <1>5, <3>1, <3>4
    <3> QED
      BY <3>2, <3>3, <3>5
  <2> QED
    BY <2>1, <2>2
<1>10. BlackHoleIsNull'
  BY DEF DeliveryInv, BlackHoleIsNull, Prepared
<1>11. WantIsTable'
  BY <1>1 DEF DeliveryInv, WantIsTable, Put
<1> QED
  BY <1>2, <1>7, <1>8, <1>9, <1>10, <1>11 DEF DeliveryInv, NbrsHaveNextHops

(* RouteMgr::Add keeps the invariant; when the next hops cannot be resolved, at most *)
(* a group is left in the ASIC that no table knows.                                  *)
LEMMA RouteAddKeeps ==
  ASSUME TestRules, NoLeftovers, Known, DeliveryInv, OnlyRoutes,
         NEW prefix \in Prefixes \ (DOMAIN m_Routes \cup SetupPrefixes),
         NEW nexthops \in NextHopSets, NEW ok \in BOOLEAN,
         RouteMgr_Add(prefix, nexthops, ok),
         want' = IF ok THEN Put(want, prefix, nexthops) ELSE want,
         phase' = phase
  PROVE  DeliveryInv'
<1>1. ASSUME NEW oid, Resolved(nexthops, oid),
             WriteRoute(prefix, nexthops, RouteAttr(nexthops, oid), ok)
      PROVE  DeliveryInv'
  BY <1>1, ResolvedPrepares, RouteWriteKeeps
<1>2. CASE Unresolved(nexthops) /\ ok = FALSE /\ UNCHANGED RouteVars
  <2>1. UNCHANGED <<next_hops, m_ip2NextHopMap, m_ip2NbrMap, routes, m_Routes, m_EcmpGroups,
                    want, phase>>
    BY <1>2 DEF OnlyRoutes, RouteVars
  <2>2. /\ UNCHANGED m_ips2NextHGMap
        /\ \/ UNCHANGED groups
           \/ \E g \in GrpOids : create_next_hop_group(Nhids(nexthops), g, TRUE)
    <3>1. CASE UNCHANGED GrpVars
      BY <3>1 DEF GrpVars
    <3>2. CASE KnownCount(nexthops) > 1 /\ NextHopGrpMgr_Add(nexthops, FALSE)
      <4>1. CASE UNCHANGED GrpVars
        BY <4>1 DEF GrpVars
      <4>2. CASE create_next_hop_group(Nhids(nexthops), NullOid, FALSE) /\ UNCHANGED m_ips2NextHGMap
        BY <4>2 DEF create_next_hop_group
      <4> QED
        BY <3>2, <4>1, <4>2, Zenon DEF NextHopGrpMgr_Add
    <3> QED
      BY <1>2, <3>1, <3>2 DEF Unresolved
  <2>3. /\ DOMAIN groups \subseteq DOMAIN groups'
        /\ DOMAIN groups' \subseteq GrpOids
        /\ \A g \in DOMAIN groups : groups'[g] = groups[g]
        /\ \A g \in DOMAIN groups' : groups'[g] \subseteq DOMAIN next_hops
    <3>1. CASE UNCHANGED groups
      BY <3>1, Kinds DEF DeliveryInv, NamedAlive
    <3>2. ASSUME NEW g \in GrpOids, create_next_hop_group(Nhids(nexthops), g, TRUE)
          PROVE  /\ DOMAIN groups \subseteq DOMAIN groups'
                 /\ DOMAIN groups' \subseteq GrpOids
                 /\ \A x \in DOMAIN groups : groups'[x] = groups[x]
                 /\ \A x \in DOMAIN groups' : groups'[x] \subseteq DOMAIN next_hops
      BY <3>2, NewGroup, Kinds
    <3> QED
      BY <2>2, <3>1, <3>2
  <2>4. ASSUME NEW x \in LiveOids
        PROVE  IpsOf(x)' = IpsOf(x)
    BY <2>1, <2>3, <2>4, GroupsGrow
  <2>5. NamedAlive'
    BY <2>1, <2>3 DEF DeliveryInv, NamedAlive, LiveOids
  <2>6. RoutesDeliver'
    BY <2>1, <2>4 DEF DeliveryInv, NamedAlive, RoutesDeliver
  <2>7. CachePinned'
    <3> SUFFICES ASSUME NEW S \in DOMAIN m_EcmpGroups
                 PROVE  Pinned(S, m_EcmpGroups[S])' /\ IpsOf(m_EcmpGroups[S])' \subseteq S
      BY <2>1 DEF CachePinned
    <3>1. Pinned(S, m_EcmpGroups[S]) /\ IpsOf(m_EcmpGroups[S]) \subseteq S
      BY DEF DeliveryInv, CachePinned
    <3>2. Pinned(S, m_EcmpGroups[S])'
      BY <2>1, <2>2, <2>3, <3>1 DEF Pinned
    <3>3. m_EcmpGroups[S] \in LiveOids
      BY <3>1, Kinds DEF Pinned, DeliveryInv, NamedAlive, LiveOids
    <3> QED
      BY <2>1, <2>4, <3>1, <3>2, <3>3
  <2> QED
    BY <2>1, <2>5, <2>6, <2>7 DEF DeliveryInv, NbrsHaveNextHops, BlackHoleIsNull, WantIsTable
<1> QED
  BY <1>1, <1>2 DEF RouteMgr_Add

-----------------------------------------------------------------------------
(* A step that takes a route out of the ASIC, and maybe the group of its set with  *)
(* it, and leaves no other set without what pins its id.                           *)
LEMMA RouteLeaves ==
  ASSUME Known, DeliveryInv, OnlyRoutes, NEW prefix \in DOMAIN m_Routes, NEW gone,
         routes' = Erase(routes, prefix),
         DOMAIN m_Routes' \in {DOMAIN m_Routes, DOMAIN m_Routes \ {prefix}},
         \A p \in DOMAIN m_Routes' : m_Routes'[p] = m_Routes[p],
         gone \subseteq DOMAIN groups,
         groups' = [g \in DOMAIN groups \ gone |-> groups[g]],
         \A p \in DOMAIN routes' : routes'[p].next_hop \notin gone,
         BlackHoleIsNull',
         \A S \in DOMAIN m_EcmpGroups' :
           \/ m_EcmpGroups'[S] = NullOid
           \/ /\ S \in DOMAIN m_EcmpGroups /\ m_EcmpGroups'[S] = m_EcmpGroups[S]
              /\ m_EcmpGroups[S] \in NhOids => S # m_Routes[prefix]
              /\ m_EcmpGroups[S] \in GrpOids =>
                   /\ m_EcmpGroups[S] \notin gone
                   /\ S \in DOMAIN m_ips2NextHGMap' /\ m_ips2NextHGMap'[S] = m_ips2NextHGMap[S],
         \A p \in DOMAIN want' :
           p \in DOMAIN want /\ p \in DOMAIN m_Routes' /\ want'[p] = want[p],
         phase' # "NextHopMgr::EraseAll"
  PROVE  DeliveryInv'
<1>1. UNCHANGED <<next_hops, m_ip2NextHopMap, m_ip2NbrMap>>
  BY DEF OnlyRoutes
<1>2. /\ DOMAIN routes' = DOMAIN routes \ {prefix}
      /\ \A p \in DOMAIN routes' : routes'[p] = routes[p]
  BY DEF Erase
<1>3. ASSUME NEW x, x \notin gone
      PROVE  IpsOf(x)' = IpsOf(x)
  <2>1. MembersOf(x)' = MembersOf(x)
    BY <1>1, <1>3 DEF MembersOf
  <2> QED
    BY <1>1, <2>1 DEF IpsOf
<1>4. NamedAlive'
  <2>1. \A g \in DOMAIN groups' : groups'[g] \subseteq DOMAIN next_hops'
    BY <1>1 DEF DeliveryInv, NamedAlive
  <2>2. \A p \in DOMAIN routes' : routes'[p].next_hop \in LiveOids'
    BY <1>1, <1>2 DEF DeliveryInv, NamedAlive, LiveOids
  <2> QED
    BY <2>1, <2>2 DEF NamedAlive
<1>5. RoutesDeliver'
  <2> SUFFICES ASSUME NEW p \in DOMAIN routes' \cap DOMAIN m_Routes'
               PROVE  IpsOf(routes[p].next_hop)' \subseteq m_Routes'[p]
    BY DEF RoutesDeliver
  <2>1. /\ p \in DOMAIN routes \cap DOMAIN m_Routes /\ routes'[p] = routes[p]
        /\ routes[p].next_hop \notin gone /\ m_Routes'[p] = m_Routes[p]
    BY <1>2
  <2>2. IpsOf(routes[p].next_hop) \subseteq m_Routes[p]
    BY <2>1 DEF DeliveryInv, RoutesDeliver
  <2>3. IpsOf(routes[p].next_hop)' = IpsOf(routes[p].next_hop)
    BY <1>3, <2>1
  <2> QED
    BY <2>1, <2>2, <2>3
<1>6. CachePinned'
  <2> SUFFICES ASSUME NEW S \in DOMAIN m_EcmpGroups'
               PROVE  Pinned(S, m_EcmpGroups[S])' /\ IpsOf(m_EcmpGroups[S])' \subseteq S
    BY DEF CachePinned
  <2>1. CASE m_EcmpGroups'[S] = NullOid
    <3>1. Pinned(S, m_EcmpGroups[S])'
      BY <2>1, SaiAssumption DEF Pinned
    <3>2. NullOid \notin DOMAIN groups' \cup DOMAIN next_hops'
      BY <1>1, Kinds
    <3>3. IpsOf(m_EcmpGroups[S])' = {}
      BY <2>1, <3>2 DEF IpsOf, MembersOf
    <3> QED
      BY <3>1, <3>3
  <2>2. CASE /\ S \in DOMAIN m_EcmpGroups /\ m_EcmpGroups'[S] = m_EcmpGroups[S]
             /\ m_EcmpGroups[S] # NullOid
             /\ m_EcmpGroups[S] \in NhOids => S # m_Routes[prefix]
             /\ m_EcmpGroups[S] \in GrpOids =>
                  /\ m_EcmpGroups[S] \notin gone
                  /\ S \in DOMAIN m_ips2NextHGMap' /\ m_ips2NextHGMap'[S] = m_ips2NextHGMap[S]
    <3>1. Pinned(S, m_EcmpGroups[S]) /\ IpsOf(m_EcmpGroups[S]) \subseteq S
      BY <2>2 DEF DeliveryInv, CachePinned
    <3>2. ASSUME m_EcmpGroups[S] \in NhOids
          PROVE  Pinned(S, m_EcmpGroups[S])'
      <4>1. PICK p \in DOMAIN routes \cap DOMAIN m_Routes :
              m_Routes[p] = S /\ routes[p].next_hop = m_EcmpGroups[S]
        BY <3>1, <3>2 DEF Pinned
      <4>2. p # prefix
        BY <2>2, <3>2, <4>1
      <4>3. p \in DOMAIN routes' \cap DOMAIN m_Routes'
        BY <1>2, <4>1, <4>2
      <4> QED
        BY <1>2, <2>2, <3>2, <4>1, <4>3, SaiAssumption DEF Pinned
    <3>3. ASSUME m_EcmpGroups[S] \in GrpOids
          PROVE  Pinned(S, m_EcmpGroups[S])'
      BY <2>2, <3>1, <3>3, SaiAssumption DEF Pinned
    <3>4. m_EcmpGroups[S] \notin gone
      BY <2>2, Kinds
    <3>5. IpsOf(m_EcmpGroups[S])' = IpsOf(m_EcmpGroups[S])
      BY <1>3, <2>2, <3>4
    <3> QED
      BY <2>2, <3>1, <3>2, <3>3, <3>5, Kinds
  <2> QED
    BY <2>1, <2>2
<1>7. WantIsTable'
  BY DEF DeliveryInv, WantIsTable
<1> QED
  BY <1>1, <1>4, <1>5, <1>6, <1>7 DEF DeliveryInv, NbrsHaveNextHops

(* RouteMgr::Del, also when it fails between the route and the group. *)
LEMMA RouteDelKeeps ==
  ASSUME Known, DeliveryInv, OnlyRoutes,
         NEW prefix \in Prefixes, NEW ok \in BOOLEAN, RouteMgr_Del(prefix, ok),
         \A p \in DOMAIN want' :
           p \in DOMAIN want /\ p \in DOMAIN m_Routes' /\ want'[p] = want[p],
         phase' # "NextHopMgr::EraseAll"
  PROVE  DeliveryInv'
<1> DEFINE nexthops == m_Routes[prefix]
           nhg_id == Get(m_EcmpGroups, nexthops)
<1>1. CASE UNCHANGED <<routes, m_Routes, m_EcmpGroups, groups, m_ips2NextHGMap>>
  <2>1. UNCHANGED <<next_hops, m_ip2NextHopMap, m_ip2NbrMap>>
    BY DEF OnlyRoutes
  <2>2. NamedAlive' /\ CachePinned' /\ BlackHoleIsNull' /\ RoutesDeliver'
    BY <1>1, <2>1
       DEF DeliveryInv, NamedAlive, LiveOids, CachePinned, Pinned, BlackHoleIsNull,
           RoutesDeliver, IpsOf, MembersOf
  <2> QED
    BY <1>1, <2>1, <2>2 DEF DeliveryInv, NbrsHaveNextHops, WantIsTable
<1>2. ASSUME prefix \in DOMAIN m_Routes, remove_route(prefix, TRUE),
             \/ /\ nhg_id = NullOid
                /\ m_EcmpGroups' = GetOrInsert(m_EcmpGroups, nexthops)
                /\ m_Routes' = Erase(m_Routes, prefix)
                /\ UNCHANGED GrpVars
             \/ /\ nhg_id \in NhOids
                /\ ForgetRoute(prefix, nexthops)
                /\ UNCHANGED GrpVars
             \/ /\ nhg_id \in GrpOids
                /\ DeleteGroupOf(prefix, nexthops, ok)
      PROVE  DeliveryInv'
  <2>1. prefix \in DOMAIN m_Routes /\ routes' = Erase(routes, prefix)
    <3>1. prefix \in DOMAIN m_Routes /\ remove_route(prefix, TRUE)
      BY <1>2, Zenon
    <3> QED
      BY <3>1 DEF remove_route
  <2>2. nhg_id # NullOid =>
          nexthops \in DOMAIN m_EcmpGroups /\ m_EcmpGroups[nexthops] = nhg_id
    BY DEF Get
  <2>3. BlackHole \in DOMAIN m_EcmpGroups /\ m_EcmpGroups[BlackHole] = NullOid
    BY DEF DeliveryInv, BlackHoleIsNull
  <2>4. groups = [g \in DOMAIN groups \ {} |-> groups[g]]
    BY DEF Known, RouteInv, GroupTypes, IsMap
  <2>5. \A S \in DOMAIN m_EcmpGroups : m_EcmpGroups[S] \in GrpOids =>
          /\ m_EcmpGroups[S] \in DOMAIN groups /\ S \in DOMAIN m_ips2NextHGMap
          /\ m_ips2NextHGMap[S] = m_EcmpGroups[S]
    BY DEF DeliveryInv, CachePinned, Pinned
  \* The black hole, or a set that another Del has forgotten.
  <2>6. CASE /\ nhg_id = NullOid
             /\ m_EcmpGroups' = GetOrInsert(m_EcmpGroups, nexthops)
             /\ m_Routes' = Erase(m_Routes, prefix)
             /\ UNCHANGED GrpVars
    <3> DEFINE gone == {}
    <3>1. /\ gone \subseteq DOMAIN groups
          /\ groups' = [g \in DOMAIN groups \ gone |-> groups[g]]
          /\ \A p \in DOMAIN routes' : routes'[p].next_hop \notin gone
          /\ \A x : x \notin gone
      BY <2>4, <2>6 DEF GrpVars
    <3>2. DOMAIN m_Routes' = DOMAIN m_Routes \ {prefix}
          /\ \A p \in DOMAIN m_Routes' : m_Routes'[p] = m_Routes[p]
      BY <2>6 DEF Erase
    <3>3. BlackHoleIsNull'
      BY <2>3, <2>6 DEF BlackHoleIsNull, GetOrInsert, Put
    <3>4. \A S \in DOMAIN m_EcmpGroups' :
            \/ m_EcmpGroups'[S] = NullOid
            \/ /\ S \in DOMAIN m_EcmpGroups /\ m_EcmpGroups'[S] = m_EcmpGroups[S]
               /\ S # nexthops
      BY <2>6 DEF GetOrInsert, Put
    <3>5. UNCHANGED m_ips2NextHGMap
      BY <2>6 DEF GrpVars
    <3> HIDE DEF gone
    <3> QED
      BY <2>1, <2>5, <3>1, <3>2, <3>3, <3>4, <3>5, RouteLeaves
  \* A single next hop.
  <2>7. CASE nhg_id \in NhOids /\ ForgetRoute(prefix, nexthops) /\ UNCHANGED GrpVars
    <3> DEFINE gone == {}
    <3>1. /\ gone \subseteq DOMAIN groups
          /\ groups' = [g \in DOMAIN groups \ gone |-> groups[g]]
          /\ \A p \in DOMAIN routes' : routes'[p].next_hop \notin gone
          /\ \A x : x \notin gone
      BY <2>4, <2>7 DEF GrpVars
    <3>2. DOMAIN m_Routes' = DOMAIN m_Routes \ {prefix}
          /\ \A p \in DOMAIN m_Routes' : m_Routes'[p] = m_Routes[p]
      BY <2>7 DEF ForgetRoute, Erase
    <3>3. nhg_id # NullOid
      BY <2>7, SaiAssumption
    <3>4. \A S \in DOMAIN m_EcmpGroups' :
            /\ S \in DOMAIN m_EcmpGroups /\ m_EcmpGroups'[S] = m_EcmpGroups[S]
            /\ S # nexthops
      BY <2>7 DEF ForgetRoute, Erase
    <3>5. BlackHoleIsNull'
      BY <2>2, <2>3, <2>7, <3>3 DEF BlackHoleIsNull, ForgetRoute, Erase
    <3>6. UNCHANGED m_ips2NextHGMap
      BY <2>7 DEF GrpVars
    <3> HIDE DEF gone
    <3> QED
      BY <2>1, <2>5, <3>1, <3>2, <3>4, <3>5, <3>6, RouteLeaves
  \* A group that SAI keeps, because another route has it: the entries stay.
  <2>8. CASE /\ nhg_id \in GrpOids
             /\ UNCHANGED <<groups, m_ips2NextHGMap, m_EcmpGroups, m_Routes>>
    <3> DEFINE gone == {}
    <3>1. /\ gone \subseteq DOMAIN groups
          /\ groups' = [g \in DOMAIN groups \ gone |-> groups[g]]
          /\ \A p \in DOMAIN routes' : routes'[p].next_hop \notin gone
      BY <2>4, <2>8
    <3>2. DOMAIN m_Routes' = DOMAIN m_Routes
          /\ \A p \in DOMAIN m_Routes' : m_Routes'[p] = m_Routes[p]
      BY <2>8
    <3>3. BlackHoleIsNull'
      BY <2>3, <2>8 DEF BlackHoleIsNull
    <3>4. nexthops \in DOMAIN m_EcmpGroups => m_EcmpGroups[nexthops] \notin NhOids
      BY <2>2, <2>8, SaiAssumption
    <3>5. \A S \in DOMAIN m_EcmpGroups' :
            /\ S \in DOMAIN m_EcmpGroups /\ m_EcmpGroups'[S] = m_EcmpGroups[S]
            /\ m_EcmpGroups[S] \in NhOids => S # nexthops
            /\ m_EcmpGroups[S] \in GrpOids => m_EcmpGroups[S] \notin gone
      BY <2>8, <3>4
    <3> HIDE DEF gone
    <3> QED
      BY <2>1, <2>5, <2>8, <3>1, <3>2, <3>3, <3>5, RouteLeaves
  \* A group that goes: its set is the only one that has it.
  <2>9. CASE nhg_id \in GrpOids /\ NextHopGrpMgr_Del(nexthops, TRUE) /\ ForgetRoute(prefix, nexthops)
    <3> DEFINE gone == {nhg_id}
    <3>1. nexthops \in DOMAIN m_EcmpGroups /\ m_EcmpGroups[nexthops] = nhg_id
      BY <2>2, <2>9, SaiAssumption
    <3>2. nexthops \in DOMAIN m_ips2NextHGMap /\ m_ips2NextHGMap[nexthops] = nhg_id
          /\ nhg_id \in DOMAIN groups
      BY <2>5, <2>9, <3>1
    <3>3. /\ ~ GroupInUse(nhg_id)
          /\ groups' = Erase(groups, nhg_id)
          /\ m_ips2NextHGMap' = Erase(m_ips2NextHGMap, nexthops)
      BY <2>9, <3>2 DEF NextHopGrpMgr_Del, remove_next_hop_group, Status
    <3>4. /\ gone \subseteq DOMAIN groups
          /\ groups' = [g \in DOMAIN groups \ gone |-> groups[g]]
          /\ \A p \in DOMAIN routes' : routes'[p].next_hop \notin gone
      BY <3>2, <3>3 DEF GroupInUse, Erase
    <3>5. DOMAIN m_Routes' = DOMAIN m_Routes \ {prefix}
          /\ \A p \in DOMAIN m_Routes' : m_Routes'[p] = m_Routes[p]
      BY <2>9 DEF ForgetRoute, Erase
    <3>6. \A S \in DOMAIN m_EcmpGroups' :
            /\ S \in DOMAIN m_EcmpGroups /\ m_EcmpGroups'[S] = m_EcmpGroups[S]
            /\ S # nexthops
      BY <2>9 DEF ForgetRoute, Erase
    <3>7. \A S \in DOMAIN m_EcmpGroups' : m_EcmpGroups[S] \in GrpOids =>
            /\ m_EcmpGroups[S] \notin gone
            /\ S \in DOMAIN m_ips2NextHGMap' /\ m_ips2NextHGMap'[S] = m_ips2NextHGMap[S]
      BY <2>5, <3>2, <3>3, <3>6 DEF Known, GroupsLive, Erase
    <3>8. nhg_id # NullOid
      BY <2>9, SaiAssumption
    <3>9. BlackHoleIsNull'
      BY <2>3, <2>9, <3>1, <3>8 DEF BlackHoleIsNull, ForgetRoute, Erase
    <3> HIDE DEF gone
    <3> QED
      BY <2>1, <3>4, <3>5, <3>6, <3>7, <3>9, RouteLeaves
  <2>10. CASE nhg_id \in GrpOids /\ DeleteGroupOf(prefix, nexthops, ok)
    <3>1. CASE ok
      BY <2>9, <2>10, <3>1, Zenon DEF DeleteGroupOf
    <3>2. CASE ~ok
      <4>1. UNCHANGED <<groups, m_ips2NextHGMap>>
        BY <2>10, <3>2 DEF DeleteGroupOf, NextHopGrpMgr_Del, remove_next_hop_group, GrpVars
      <4> QED
        BY <2>8, <2>10, <3>2, <4>1 DEF DeleteGroupOf
    <3> QED
      BY <3>1, <3>2
  <2> QED
    BY <1>2, <2>6, <2>7, <2>10
<1>3. CASE remove_route(prefix, FALSE) /\ UNCHANGED <<GrpVars, m_Routes, m_EcmpGroups>>
  BY <1>1, <1>3 DEF remove_route, GrpVars
<1>4. CASE UNCHANGED <<GrpVars, RouteVars>>
  BY <1>1, <1>4 DEF GrpVars, RouteVars
<1> QED
  BY <1>2, <1>3, <1>4, Zenon DEF RouteMgr_Del

-----------------------------------------------------------------------------
(* Every step of the program keeps the invariant. *)
LEMMA DeliveryStep ==
  ASSUME TestRules, NoLeftovers, Known, Known', DeliveryInv, [Next]_vars
  PROVE  DeliveryInv'
<1>0. phase # "NextHopMgr::EraseAll"
  BY DEF DeliveryInv
<1>1. ASSUME NEW ip \in Ips, NEW mac \in Macs, NEW intf \in Intfs,
             AddNeighbor(ip, mac, intf)
      PROVE  DeliveryInv'
  <2>1. OnlyNeighbors /\ phase' = phase
    BY <1>1 DEF AddNeighbor
  <2>2. UsedNextHopsKept /\ NbrsHaveNextHops'
    BY <1>1, NeighborAddKeeps DEF AddNeighbor
  <2> QED
    BY <1>0, <2>1, <2>2, NextHopsMove
<1>2. ASSUME NEW ip \in Ips, NEW ok \in BOOLEAN, NeighborMgr_Del(ip, ok), OnlyNeighbors,
             phase' # "NextHopMgr::EraseAll"
      PROVE  DeliveryInv'
  <2>1. UsedNextHopsKept /\ NbrsHaveNextHops'
    BY <1>2, NeighborDelKeeps
  <2> QED
    BY <1>2, <2>1, NextHopsMove
<1>3. ASSUME NEW ip \in Ips, DelNeighbor(ip)
      PROVE  DeliveryInv'
  BY <1>0, <1>2, <1>3 DEF DelNeighbor
<1>4. ASSUME NEW nexthops \in NextHopSets, AddGroup(nexthops) \/ DelGroup(nexthops)
      PROVE  DeliveryInv'
  BY <1>4 DEF AddGroup, DelGroup, Allowed, TestRules
<1>5. ASSUME NEW prefix \in Prefixes, NEW nexthops \in NextHopSets,
             AddRoute(prefix, nexthops)
      PROVE  DeliveryInv'
  <2>1. OnlyRoutes /\ phase' = phase /\ prefix \in Prefixes \ (DOMAIN m_Routes \cup SetupPrefixes)
    BY <1>5 DEF AddRoute, Allowed, TestRules
  <2>2. PICK ok \in BOOLEAN :
          /\ RouteMgr_Add(prefix, nexthops, ok)
          /\ want' = IF ok THEN Put(want, prefix, nexthops) ELSE want
    BY <1>5, Zenon DEF AddRoute
  <2> QED
    BY <2>1, <2>2, RouteAddKeeps
<1>6. ASSUME NEW prefix \in Prefixes, DelRoute(prefix)
      PROVE  DeliveryInv'
  <2>1. OnlyRoutes /\ phase' = phase
    BY <1>6 DEF DelRoute
  <2>2. PICK ok \in BOOLEAN :
          /\ RouteMgr_Del(prefix, ok)
          /\ want' = IF ok THEN Erase(want, prefix) ELSE want
    BY <1>6, Zenon DEF DelRoute
  <2>3. /\ ok => \A p \in DOMAIN m_Routes \ {prefix} : p \in DOMAIN m_Routes'
        /\ ~ok => UNCHANGED m_Routes
    BY <2>2 DEF RouteMgr_Del, RouteVars, ForgetRoute, DeleteGroupOf, Erase
  <2>4. \A p \in DOMAIN want' :
          p \in DOMAIN want /\ p \in DOMAIN m_Routes' /\ want'[p] = want[p]
    BY <2>2, <2>3 DEF Erase, DeliveryInv, WantIsTable
  <2> QED
    BY <1>0, <2>1, <2>2, <2>4, RouteDelKeeps
<1>7. CASE UNCHANGED <<sai, caches, want>> /\ phase' # "NextHopMgr::EraseAll"
  BY <1>7
     DEF sai, caches, DeliveryInv, NbrsHaveNextHops, NamedAlive, LiveOids, CachePinned, Pinned,
         BlackHoleIsNull, RoutesDeliver, WantIsTable, IpsOf, MembersOf
<1>8. CASE BeginEraseAll
  BY <1>7, <1>8 DEF BeginEraseAll, Allowed, TestRules
<1>9. CASE EraseNextHops
  BY <1>0, <1>9 DEF EraseNextHops, NextHopMgr_EraseAll
<1>10. CASE EraseNeighbors
  <2>1. OnlyNeighbors /\ phase' # "NextHopMgr::EraseAll"
    BY <1>10 DEF EraseNeighbors, NeighborMgr_EraseAll, AfterDel
  <2>2. CASE UNCHANGED NbrVars
    BY <1>7, <2>1, <2>2 DEF NbrVars, OnlyNeighbors, sai, caches
  <2>3. ASSUME NEW ip \in DOMAIN m_ip2NbrMap, NEW ok \in BOOLEAN, NeighborMgr_Del(ip, ok)
        PROVE  DeliveryInv'
    <3>1. ip \in Ips
      BY DEF Known, NbrInv, NbrTypes, IsMap
    <3> QED
      BY <1>2, <2>1, <2>3, <3>1
  <2> QED
    BY <1>10, <2>2, <2>3 DEF EraseNeighbors, NeighborMgr_EraseAll
<1>11. CASE EraseRoutes
  <2>1. OnlyRoutes /\ phase' # "NextHopMgr::EraseAll"
    BY <1>11 DEF EraseRoutes, RouteMgr_EraseAll, AfterDel
  <2>2. \A p \in DOMAIN want' :
          p \in DOMAIN want /\ p \in DOMAIN m_Routes' /\ want'[p] = want[p]
    BY <1>11 DEF EraseRoutes, DeliveryInv, WantIsTable
  <2>3. CASE UNCHANGED <<GrpVars, RouteVars>>
    <3>1. UNCHANGED <<sai, caches>> /\ WantIsTable'
      BY <2>1, <2>2, <2>3 DEF GrpVars, RouteVars, OnlyRoutes, sai, caches, DeliveryInv, WantIsTable
    <3>2. NamedAlive' /\ CachePinned' /\ BlackHoleIsNull' /\ RoutesDeliver'
      BY <3>1
         DEF sai, caches, DeliveryInv, NamedAlive, LiveOids, CachePinned, Pinned,
             BlackHoleIsNull, RoutesDeliver, IpsOf, MembersOf
    <3> QED
      BY <2>1, <3>1, <3>2 DEF sai, caches, DeliveryInv, NbrsHaveNextHops
  <2>4. ASSUME NEW prefix \in DOMAIN m_Routes, NEW ok \in BOOLEAN, RouteMgr_Del(prefix, ok)
        PROVE  DeliveryInv'
    <3>1. prefix \in Prefixes
      BY DEF Known, RouteInv, IsMap
    <3> QED
      BY <2>1, <2>2, <2>4, <3>1, RouteDelKeeps
  <2> QED
    BY <1>11, <2>3, <2>4 DEF EraseRoutes, RouteMgr_EraseAll
<1>12. CASE UNCHANGED vars
  BY <1>0, <1>7, <1>12 DEF vars
<1> QED
  BY <1>1, <1>3, <1>4, <1>5, <1>6, <1>8, <1>9, <1>10, <1>11, <1>12 DEF Next, Crashed

LEMMA DeliveryStart ==
  ASSUME Init
  PROVE  DeliveryInv
<1>1. /\ next_hops = EmptyMap /\ groups = EmptyMap /\ m_Routes = EmptyMap /\ want = EmptyMap
      /\ m_ip2NextHopMap = EmptyMap /\ m_ip2NbrMap = EmptyMap /\ phase = "idle"
      /\ m_EcmpGroups = [nexthops \in {BlackHole} |-> NullOid]
      /\ routes = [prefix \in SetupPrefixes |-> SetupRoute(prefix)]
  BY DEF Init
<1>2. NamedAlive
  BY <1>1 DEF NamedAlive, LiveOids, SetupRoute, EmptyMap
<1>3. CachePinned
  BY <1>1, SaiAssumption DEF CachePinned, Pinned, IpsOf, MembersOf, EmptyMap
<1> QED
  BY <1>1, <1>2, <1>3
     DEF DeliveryInv, NbrsHaveNextHops, BlackHoleIsNull, RoutesDeliver, WantIsTable, EmptyMap

(* Under the rules of the test program, also when neighbors move and routes share  *)
(* their next hops, and whatever other call fails, no route carries traffic to a   *)
(* neighbor that its last successful Add did not name.                             *)
THEOREM NeverMisdelivered ==
  ASSUME TestRules, NoLeftovers
  PROVE  Spec => []NoMisdelivery
<1>1. "group_of_one" \notin Liberties
  BY DEF TestRules
<1>2. Spec => []Known
  BY <1>1, NbrInvariant, RouteInvariant, GroupsAlwaysLive, PTL DEF Known
<1>3. Init => DeliveryInv
  BY DeliveryStart
<1>4. Known /\ Known' /\ DeliveryInv /\ [Next]_vars => DeliveryInv'
  BY DeliveryStep
<1>5. DeliveryInv => NoMisdelivery
  BY InvDelivers
<1> QED
  BY <1>2, <1>3, <1>4, <1>5, PTL DEF Spec

-----------------------------------------------------------------------------
(* No neighbor leaves under a route, whatever calls fail but one, and whatever the *)
(* caller does but move neighbors: a next hop is created once for its address and  *)
(* is listed as long as it lives.                                                  *)
Current(n) ==
  /\ next_hops[n].ip \in DOMAIN m_ip2NextHopMap
  /\ m_ip2NextHopMap[next_hops[n].ip].nhid = n

AllCurrent == \A n \in DOMAIN next_hops : Current(n)

GroupsAlive == \A g \in DOMAIN groups : groups[g] \subseteq DOMAIN next_hops

ListedInv == AllCurrent /\ GroupsAlive

LEMMA GroupAddAlive ==
  ASSUME GroupsAlive, UNCHANGED next_hops, NEW nexthops, NEW ok \in BOOLEAN,
         NextHopGrpMgr_Add(nexthops, ok)
  PROVE  GroupsAlive'
<1>1. CASE UNCHANGED groups
  BY <1>1 DEF GroupsAlive
<1>2. ASSUME NEW g, create_next_hop_group(Nhids(nexthops), g, TRUE)
      PROVE  GroupsAlive'
  BY <1>2 DEF create_next_hop_group, Status, Put, GroupsAlive
<1>3. CASE create_next_hop_group(Nhids(nexthops), NullOid, FALSE)
  BY <1>1, <1>3 DEF create_next_hop_group
<1>4. CASE UNCHANGED GrpVars
  BY <1>1, <1>4 DEF GrpVars
<1> QED
  BY <1>1, <1>2, <1>3, <1>4, Zenon DEF NextHopGrpMgr_Add

LEMMA GroupDelAlive ==
  ASSUME GroupsAlive, UNCHANGED next_hops, NEW nexthops, NEW ok \in BOOLEAN,
         NextHopGrpMgr_Del(nexthops, ok)
  PROVE  GroupsAlive'
BY DEF NextHopGrpMgr_Del, remove_next_hop_group, GrpVars, GroupsAlive, Erase

LEMMA NextHopDelListed ==
  ASSUME ListedInv, UNCHANGED groups, NEW ip, NEW ok \in BOOLEAN, NextHopMgr_Del(ip, ok)
  PROVE  ListedInv'
<1>1. CASE UNCHANGED NhVars
  BY <1>1 DEF NhVars, ListedInv, AllCurrent, Current, GroupsAlive
<1>2. CASE /\ ip \in DOMAIN m_ip2NextHopMap
           /\ remove_next_hop(m_ip2NextHopMap[ip].nhid, ok)
           /\ m_ip2NextHopMap' = IF ok THEN Erase(m_ip2NextHopMap, ip) ELSE m_ip2NextHopMap
  <2> DEFINE nhid == m_ip2NextHopMap[ip].nhid
  <2>1. CASE ~ok
    BY <1>1, <1>2, <2>1 DEF remove_next_hop, NhVars
  <2>2. CASE ok
    <3>1. /\ ~ NextHopInUse(nhid) /\ next_hops' = Erase(next_hops, nhid)
          /\ m_ip2NextHopMap' = Erase(m_ip2NextHopMap, ip)
      BY <1>2, <2>2 DEF remove_next_hop, Status
    <3>2. AllCurrent'
      BY <3>1 DEF ListedInv, AllCurrent, Current, Erase
    <3>3. GroupsAlive'
      BY <3>1 DEF ListedInv, GroupsAlive, NextHopInUse, Erase
    <3> QED
      BY <3>2, <3>3 DEF ListedInv
  <2> QED
    BY <2>1, <2>2
<1> QED
  BY <1>1, <1>2, Zenon DEF NextHopMgr_Del

LEMMA NeighborDelListed ==
  ASSUME ListedInv, UNCHANGED groups, NEW ip, NEW ok \in BOOLEAN, NeighborMgr_Del(ip, ok)
  PROVE  ListedInv'
<1>1. CASE UNCHANGED NbrVars
  BY <1>1 DEF NbrVars, ListedInv, AllCurrent, Current, GroupsAlive
<1>2. CASE NextHopMgr_Del(ip, FALSE)
  BY <1>2, NextHopDelListed
<1>3. CASE NextHopMgr_Del(ip, TRUE)
  BY <1>3, NextHopDelListed
<1> QED
  BY <1>1, <1>2, <1>3, Zenon DEF NeighborMgr_Del

LEMMA RouteStepListed ==
  ASSUME ListedInv, OnlyRoutes, GroupsAlive'
  PROVE  ListedInv'
BY DEF OnlyRoutes, ListedInv, AllCurrent, Current

LEMMA RouteDelListed ==
  ASSUME ListedInv, OnlyRoutes, NEW prefix, NEW ok \in BOOLEAN, RouteMgr_Del(prefix, ok)
  PROVE  ListedInv'
<1>1. CASE UNCHANGED GrpVars
  <2>1. GroupsAlive'
    BY <1>1 DEF GrpVars, ListedInv, GroupsAlive, OnlyRoutes
  <2> QED
    BY <2>1, RouteStepListed
<1>2. CASE DeleteGroupOf(prefix, m_Routes[prefix], ok)
  <2>1. GroupsAlive'
    BY <1>2, GroupDelAlive DEF DeleteGroupOf, OnlyRoutes, ListedInv
  <2> QED
    BY <2>1, RouteStepListed
<1> QED
  BY <1>1, <1>2, Zenon DEF RouteMgr_Del

LEMMA RouteAddListed ==
  ASSUME ListedInv, OnlyRoutes, NEW prefix, NEW nexthops, NEW ok \in BOOLEAN,
         RouteMgr_Add(prefix, nexthops, ok)
  PROVE  ListedInv'
<1>1. CASE UNCHANGED groups
  <2>1. GroupsAlive'
    BY <1>1 DEF ListedInv, GroupsAlive, OnlyRoutes
  <2> QED
    BY <2>1, RouteStepListed
<1>2. ASSUME NEW created \in BOOLEAN, NextHopGrpMgr_Add(nexthops, created)
      PROVE  ListedInv'
  <2>1. GroupsAlive'
    BY <1>2, GroupAddAlive DEF OnlyRoutes, ListedInv
  <2> QED
    BY <2>1, RouteStepListed
<1>3. CASE Unresolved(nexthops)
  BY <1>1, <1>2, <1>3, Zenon DEF Unresolved, GrpVars
<1>4. ASSUME NEW oid, Resolved(nexthops, oid)
      PROVE  ListedInv'
  <2>1. \/ UNCHANGED groups
        \/ NextHopGrpMgr_Add(nexthops, TRUE)
    BY <1>4, Zenon DEF Resolved, GrpVars
  <2> QED
    BY <1>1, <1>2, <2>1
<1> QED
  BY <1>3, <1>4, Zenon DEF RouteMgr_Add

LEMMA AddNeighborListed ==
  ASSUME "move_neighbor" \notin Liberties, "object_type_query" \notin Faulty,
         ListedInv, NbrInv, NEW ip, NEW mac, NEW intf, AddNeighbor(ip, mac, intf)
  PROVE  ListedInv'
<1>1. UNCHANGED groups /\ ip \notin DOMAIN m_ip2NextHopMap
  BY DEF AddNeighbor, OnlyNeighbors, Allowed, NbrInv, NeighborHasItsNextHop
<1>2. PICK ok \in BOOLEAN : NeighborMgr_Add(ip, mac, intf, ok)
  BY DEF AddNeighbor
<1>3. CASE UNCHANGED NhVars
  BY <1>1, <1>3 DEF NhVars, ListedInv, AllCurrent, Current, GroupsAlive
<1>4. ASSUME NEW nhid \in NhOids, create_next_hop(ip, intf, nhid, TRUE),
             m_ip2NextHopMap' = Put(m_ip2NextHopMap, ip,
                                    [macAddr |-> mac, intfAlias |-> intf,
                                     nhid |-> nhid, rif_id |-> intf])
      PROVE  ListedInv'
  <2>1. /\ nhid \notin DOMAIN next_hops
        /\ next_hops' = Put(next_hops, nhid, [ip |-> ip, rif |-> intf])
    BY <1>4 DEF create_next_hop
  <2>2. AllCurrent'
    BY <1>1, <1>4, <2>1 DEF ListedInv, AllCurrent, Current, Put
  <2>3. GroupsAlive'
    BY <1>1, <2>1 DEF ListedInv, GroupsAlive, Put
  <2> QED
    BY <2>2, <2>3 DEF ListedInv
<1>5. CASE create_next_hop(ip, intf, NullOid, FALSE) /\ UNCHANGED m_ip2NextHopMap
  BY <1>3, <1>5 DEF create_next_hop, NhVars
<1>6. CASE NextHopMgr_Add(ip, mac, intf, ok)
  BY <1>3, <1>4, <1>5, <1>6, Zenon DEF NextHopMgr_Add
<1> QED
  BY <1>2, <1>3, <1>6 DEF NeighborMgr_Add, NhVars

LEMMA ListedStep ==
  ASSUME "move_neighbor" \notin Liberties, "object_type_query" \notin Faulty,
         ListedInv, NbrInv, [Next]_vars
  PROVE  ListedInv'
<1>1. ASSUME NEW ip \in Ips, NEW mac \in Macs, NEW intf \in Intfs,
             AddNeighbor(ip, mac, intf)
      PROVE  ListedInv'
  BY <1>1, AddNeighborListed
<1>2. ASSUME NEW ip \in Ips, DelNeighbor(ip)
      PROVE  ListedInv'
  BY <1>2, NeighborDelListed DEF DelNeighbor, OnlyNeighbors
<1>3. ASSUME NEW nexthops \in NextHopSets, AddGroup(nexthops) \/ DelGroup(nexthops)
      PROVE  ListedInv'
  <2>1. OnlyRoutes
    BY <1>3 DEF AddGroup, DelGroup
  <2>2. GroupsAlive'
    BY <1>3, <2>1, GroupAddAlive, GroupDelAlive DEF AddGroup, DelGroup, OnlyRoutes, ListedInv
  <2> QED
    BY <2>1, <2>2, RouteStepListed
<1>4. ASSUME NEW prefix \in Prefixes, NEW nexthops \in NextHopSets,
             AddRoute(prefix, nexthops)
      PROVE  ListedInv'
  BY <1>4, RouteAddListed DEF AddRoute
<1>5. ASSUME NEW prefix \in Prefixes, DelRoute(prefix)
      PROVE  ListedInv'
  BY <1>5, RouteDelListed DEF DelRoute
<1>6. CASE UNCHANGED <<groups, NhVars>>
  BY <1>6 DEF NhVars, ListedInv, AllCurrent, Current, GroupsAlive
<1>7. CASE BeginEraseAll
  BY <1>6, <1>7 DEF BeginEraseAll, sai, caches, NhVars
<1>8. CASE EraseNextHops
  BY <1>6, <1>8, NextHopDelListed DEF EraseNextHops, NextHopMgr_EraseAll, OnlyNeighbors
<1>9. CASE EraseNeighbors
  BY <1>6, <1>9, NeighborDelListed
     DEF EraseNeighbors, NeighborMgr_EraseAll, OnlyNeighbors, NbrVars, NhVars
<1>10. CASE EraseRoutes
  BY <1>6, <1>10, RouteDelListed
     DEF EraseRoutes, RouteMgr_EraseAll, OnlyRoutes, GrpVars, NhVars
<1>11. CASE UNCHANGED vars
  BY <1>6, <1>11 DEF vars, sai, caches, NhVars
<1> QED
  BY <1>1, <1>2, <1>3, <1>4, <1>5, <1>7, <1>8, <1>9, <1>10, <1>11 DEF Next, Crashed

\* What a neighbor that leaves the table has left: no route goes through it.
KeptWhileUsed ==
  \A ip \in DOMAIN m_ip2NbrMap \ DOMAIN m_ip2NbrMap' :
    \A prefix \in DOMAIN routes : ip \notin Destinations(prefix)

LEMMA NeighborDelUnused ==
  ASSUME ListedInv, NEW ip, NEW ok \in BOOLEAN, NeighborMgr_Del(ip, ok)
  PROVE  KeptWhileUsed
<1>1. CASE DOMAIN m_ip2NbrMap' = DOMAIN m_ip2NbrMap
  BY <1>1 DEF KeptWhileUsed
<1>2. CASE /\ NextHopMgr_Del(ip, TRUE)
           /\ m_ip2NbrMap' = IF ok THEN Erase(m_ip2NbrMap, ip) ELSE m_ip2NbrMap
  <2>1. DOMAIN m_ip2NbrMap \ DOMAIN m_ip2NbrMap' \subseteq {ip}
    BY <1>2 DEF Erase
  <2>2. ip \in DOMAIN m_ip2NextHopMap => ~ NextHopInUse(m_ip2NextHopMap[ip].nhid)
    BY <1>2 DEF NextHopMgr_Del, remove_next_hop, Status
  <2>3. ASSUME NEW prefix \in DOMAIN routes, ip \in Destinations(prefix)
        PROVE  FALSE
    <3>1. PICK n \in MembersOf(routes[prefix].next_hop) : next_hops[n].ip = ip
      BY <2>3 DEF Destinations
    <3>2. n \in DOMAIN next_hops /\ NextHopInUse(n)
      BY <3>1 DEF MembersOf, NextHopInUse, ListedInv, GroupsAlive
    <3> QED
      BY <2>2, <3>1, <3>2 DEF ListedInv, AllCurrent, Current
  <2> QED
    BY <2>1, <2>3 DEF KeptWhileUsed
<1>3. CASE UNCHANGED m_ip2NbrMap
  BY <1>1, <1>3
<1> QED
  BY <1>2, <1>3, Zenon DEF NeighborMgr_Del, NbrVars

LEMMA KeptStep ==
  ASSUME ListedInv, [Next]_vars
  PROVE  KeptWhileUsed
<1>1. CASE DOMAIN m_ip2NbrMap \subseteq DOMAIN m_ip2NbrMap'
  BY <1>1 DEF KeptWhileUsed
<1>2. ASSUME NEW ip, NEW mac, NEW intf, AddNeighbor(ip, mac, intf)
      PROVE  KeptWhileUsed
  <2>1. DOMAIN m_ip2NbrMap \subseteq DOMAIN m_ip2NbrMap'
    BY <1>2 DEF AddNeighbor, NeighborMgr_Add, StoreNeighbor, Put
  <2> QED
    BY <1>1, <2>1
<1>3. ASSUME NEW ip, DelNeighbor(ip)
      PROVE  KeptWhileUsed
  BY <1>3, NeighborDelUnused DEF DelNeighbor
<1>4. CASE EraseNeighbors
  BY <1>1, <1>4, NeighborDelUnused DEF EraseNeighbors, NeighborMgr_EraseAll, NbrVars
<1>5. CASE UNCHANGED m_ip2NbrMap
  BY <1>1, <1>5
<1>6. ASSUME NEW prefix, NEW nexthops, AddRoute(prefix, nexthops)
      PROVE  UNCHANGED m_ip2NbrMap
  BY <1>6 DEF AddRoute, OnlyRoutes
<1>7. ASSUME NEW nexthops, AddGroup(nexthops) \/ DelGroup(nexthops)
      PROVE  UNCHANGED m_ip2NbrMap
  BY <1>7 DEF AddGroup, DelGroup, OnlyRoutes
<1>8. ASSUME NEW prefix, DelRoute(prefix)
      PROVE  UNCHANGED m_ip2NbrMap
  BY <1>8 DEF DelRoute, OnlyRoutes
<1>9. BeginEraseAll \/ EraseNextHops \/ EraseRoutes \/ UNCHANGED vars => UNCHANGED m_ip2NbrMap
  BY DEF BeginEraseAll, EraseNextHops, EraseRoutes, OnlyRoutes, vars, caches
<1> QED
  BY <1>2, <1>3, <1>4, <1>5, <1>6, <1>7, <1>8, <1>9 DEF Next, Crashed

(* A neighbor leaves the table only when no route of the ASIC goes through it,     *)
(* whichever calls fail, and also when routes are updated, share next hops or name *)
(* a prefix of setup, when groups are made directly and next hops erased alone.    *)
(* Two things are excluded.  A neighbor that moves leaves its old next hop behind; *)
(* so does an Add whose new next hop is not of its type, and a cached id can then  *)
(* bring that next hop into use.                                                   *)
THEOREM NeighborsKeptWhileUsed ==
  ASSUME "move_neighbor" \notin Liberties, "object_type_query" \notin Faulty
  PROVE  Spec => NeighborKeptWhileUsed
<1>1. Init => ListedInv
  BY DEF Init, ListedInv, AllCurrent, GroupsAlive, EmptyMap
<1>2. ListedInv /\ NbrInv /\ [Next]_vars => ListedInv'
  BY ListedStep
<1>3. ListedInv /\ [Next]_vars => [KeptWhileUsed]_vars
  BY KeptStep
<1>4. Spec => [][KeptWhileUsed]_vars
  BY <1>1, <1>2, <1>3, NbrInvariant, PTL DEF Spec
<1> QED
  BY <1>4 DEF NeighborKeptWhileUsed, KeptWhileUsed
=============================================================================
