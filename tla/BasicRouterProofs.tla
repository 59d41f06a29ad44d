------------------------- MODULE BasicRouterProofs --------------------------
(***************************************************************************)
(* What holds of the L3 managers for every set of addresses, interfaces,   *)
(* prefixes and object ids, whatever SAI calls fail and whatever liberties *)
(* the caller takes.                                                       *)
(***************************************************************************)
EXTENDS BasicRouter, FiniteSetTheorems, TLAPS

-----------------------------------------------------------------------------
(* The neighbor and next hop managers: the inductive invariant of their state. *)
NbrInv == NbrTypes /\ NextHopsLive /\ NeighborHasItsNextHop /\ NeighborsLive

nbrVars == <<neighbors, next_hops, m_ip2NextHopMap, m_ip2NbrMap>>

(* The invariant is about the neighbor and next hop tables only. *)
LEMMA NbrInvUnchanged ==
  ASSUME NbrInv, UNCHANGED nbrVars
  PROVE  NbrInv'
BY DEF NbrInv, nbrVars, NbrTypes, NextHopsLive, NeighborHasItsNextHop, NeighborsLive

(* A created next hop has an id that no entry of the manager holds. *)
LEMMA NewNextHop ==
  ASSUME NbrTypes, NextHopsLive,
         NEW ip \in Ips, NEW mac \in Macs, NEW intf \in Rifs, NEW nhid \in NhOids,
         create_next_hop(ip, intf, nhid, TRUE)
  PROVE  /\ IsMap(next_hops', NhOids, [ip : Ips, rif : Rifs])
         /\ DOMAIN next_hops' = DOMAIN next_hops \cup {nhid}
         /\ next_hops'[nhid] = [ip |-> ip, rif |-> intf]
         /\ nhid \notin DOMAIN next_hops
         /\ \A n \in DOMAIN next_hops : next_hops'[n] = next_hops[n]
BY DEF create_next_hop, NbrTypes, IsMap, Put

(* An Add of the next hop manager keeps its invariant; when it returns true, ip has
   an entry and no other address is touched. *)
LEMMA NextHopAdd ==
  ASSUME NbrTypes, NextHopsLive,
         NEW ip \in Ips, NEW mac \in Macs, NEW intf \in Intfs, NEW ok \in BOOLEAN,
         NextHopMgr_Add(ip, mac, intf, ok)
  PROVE  /\ IsMap(next_hops', NhOids, [ip : Ips, rif : Rifs])
         /\ IsMap(m_ip2NextHopMap', Ips, NextHopEntry)
         /\ NextHopsLive'
         /\ \A x \in DOMAIN m_ip2NextHopMap' \ {ip} :
              /\ x \in DOMAIN m_ip2NextHopMap
              /\ m_ip2NextHopMap'[x] = m_ip2NextHopMap[x]
         /\ ok => ip \in DOMAIN m_ip2NextHopMap'
         /\ ~ok => m_ip2NextHopMap' = m_ip2NextHopMap
<1>1. CASE intf \notin Rifs
  BY <1>1 DEF NextHopMgr_Add, NhVars, NbrTypes, NextHopsLive
<1>2. CASE intf \in Rifs /\ UNCHANGED NhVars /\ ok = TRUE /\ SameNextHop(ip, mac, intf)
  BY <1>2 DEF NhVars, NbrTypes, NextHopsLive, SameNextHop
<1>3. CASE /\ intf \in Rifs /\ ~SameNextHop(ip, mac, intf) /\ ok = FALSE
           /\ create_next_hop(ip, intf, NullOid, FALSE) /\ UNCHANGED m_ip2NextHopMap
  BY <1>3 DEF create_next_hop, NbrTypes, NextHopsLive
<1>4. ASSUME intf \in Rifs, NEW nhid \in NhOids, create_next_hop(ip, intf, nhid, TRUE),
             \/ /\ ok = TRUE
                /\ m_ip2NextHopMap' = Put(m_ip2NextHopMap, ip,
                     [macAddr |-> mac, intfAlias |-> intf, nhid |-> nhid, rif_id |-> intf])
             \/ ok = FALSE /\ UNCHANGED m_ip2NextHopMap
      PROVE  /\ IsMap(next_hops', NhOids, [ip : Ips, rif : Rifs])
             /\ IsMap(m_ip2NextHopMap', Ips, NextHopEntry)
             /\ NextHopsLive'
             /\ \A x \in DOMAIN m_ip2NextHopMap' \ {ip} :
                  /\ x \in DOMAIN m_ip2NextHopMap
                  /\ m_ip2NextHopMap'[x] = m_ip2NextHopMap[x]
             /\ ok => ip \in DOMAIN m_ip2NextHopMap'
             /\ ~ok => m_ip2NextHopMap' = m_ip2NextHopMap
  <2>1. /\ IsMap(next_hops', NhOids, [ip : Ips, rif : Rifs])
        /\ DOMAIN next_hops' = DOMAIN next_hops \cup {nhid}
        /\ next_hops'[nhid] = [ip |-> ip, rif |-> intf]
        /\ nhid \notin DOMAIN next_hops
        /\ \A n \in DOMAIN next_hops : next_hops'[n] = next_hops[n]
    BY <1>4, NewNextHop
  <2>2. IsMap(m_ip2NextHopMap, Ips, NextHopEntry)
    BY DEF NbrTypes
  <2>3. CASE ok = FALSE /\ UNCHANGED m_ip2NextHopMap
    BY <2>1, <2>2, <2>3 DEF NextHopsLive
  <2>4. CASE /\ ok = TRUE
             /\ m_ip2NextHopMap' = Put(m_ip2NextHopMap, ip,
                  [macAddr |-> mac, intfAlias |-> intf, nhid |-> nhid, rif_id |-> intf])
    <3>1. /\ DOMAIN m_ip2NextHopMap' = DOMAIN m_ip2NextHopMap \cup {ip}
          /\ m_ip2NextHopMap'[ip] =
               [macAddr |-> mac, intfAlias |-> intf, nhid |-> nhid, rif_id |-> intf]
          /\ \A x \in DOMAIN m_ip2NextHopMap \ {ip} :
               m_ip2NextHopMap'[x] = m_ip2NextHopMap[x]
      BY <2>4 DEF Put
    <3>2. IsMap(m_ip2NextHopMap', Ips, NextHopEntry)
      BY <2>2, <2>4 DEF Put, IsMap, NextHopEntry
    <3>3. NextHopsLive'
      BY <2>1, <3>1 DEF NextHopsLive
    <3> QED
      BY <2>1, <2>4, <3>1, <3>2, <3>3
  <2> QED
    BY <1>4, <2>3, <2>4
<1> QED
  BY <1>1, <1>2, <1>3, <1>4 DEF NextHopMgr_Add

(* A Del of the next hop manager that returns true leaves no entry of ip. *)
LEMMA NextHopDel ==
  ASSUME NbrTypes, NextHopsLive,
         NEW ip \in Ips, NEW ok \in BOOLEAN, NextHopMgr_Del(ip, ok)
  PROVE  /\ IsMap(next_hops', NhOids, [ip : Ips, rif : Rifs])
         /\ IsMap(m_ip2NextHopMap', Ips, NextHopEntry)
         /\ NextHopsLive'
         /\ \A x \in DOMAIN m_ip2NextHopMap' :
              /\ x \in DOMAIN m_ip2NextHopMap
              /\ m_ip2NextHopMap'[x] = m_ip2NextHopMap[x]
         /\ ok => ip \notin DOMAIN m_ip2NextHopMap'
<1>1. CASE ip \notin DOMAIN m_ip2NextHopMap
  BY <1>1 DEF NextHopMgr_Del, NhVars, NbrTypes, NextHopsLive
<1>2. CASE ip \in DOMAIN m_ip2NextHopMap /\ ~ok
  BY <1>2 DEF NextHopMgr_Del, remove_next_hop, NbrTypes, NextHopsLive
<1>3. CASE ip \in DOMAIN m_ip2NextHopMap /\ ok
  <2>1. /\ next_hops' = Erase(next_hops, m_ip2NextHopMap[ip].nhid)
        /\ m_ip2NextHopMap' = Erase(m_ip2NextHopMap, ip)
    BY <1>3 DEF NextHopMgr_Del, remove_next_hop
  <2>2. /\ IsMap(next_hops', NhOids, [ip : Ips, rif : Rifs])
        /\ IsMap(m_ip2NextHopMap', Ips, NextHopEntry)
    BY <2>1 DEF NbrTypes, IsMap, Erase
  <2>3. \A x \in DOMAIN m_ip2NextHopMap' :
          /\ x \in DOMAIN m_ip2NextHopMap /\ x # ip
          /\ m_ip2NextHopMap'[x] = m_ip2NextHopMap[x]
    BY <2>1 DEF Erase
  <2>4. NextHopsLive'
    \* Entries of different addresses hold different ids.
    <3> SUFFICES ASSUME NEW x \in DOMAIN m_ip2NextHopMap'
                 PROVE  /\ m_ip2NextHopMap'[x].nhid \in DOMAIN next_hops'
                        /\ next_hops'[m_ip2NextHopMap'[x].nhid] =
                             [ip |-> x, rif |-> m_ip2NextHopMap'[x].rif_id]
      BY DEF NextHopsLive
    <3>1. /\ next_hops[m_ip2NextHopMap[x].nhid] =
              [ip |-> x, rif |-> m_ip2NextHopMap[x].rif_id]
          /\ m_ip2NextHopMap[x].nhid \in DOMAIN next_hops
          /\ next_hops[m_ip2NextHopMap[ip].nhid] =
              [ip |-> ip, rif |-> m_ip2NextHopMap[ip].rif_id]
      BY <1>3, <2>3 DEF NextHopsLive
    <3>2. m_ip2NextHopMap[x].nhid # m_ip2NextHopMap[ip].nhid
      BY <3>1, <2>3
    <3> QED
      BY <2>1, <2>3, <3>1, <3>2 DEF Erase
  <2> QED
    BY <2>2, <2>3, <2>4
<1> QED
  BY <1>1, <1>2, <1>3

(* NeighborMgr::Add keeps the invariant on each of its ways out. *)
LEMMA NeighborAdd ==
  ASSUME NbrInv,
         NEW ip \in Ips, NEW mac \in Macs, NEW intf \in Intfs, NEW ok \in BOOLEAN,
         NeighborMgr_Add(ip, mac, intf, ok)
  PROVE  NbrInv'
<1>1. CASE /\ create_neighbor_entry(intf, ip, FALSE)
           /\ UNCHANGED <<next_hops, m_ip2NextHopMap, m_ip2NbrMap>>
  BY <1>1, NbrInvUnchanged DEF create_neighbor_entry, nbrVars
<1>2. ASSUME create_neighbor_entry(intf, ip, TRUE),
             NextHopMgr_Add(ip, mac, intf, ok),
             m_ip2NbrMap' =
               IF ok THEN Put(m_ip2NbrMap, ip,
                              [macAddr |-> mac, intfAlias |-> intf,
                               nhid |-> m_ip2NextHopMap'[ip].nhid, rif_id |-> intf])
                     ELSE m_ip2NbrMap
      PROVE  NbrInv'
  <2>1. neighbors' = neighbors \cup {<<intf, ip>>} /\ intf \in Rifs
    BY <1>2 DEF create_neighbor_entry, Status
  <2>2. /\ IsMap(next_hops', NhOids, [ip : Ips, rif : Rifs])
        /\ IsMap(m_ip2NextHopMap', Ips, NextHopEntry)
        /\ NextHopsLive'
        /\ \A x \in DOMAIN m_ip2NextHopMap' \ {ip} :
             /\ x \in DOMAIN m_ip2NextHopMap
             /\ m_ip2NextHopMap'[x] = m_ip2NextHopMap[x]
        /\ ok => ip \in DOMAIN m_ip2NextHopMap'
        /\ ~ok => m_ip2NextHopMap' = m_ip2NextHopMap
    BY <1>2, NextHopAdd DEF NbrInv
  <2>3. neighbors' \subseteq Rifs \X Ips
    BY <2>1 DEF NbrInv, NbrTypes
  <2>4. CASE ~ok
    <3>1. m_ip2NbrMap' = m_ip2NbrMap
      BY <1>2, <2>4
    <3> QED
      BY <2>1, <2>2, <2>3, <2>4, <3>1
      DEF NbrInv, NbrTypes, NeighborHasItsNextHop, NeighborsLive
  <2>5. CASE ok
    <3>1. m_ip2NextHopMap'[ip] \in NextHopEntry
      BY <2>2, <2>5 DEF IsMap
    <3>2. /\ DOMAIN m_ip2NbrMap' = DOMAIN m_ip2NbrMap \cup {ip}
          /\ m_ip2NbrMap'[ip].nhid = m_ip2NextHopMap'[ip].nhid
          /\ m_ip2NbrMap'[ip].rif_id = intf
          /\ \A x \in DOMAIN m_ip2NbrMap \ {ip} : m_ip2NbrMap'[x] = m_ip2NbrMap[x]
      BY <1>2, <2>5 DEF Put
    <3>3. IsMap(m_ip2NbrMap', Ips, NeighborEntry)
      BY <1>2, <2>5, <3>1
      DEF NbrInv, NbrTypes, IsMap, Put, NeighborEntry, NextHopEntry
    <3>4. NeighborHasItsNextHop'
      BY <2>2, <3>2 DEF NbrInv, NeighborHasItsNextHop
    <3>5. NeighborsLive'
      BY <2>1, <3>2 DEF NbrInv, NeighborsLive
    <3> QED
      BY <2>2, <2>3, <3>3, <3>4, <3>5 DEF NbrInv, NbrTypes
  <2> QED
    BY <2>4, <2>5
<1> QED
  BY <1>1, <1>2 DEF NeighborMgr_Add, StoreNeighbor

(* NeighborMgr::Del keeps the invariant, also when it fails between its two calls. *)
LEMMA NeighborDel ==
  ASSUME NbrInv, NEW ip \in Ips, NEW ok \in BOOLEAN, NeighborMgr_Del(ip, ok)
  PROVE  NbrInv'
<1>1. CASE UNCHANGED NbrVars
  BY <1>1, NbrInvUnchanged DEF NbrVars, nbrVars
<1>2. ASSUME NextHopMgr_Del(ip, FALSE), UNCHANGED <<neighbors, m_ip2NbrMap>>
      PROVE  NbrInv'
  <2>1. UNCHANGED nbrVars
    BY <1>2 DEF NextHopMgr_Del, remove_next_hop, nbrVars
  <2> QED
    BY <2>1, NbrInvUnchanged
<1>3. ASSUME ip \in DOMAIN m_ip2NbrMap, NextHopMgr_Del(ip, TRUE),
             remove_neighbor_entry(m_ip2NbrMap[ip].rif_id, ip, ok),
             m_ip2NbrMap' = IF ok THEN Erase(m_ip2NbrMap, ip) ELSE m_ip2NbrMap
      PROVE  NbrInv'
  <2>1. /\ IsMap(next_hops', NhOids, [ip : Ips, rif : Rifs])
        /\ IsMap(m_ip2NextHopMap', Ips, NextHopEntry)
        /\ NextHopsLive'
        /\ \A x \in DOMAIN m_ip2NextHopMap' :
             /\ x \in DOMAIN m_ip2NextHopMap
             /\ m_ip2NextHopMap'[x] = m_ip2NextHopMap[x]
        /\ ip \notin DOMAIN m_ip2NextHopMap'
    BY <1>3, NextHopDel DEF NbrInv
  <2>2. CASE ~ok
    <3>1. UNCHANGED <<neighbors, m_ip2NbrMap>>
      BY <1>3, <2>2 DEF remove_neighbor_entry
    <3> QED
      BY <2>1, <3>1 DEF NbrInv, NbrTypes, NeighborHasItsNextHop, NeighborsLive
  <2>3. CASE ok
    <3>1. /\ neighbors' = neighbors \ {<<m_ip2NbrMap[ip].rif_id, ip>>}
          /\ m_ip2NbrMap' = Erase(m_ip2NbrMap, ip)
      BY <1>3, <2>3 DEF remove_neighbor_entry
    <3>2. /\ DOMAIN m_ip2NbrMap' = DOMAIN m_ip2NbrMap \ {ip}
          /\ \A x \in DOMAIN m_ip2NbrMap' : m_ip2NbrMap'[x] = m_ip2NbrMap[x]
      BY <3>1 DEF Erase
    <3>3. IsMap(m_ip2NbrMap', Ips, NeighborEntry)
      BY <3>1 DEF NbrInv, NbrTypes, IsMap, Erase
    <3>4. NeighborHasItsNextHop'
      BY <2>1, <3>2 DEF NbrInv, NeighborHasItsNextHop
    <3>5. NeighborsLive'
      BY <3>1, <3>2 DEF NbrInv, NeighborsLive
    <3>6. neighbors' \subseteq Rifs \X Ips
      BY <3>1 DEF NbrInv, NbrTypes
    <3> QED
      BY <2>1, <3>3, <3>4, <3>5, <3>6 DEF NbrInv, NbrTypes
  <2> QED
    BY <2>2, <2>3
<1> QED
  BY <1>1, <1>2, <1>3 DEF NeighborMgr_Del

(* A removal by the next hop manager alone (NextHopMgr::EraseAll) leaves neighbors
   without a next hop, which the invariant admits. *)
LEMMA NextHopErased ==
  ASSUME NbrInv, NEW ip \in Ips, NEW ok \in BOOLEAN, NextHopMgr_Del(ip, ok),
         UNCHANGED <<neighbors, m_ip2NbrMap>>
  PROVE  NbrInv'
<1>1. /\ IsMap(next_hops', NhOids, [ip : Ips, rif : Rifs])
      /\ IsMap(m_ip2NextHopMap', Ips, NextHopEntry)
      /\ NextHopsLive'
      /\ \A x \in DOMAIN m_ip2NextHopMap' :
           /\ x \in DOMAIN m_ip2NextHopMap
           /\ m_ip2NextHopMap'[x] = m_ip2NextHopMap[x]
  BY NextHopDel DEF NbrInv
<1> QED
  BY <1>1 DEF NbrInv, NbrTypes, NeighborHasItsNextHop, NeighborsLive

-----------------------------------------------------------------------------
(* Every step of the program keeps the invariant of the neighbors. *)
LEMMA NbrInvStep ==
  ASSUME NbrInv, [Next]_vars
  PROVE  NbrInv'
<1>1. ASSUME NEW ip \in Ips, NEW mac \in Macs, NEW intf \in Intfs,
             AddNeighbor(ip, mac, intf)
      PROVE  NbrInv'
  BY <1>1, NeighborAdd DEF AddNeighbor
<1>2. ASSUME NEW ip \in Ips, DelNeighbor(ip)
      PROVE  NbrInv'
  BY <1>2, NeighborDel DEF DelNeighbor
<1>3. CASE OnlyRoutes
  BY <1>3, NbrInvUnchanged DEF OnlyRoutes, nbrVars
<1>4. ASSUME NEW nexthops \in NextHopSets, AddGroup(nexthops) \/ DelGroup(nexthops)
      PROVE  NbrInv'
  BY <1>3, <1>4 DEF AddGroup, DelGroup
<1>5. ASSUME NEW prefix \in Prefixes, NEW nexthops \in NextHopSets,
             AddRoute(prefix, nexthops)
      PROVE  NbrInv'
  BY <1>3, <1>5 DEF AddRoute
<1>6. ASSUME NEW prefix \in Prefixes, DelRoute(prefix)
      PROVE  NbrInv'
  BY <1>3, <1>6 DEF DelRoute
<1>7. CASE BeginEraseAll
  BY <1>7, NbrInvUnchanged DEF BeginEraseAll, sai, caches, nbrVars
<1>8. CASE EraseNextHops
  <2>1. CASE UNCHANGED NhVars
    BY <1>8, <2>1, NbrInvUnchanged DEF EraseNextHops, NhVars, nbrVars
  <2>2. ASSUME NEW ip \in DOMAIN m_ip2NextHopMap, NEW ok \in BOOLEAN,
               NextHopMgr_Del(ip, ok)
        PROVE  NbrInv'
    <3>1. ip \in Ips
      BY DEF NbrInv, NbrTypes, IsMap
    <3>2. UNCHANGED <<neighbors, m_ip2NbrMap>>
      BY <1>8 DEF EraseNextHops
    <3> QED
      BY <2>2, <3>1, <3>2, NextHopErased
  <2> QED
    BY <1>8, <2>1, <2>2 DEF EraseNextHops, NextHopMgr_EraseAll
<1>9. CASE EraseNeighbors
  <2>1. CASE UNCHANGED NbrVars
    BY <2>1, NbrInvUnchanged DEF NbrVars, nbrVars
  <2>2. ASSUME NEW ip \in DOMAIN m_ip2NbrMap, NEW ok \in BOOLEAN,
               NeighborMgr_Del(ip, ok)
        PROVE  NbrInv'
    <3>1. ip \in Ips
      BY DEF NbrInv, NbrTypes, IsMap
    <3> QED
      BY <2>2, <3>1, NeighborDel
  <2> QED
    BY <1>9, <2>1, <2>2 DEF EraseNeighbors, NeighborMgr_EraseAll
<1>10. CASE EraseRoutes
  BY <1>3, <1>10 DEF EraseRoutes
<1>11. CASE UNCHANGED vars
  BY <1>11, NbrInvUnchanged DEF vars, sai, caches, nbrVars
<1> QED
  BY <1>1, <1>2, <1>4, <1>5, <1>6, <1>7, <1>8, <1>9, <1>10, <1>11 DEF Next, Crashed

(* The invariant of the neighbor and next hop managers, whatever fails. *)
THEOREM NbrInvariant == Spec => []NbrInv
<1>1. Init => NbrInv
  BY DEF Init, EmptyMap, NbrInv, NbrTypes, IsMap, NextHopsLive,
         NeighborHasItsNextHop, NeighborsLive
<1>2. NbrInv /\ [Next]_vars => NbrInv'
  BY NbrInvStep
<1> QED
  BY <1>1, <1>2, PTL DEF Spec

(* An entry of the next hop manager always names the live next hop of its own
   station: ids that SAI reuses never alias two entries. *)
THEOREM NextHopsAlwaysLive == Spec => []NextHopsLive
<1>1. NbrInv => NextHopsLive
  BY DEF NbrInv
<1> QED
  BY <1>1, NbrInvariant, PTL

(* Every next hop of the manager belongs to a neighbor entry that holds its id. *)
THEOREM NeighborAlwaysHasItsNextHop == Spec => []NeighborHasItsNextHop
<1>1. NbrInv => NeighborHasItsNextHop
  BY DEF NbrInv
<1> QED
  BY <1>1, NbrInvariant, PTL

(* Every neighbor entry is backed by the neighbor of the ASIC. *)
THEOREM NeighborsAlwaysLive == Spec => []NeighborsLive
<1>1. NbrInv => NeighborsLive
  BY DEF NbrInv
<1> QED
  BY <1>1, NbrInvariant, PTL

-----------------------------------------------------------------------------
(* The group and route managers: types, and the tracking of the routes. *)
GroupTypes ==
  /\ IsMap(groups, GrpOids, SUBSET NhOids)
  /\ IsMap(m_ips2NextHGMap, NextHopSets, Oids)

RouteEntry == [action : {"FORWARD", "DROP", "TRAP"}, next_hop : Oids]

(* NextHopGrpMgr::Add keeps the types of the groups; a true return leaves an entry. *)
LEMMA GroupAddTypes ==
  ASSUME NbrTypes, GroupTypes, NEW nexthops \in NextHopSets, NEW ok \in BOOLEAN,
         NextHopGrpMgr_Add(nexthops, ok)
  PROVE  /\ GroupTypes'
         /\ ok => nexthops \in DOMAIN m_ips2NextHGMap'
<1>1. CASE UNCHANGED GrpVars /\ ok = FALSE
  BY <1>1 DEF GrpVars, GroupTypes
<1>2. ASSUME UNCHANGED groups, NEW nhg_id \in Garbage,
             m_ips2NextHGMap' = Put(m_ips2NextHGMap, nexthops, nhg_id)
      PROVE  GroupTypes' /\ nexthops \in DOMAIN m_ips2NextHGMap'
  BY <1>2 DEF GroupTypes, IsMap, Put, Garbage, Oids
<1>3. CASE /\ create_next_hop_group(Nhids(nexthops), NullOid, FALSE) /\ ok = FALSE
           /\ UNCHANGED m_ips2NextHGMap
  BY <1>3 DEF create_next_hop_group, GroupTypes
<1>4. ASSUME NEW nhg_id \in GrpOids,
             create_next_hop_group(Nhids(nexthops), nhg_id, TRUE),
             \/ m_ips2NextHGMap' = Put(m_ips2NextHGMap, nexthops, nhg_id)
             \/ ok = FALSE /\ UNCHANGED m_ips2NextHGMap
      PROVE  GroupTypes' /\ (ok => nexthops \in DOMAIN m_ips2NextHGMap')
  <2>1. Nhids(nexthops) \in SUBSET NhOids
    BY DEF Nhids, KnownNeighbors, NbrTypes, IsMap, NeighborEntry, NextHopEntry
  <2>2. groups' = Put(groups, nhg_id, Nhids(nexthops))
    BY <1>4 DEF create_next_hop_group
  <2>3. IsMap(groups', GrpOids, SUBSET NhOids)
    BY <2>1, <2>2 DEF GroupTypes, IsMap, Put
  <2> QED
    BY <1>4, <2>3 DEF GroupTypes, IsMap, Put, Oids
<1> QED
  BY <1>1, <1>2, <1>3, <1>4 DEF NextHopGrpMgr_Add

(* NextHopGrpMgr::Del keeps the types of the groups. *)
LEMMA GroupDelTypes ==
  ASSUME GroupTypes, NEW nexthops \in NextHopSets, NEW ok \in BOOLEAN,
         NextHopGrpMgr_Del(nexthops, ok)
  PROVE  GroupTypes'
BY DEF NextHopGrpMgr_Del, remove_next_hop_group, GroupTypes, GrpVars, IsMap, Erase

(* Giving a route an attribute makes it a route. *)
LEMMA AttrTypes ==
  ASSUME NEW route \in RouteEntry, NEW nexthops, NEW oid \in Oids
  PROVE  SetAttr(route, RouteAttr(nexthops, oid)) \in RouteEntry
BY DEF RouteEntry, SetAttr, RouteAttr, DropAttr, NextHopAttr

(* What the tables of the route manager are, the requests apart. *)
RouteInv ==
  /\ GroupTypes
  /\ IsMap(routes, Prefixes, RouteEntry)
  /\ IsMap(m_Routes, Prefixes, NextHopSets)
  /\ IsMap(m_EcmpGroups, NextHopSets, Oids)
  /\ RoutesTracked

(* The invariant is about the group and route tables only. *)
LEMMA RouteInvUnchanged ==
  ASSUME RouteInv, UNCHANGED <<groups, routes, m_ips2NextHGMap, m_Routes, m_EcmpGroups>>
  PROVE  RouteInv'
BY DEF RouteInv, GroupTypes, RoutesTracked

(* RouteMgr::Add never writes a route of setup: it creates those its table has not,
   which SAI refuses for a prefix that has one, and updates those its table has. *)
LEMMA RouteAdd ==
  ASSUME NbrTypes, RouteInv,
         NEW prefix \in Prefixes, NEW nexthops \in NextHopSets, NEW ok \in BOOLEAN,
         RouteMgr_Add(prefix, nexthops, ok)
  PROVE  RouteInv'
<1>1. CASE Unresolved(nexthops) /\ UNCHANGED RouteVars
  <2>1. GroupTypes'
    BY <1>1, GroupAddTypes DEF Unresolved, RouteInv, GrpVars, GroupTypes
  <2> QED
    BY <1>1, <2>1 DEF RouteVars, RouteInv, RoutesTracked
<1>2. ASSUME NEW oid \in NhOids \cup GrpOids \cup {NullOid}, Resolved(nexthops, oid),
             WriteRoute(prefix, nexthops, RouteAttr(nexthops, oid), ok)
      PROVE  RouteInv'
  <2> DEFINE attr == RouteAttr(nexthops, oid)
  <2>1. oid \in Oids
    BY DEF Oids
  <2>2. GroupTypes'
    BY <1>2, GroupAddTypes DEF Resolved, RouteInv, GrpVars, GroupTypes
  <2>3. IsMap(m_EcmpGroups', NextHopSets, Oids)
    BY <1>2, <2>1 DEF Resolved, RouteInv, IsMap, Put
  <2>4. CASE UNCHANGED <<routes, m_Routes>>
    BY <2>2, <2>3, <2>4 DEF RouteInv, RoutesTracked
  <2>5. CASE /\ prefix \notin DOMAIN m_Routes /\ prefix \notin DOMAIN routes
             /\ routes' = Put(routes, prefix, SetAttr(DefaultRoute, attr))
             /\ m_Routes' = Put(m_Routes, prefix, nexthops)
    <3>1. SetAttr(DefaultRoute, attr) \in RouteEntry
      BY <2>1, AttrTypes DEF DefaultRoute, RouteEntry, Oids
    <3>2. IsMap(routes', Prefixes, RouteEntry) /\ IsMap(m_Routes', Prefixes, NextHopSets)
      BY <2>5, <3>1 DEF RouteInv, IsMap, Put
    <3>3. RoutesTracked'
      BY <2>5 DEF RouteInv, RoutesTracked, Put
    <3> QED
      BY <2>2, <2>3, <3>2, <3>3 DEF RouteInv
  <2>6. CASE /\ prefix \in DOMAIN m_Routes /\ prefix \in DOMAIN routes
             /\ routes' = [routes EXCEPT ![prefix] = SetAttr(@, attr)]
             /\ UNCHANGED m_Routes
    <3>1. SetAttr(routes[prefix], attr) \in RouteEntry
      BY <2>1, <2>6, AttrTypes DEF RouteInv, IsMap
    <3>2. IsMap(routes', Prefixes, RouteEntry)
      BY <2>6, <3>1 DEF RouteInv, IsMap
    <3>3. RoutesTracked'
      BY <2>6 DEF RouteInv, RoutesTracked
    <3> QED
      BY <2>2, <2>3, <2>6, <3>2, <3>3 DEF RouteInv
  <2> QED
    BY <1>2, <2>4, <2>5, <2>6
    DEF WriteRoute, RecordRoute, create_route, set_route_attribute, Status
<1> QED
  BY <1>1, <1>2 DEF RouteMgr_Add

(* RouteMgr::Del takes the prefix out of the ASIC before it takes it out of its
   table, so that a failure in between leaves no route untracked. *)
LEMMA RouteDel ==
  ASSUME RouteInv, NEW prefix \in Prefixes, NEW ok \in BOOLEAN, RouteMgr_Del(prefix, ok)
  PROVE  RouteInv'
<1>1. CASE UNCHANGED <<GrpVars, RouteVars>>
  BY <1>1, RouteInvUnchanged DEF GrpVars, RouteVars
<1>2. CASE remove_route(prefix, FALSE) /\ UNCHANGED <<GrpVars, m_Routes, m_EcmpGroups>>
  BY <1>2, RouteInvUnchanged DEF remove_route, GrpVars
<1>3. ASSUME prefix \in DOMAIN m_Routes,
             routes' = Erase(routes, prefix),
             m_Routes' \in {m_Routes, Erase(m_Routes, prefix)},
             GroupTypes', IsMap(m_EcmpGroups', NextHopSets, Oids)
      PROVE  RouteInv'
  <2>1. IsMap(routes', Prefixes, RouteEntry) /\ IsMap(m_Routes', Prefixes, NextHopSets)
    BY <1>3 DEF RouteInv, IsMap, Erase
  <2>2. RoutesTracked'
    BY <1>3 DEF RouteInv, RoutesTracked, Erase
  <2> QED
    BY <1>3, <2>1, <2>2 DEF RouteInv
<1>4. CASE prefix \in DOMAIN m_Routes /\ remove_route(prefix, TRUE)
  <2> DEFINE nexthops == m_Routes[prefix]
  <2>1. nexthops \in NextHopSets
    BY <1>4 DEF RouteInv, IsMap
  <2>2. routes' = Erase(routes, prefix)
    BY <1>4 DEF remove_route
  <2>3. CASE /\ m_EcmpGroups' = GetOrInsert(m_EcmpGroups, nexthops)
             /\ m_Routes' = Erase(m_Routes, prefix) /\ UNCHANGED GrpVars
    <3>1. IsMap(m_EcmpGroups', NextHopSets, Oids)
      BY <2>1, <2>3 DEF RouteInv, IsMap, GetOrInsert, Get, Put, Oids
    <3> QED
      BY <1>3, <1>4, <2>2, <2>3, <3>1 DEF RouteInv, GroupTypes, GrpVars
  <2>4. CASE /\ m_EcmpGroups' = Erase(m_EcmpGroups, nexthops)
             /\ m_Routes' = Erase(m_Routes, prefix) /\ UNCHANGED GrpVars
    <3>1. IsMap(m_EcmpGroups', NextHopSets, Oids)
      BY <2>4 DEF RouteInv, IsMap, Erase
    <3> QED
      BY <1>3, <1>4, <2>2, <2>4, <3>1 DEF RouteInv, GroupTypes, GrpVars
  <2>5. CASE DeleteGroupOf(prefix, nexthops, ok)
    <3>1. GroupTypes'
      BY <2>1, <2>5, GroupDelTypes DEF DeleteGroupOf, RouteInv
    <3>2. IsMap(m_EcmpGroups', NextHopSets, Oids)
      BY <2>5 DEF DeleteGroupOf, ForgetRoute, RouteInv, IsMap, Erase
    <3> QED
      BY <1>3, <1>4, <2>2, <2>5, <3>1, <3>2 DEF DeleteGroupOf, ForgetRoute
  <2>6. RouteMgr_Del(prefix, ok)
    OBVIOUS
  <2> QED
    BY <1>2, <1>4, <2>3, <2>4, <2>5, <2>6 DEF RouteMgr_Del, ForgetRoute
<1> QED
  BY <1>1, <1>2, <1>4 DEF RouteMgr_Del

(* Every step of the program keeps the invariant of the groups and the routes. *)
LEMMA RouteInvStep ==
  ASSUME NbrTypes, RouteInv, [Next]_vars
  PROVE  RouteInv'
<1>1. CASE OnlyNeighbors
  BY <1>1, RouteInvUnchanged DEF OnlyNeighbors
<1>2. ASSUME NEW ip \in Ips, NEW mac \in Macs, NEW intf \in Intfs,
             AddNeighbor(ip, mac, intf) \/ DelNeighbor(ip)
      PROVE  RouteInv'
  BY <1>1, <1>2 DEF AddNeighbor, DelNeighbor
<1>3. ASSUME NEW ip \in Ips, DelNeighbor(ip)
      PROVE  RouteInv'
  BY <1>1, <1>3 DEF DelNeighbor
<1>4. ASSUME NEW nexthops \in NextHopSets, AddGroup(nexthops)
      PROVE  RouteInv'
  <2>1. UNCHANGED RouteVars
    BY <1>4 DEF AddGroup
  <2>2. GroupTypes'
    BY <1>4, GroupAddTypes DEF AddGroup, RouteInv
  <2> QED
    BY <2>1, <2>2 DEF RouteInv, RouteVars, RoutesTracked
<1>5. ASSUME NEW nexthops \in NextHopSets, DelGroup(nexthops)
      PROVE  RouteInv'
  <2>1. UNCHANGED RouteVars
    BY <1>5 DEF DelGroup
  <2>2. GroupTypes'
    BY <1>5, GroupDelTypes DEF DelGroup, RouteInv
  <2> QED
    BY <2>1, <2>2 DEF RouteInv, RouteVars, RoutesTracked
<1>6. ASSUME NEW prefix \in Prefixes, NEW nexthops \in NextHopSets,
             AddRoute(prefix, nexthops)
      PROVE  RouteInv'
  BY <1>6, RouteAdd DEF AddRoute
<1>7. ASSUME NEW prefix \in Prefixes, DelRoute(prefix)
      PROVE  RouteInv'
  BY <1>7, RouteDel DEF DelRoute
<1>8. CASE BeginEraseAll
  BY <1>8, RouteInvUnchanged DEF BeginEraseAll, sai, caches
<1>9. CASE EraseNextHops \/ EraseNeighbors
  BY <1>1, <1>9 DEF EraseNextHops, EraseNeighbors
<1>10. CASE EraseRoutes
  <2>1. CASE UNCHANGED <<GrpVars, RouteVars>>
    BY <2>1, RouteInvUnchanged DEF GrpVars, RouteVars
  <2>2. ASSUME NEW prefix \in DOMAIN m_Routes, NEW ok \in BOOLEAN,
               RouteMgr_Del(prefix, ok)
        PROVE  RouteInv'
    <3>1. prefix \in Prefixes
      BY DEF RouteInv, IsMap
    <3> QED
      BY <2>2, <3>1, RouteDel
  <2> QED
    BY <1>10, <2>1, <2>2 DEF EraseRoutes, RouteMgr_EraseAll
<1>11. CASE UNCHANGED vars
  BY <1>11, RouteInvUnchanged DEF vars, sai, caches
<1> QED
  BY <1>2, <1>3, <1>4, <1>5, <1>6, <1>7, <1>8, <1>9, <1>10, <1>11, [Next]_vars
  DEF Next, Crashed

(* The invariant of the group and route managers, whatever fails and whatever the
   caller does. *)
THEOREM RouteInvariant == Spec => []RouteInv
<1>1. Init => RouteInv
  BY SetupAssumption
  DEF Init, EmptyMap, RouteInv, GroupTypes, RoutesTracked, IsMap, RouteEntry,
      SetupRoute, Oids, NextHopSets, BlackHole
<1>2. NbrInv /\ RouteInv /\ [Next]_vars => RouteInv'
  BY RouteInvStep DEF NbrInv
<1> QED
  BY <1>1, <1>2, NbrInvariant, PTL DEF Spec

(* No route is ever in the ASIC that the program would not find to remove it, and
   the routes of basic_router_setup stay as they were written. *)
THEOREM RoutesAlwaysTracked == Spec => []RoutesTracked
<1>1. RouteInv => RoutesTracked
  BY DEF RouteInv
<1> QED
  BY <1>1, RouteInvariant, PTL

-----------------------------------------------------------------------------
(* The type invariant. *)
THEOREM TypeCorrect == Spec => []TypeOK
<1> DEFINE Rest == IsMap(want, Prefixes, NextHopSets) /\ phase \in Phases
<1>1. Init => Rest
  BY DEF Init, EmptyMap, IsMap, Phases
<1>2. Rest /\ [Next]_vars => Rest'
  <2> SUFFICES ASSUME Rest, [Next]_vars
               PROVE  Rest'
    OBVIOUS
  <2>1. CASE UNCHANGED <<want, phase>>
    BY <2>1
  <2>2. ASSUME NEW prefix \in Prefixes, NEW nexthops \in NextHopSets,
               AddRoute(prefix, nexthops)
        PROVE  Rest'
    BY <2>2 DEF AddRoute, IsMap, Put
  <2>3. ASSUME NEW prefix \in Prefixes, DelRoute(prefix)
        PROVE  Rest'
    BY <2>3 DEF DelRoute, IsMap, Erase
  <2>4. CASE BeginEraseAll
    BY <2>4 DEF BeginEraseAll, Phases
  <2>5. CASE EraseNextHops \/ EraseNeighbors
    BY <2>5 DEF EraseNextHops, EraseNeighbors, NextHopMgr_EraseAll,
                NeighborMgr_EraseAll, OnlyNeighbors, AfterDel, Phases
  <2>6. CASE EraseRoutes
    BY <2>6 DEF EraseRoutes, RouteMgr_EraseAll, AfterDel, Phases, IsMap
  <2> QED
    BY <2>1, <2>2, <2>3, <2>4, <2>5, <2>6, [Next]_vars
    DEF Next, Crashed, vars, AddNeighbor, DelNeighbor, OnlyNeighbors, AddGroup, DelGroup
<1>3. NbrInv /\ RouteInv /\ Rest => TypeOK
  BY DEF NbrInv, RouteInv, GroupTypes, RouteEntry, TypeOK, RouteTypes
<1> HIDE DEF Rest
<1> QED
  BY <1>1, <1>2, <1>3, NbrInvariant, RouteInvariant, PTL DEF Spec

-----------------------------------------------------------------------------
(* The groups.  A new group has an id that no live group has, so its entry does not
   collide with another one; a Del removes the group and its only entry. *)
LEMMA GroupAddLive ==
  ASSUME GroupsLive, NEW nexthops, NEW ok, KnownCount(nexthops) # 1,
         NextHopGrpMgr_Add(nexthops, ok)
  PROVE  GroupsLive'
<1>1. CASE UNCHANGED GrpVars
  BY <1>1 DEF GrpVars, GroupsLive
<1>2. CASE /\ create_next_hop_group(Nhids(nexthops), NullOid, FALSE)
           /\ UNCHANGED m_ips2NextHGMap
  BY <1>2 DEF create_next_hop_group, GroupsLive
<1>3. ASSUME NEW nhg_id \in GrpOids,
             create_next_hop_group(Nhids(nexthops), nhg_id, TRUE),
             \/ m_ips2NextHGMap' = Put(m_ips2NextHGMap, nexthops, nhg_id)
             \/ UNCHANGED m_ips2NextHGMap
      PROVE  GroupsLive'
  <2>1. /\ nhg_id \notin DOMAIN groups
        /\ DOMAIN groups' = DOMAIN groups \cup {nhg_id}
    BY <1>3 DEF create_next_hop_group, Put
  <2>2. CASE UNCHANGED m_ips2NextHGMap
    BY <2>1, <2>2 DEF GroupsLive
  <2>3. CASE m_ips2NextHGMap' = Put(m_ips2NextHGMap, nexthops, nhg_id)
    BY <2>1, <2>3 DEF GroupsLive, Put
  <2> QED
    BY <1>3, <2>2, <2>3
<1> QED
  BY <1>1, <1>2, <1>3 DEF NextHopGrpMgr_Add

(* NextHopGrpMgr::Del removes the entry with its group, and no other entry has that
   group. *)
LEMMA GroupDelLive ==
  ASSUME GroupsLive, NEW nexthops, NEW ok \in BOOLEAN, NextHopGrpMgr_Del(nexthops, ok)
  PROVE  GroupsLive'
<1>1. CASE UNCHANGED GrpVars
  BY <1>1 DEF GrpVars, GroupsLive
<1>2. CASE nexthops \in DOMAIN m_ips2NextHGMap /\ ~ok
  BY <1>1, <1>2 DEF NextHopGrpMgr_Del, remove_next_hop_group, GrpVars
<1>3. CASE /\ nexthops \in DOMAIN m_ips2NextHGMap
           /\ groups' = Erase(groups, m_ips2NextHGMap[nexthops])
           /\ m_ips2NextHGMap' = Erase(m_ips2NextHGMap, nexthops)
  BY <1>3 DEF GroupsLive, Erase
<1> QED
  BY <1>1, <1>2, <1>3 DEF NextHopGrpMgr_Del, remove_next_hop_group

(* Every step of the program keeps the groups of the cache live, if no group is
   stored without being created. *)
LEMMA GroupsLiveStep ==
  ASSUME "group_of_one" \notin Liberties, GroupsLive, [Next]_vars
  PROVE  GroupsLive'
<1>1. CASE UNCHANGED GrpVars
  BY <1>1 DEF GrpVars, GroupsLive
<1>2. ASSUME NEW ip, NEW mac, NEW intf, AddNeighbor(ip, mac, intf) \/ DelNeighbor(ip)
      PROVE  GroupsLive'
  BY <1>1, <1>2 DEF AddNeighbor, DelNeighbor, OnlyNeighbors, GrpVars
<1>3. ASSUME NEW nexthops, AddGroup(nexthops)
      PROVE  GroupsLive'
  BY <1>3, GroupAddLive DEF AddGroup, Allowed
<1>4. ASSUME NEW nexthops, DelGroup(nexthops)
      PROVE  GroupsLive'
  BY <1>4, GroupDelLive DEF DelGroup
<1>5. ASSUME NEW prefix, NEW nexthops, AddRoute(prefix, nexthops)
      PROVE  GroupsLive'
  <2>1. ASSUME NEW ok, NextHopGrpMgr_Add(nexthops, ok), KnownCount(nexthops) > 1
        PROVE  GroupsLive'
    <3>1. KnownCount(nexthops) # 1
      BY <2>1
    <3> QED
      BY <2>1, <3>1, GroupAddLive
  <2> QED
    BY <1>1, <1>5, <2>1
    DEF AddRoute, RouteMgr_Add, Unresolved, Resolved, GrpVars
<1>6. ASSUME NEW prefix, NEW ok \in BOOLEAN, RouteMgr_Del(prefix, ok)
      PROVE  GroupsLive'
  <2>1. CASE NextHopGrpMgr_Del(m_Routes[prefix], ok)
    BY <2>1, GroupDelLive
  <2> QED
    BY <1>1, <1>6, <2>1 DEF RouteMgr_Del, DeleteGroupOf
<1>7. ASSUME NEW prefix, DelRoute(prefix)
      PROVE  GroupsLive'
  BY <1>6, <1>7 DEF DelRoute
<1>8. CASE BeginEraseAll \/ EraseNextHops \/ EraseNeighbors \/ UNCHANGED vars
  BY <1>1, <1>8
  DEF BeginEraseAll, EraseNextHops, EraseNeighbors, OnlyNeighbors, vars, sai, caches, GrpVars
<1>9. CASE EraseRoutes
  BY <1>1, <1>6, <1>9 DEF EraseRoutes, RouteMgr_EraseAll
<1> QED
  BY <1>2, <1>3, <1>4, <1>5, <1>7, <1>8, <1>9, [Next]_vars DEF Next, Crashed

(* Unless a group is asked for while one of its neighbors only is known, the entry
   of every set is the live group made for that set. *)
THEOREM GroupsAlwaysLive ==
  ASSUME "group_of_one" \notin Liberties
  PROVE  Spec => []GroupsLive
<1>1. Init => GroupsLive
  BY DEF Init, EmptyMap, GroupsLive
<1>2. GroupsLive /\ [Next]_vars => GroupsLive'
  BY GroupsLiveStep
<1> QED
  BY <1>1, <1>2, PTL DEF Spec

-----------------------------------------------------------------------------
(* The EraseAll loops.  Each map a loop walks is finite, and a turn that goes on
   takes one entry out of it: what TLC checks as EraseAllEnds on a small instance
   rests on this for all of them. *)
CachesFinite ==
  /\ IsFiniteSet(DOMAIN m_ip2NextHopMap)
  /\ IsFiniteSet(DOMAIN m_ip2NbrMap)
  /\ IsFiniteSet(DOMAIN m_Routes)

(* One entry more or less leaves a map finite. *)
LEMMA FiniteMap ==
  ASSUME NEW m, IsFiniteSet(DOMAIN m), NEW k
  PROVE  /\ IsFiniteSet(DOMAIN Erase(m, k))
         /\ \A v : IsFiniteSet(DOMAIN Put(m, k, v))
<1>1. DOMAIN Erase(m, k) = DOMAIN m \ {k}
  BY DEF Erase
<1>2. \A v : DOMAIN Put(m, k, v) = DOMAIN m \cup {k}
  BY DEF Put
<1> QED
  BY <1>1, <1>2, FS_AddElement, FS_RemoveElement

(* Every operation of the managers adds or removes at most one entry of each. *)
LEMMA CachesFiniteStep ==
  ASSUME CachesFinite, [Next]_vars
  PROVE  CachesFinite'
<1>1. CASE UNCHANGED caches
  BY <1>1 DEF caches, CachesFinite
<1>2. ASSUME NEW ip, NEW ok,
             \/ NextHopMgr_Del(ip, ok)
             \/ NextHopMgr_Del(ip, TRUE)
             \/ NextHopMgr_Del(ip, FALSE)
      PROVE  IsFiniteSet(DOMAIN m_ip2NextHopMap')
  BY <1>2, FiniteMap DEF NextHopMgr_Del, NhVars, CachesFinite
<1>3. ASSUME NEW ip, NEW ok, NeighborMgr_Del(ip, ok)
      PROVE  IsFiniteSet(DOMAIN m_ip2NextHopMap') /\ IsFiniteSet(DOMAIN m_ip2NbrMap')
  BY <1>2, <1>3, FiniteMap DEF NeighborMgr_Del, NbrVars, CachesFinite
<1>4. ASSUME NEW ip, NEW mac, NEW intf, NEW ok, NeighborMgr_Add(ip, mac, intf, ok)
      PROVE  IsFiniteSet(DOMAIN m_ip2NextHopMap') /\ IsFiniteSet(DOMAIN m_ip2NbrMap')
  <2>1. ASSUME NextHopMgr_Add(ip, mac, intf, ok)
        PROVE  IsFiniteSet(DOMAIN m_ip2NextHopMap')
    BY <2>1, FiniteMap DEF NextHopMgr_Add, NhVars, CachesFinite
  <2> QED
    BY <1>4, <2>1, FiniteMap DEF NeighborMgr_Add, StoreNeighbor, CachesFinite
<1>5. ASSUME NEW prefix, NEW nexthops, NEW ok, RouteMgr_Add(prefix, nexthops, ok)
      PROVE  IsFiniteSet(DOMAIN m_Routes')
  BY <1>5, FiniteMap
  DEF RouteMgr_Add, RouteVars, WriteRoute, RecordRoute, CachesFinite
<1>6. ASSUME NEW prefix, NEW ok, RouteMgr_Del(prefix, ok)
      PROVE  IsFiniteSet(DOMAIN m_Routes')
  BY <1>6, FiniteMap
  DEF RouteMgr_Del, RouteVars, DeleteGroupOf, ForgetRoute, CachesFinite
<1>7. CASE \E ip \in Ips, mac \in Macs, intf \in Intfs : AddNeighbor(ip, mac, intf)
  BY <1>7, <1>4 DEF AddNeighbor, OnlyNeighbors, CachesFinite
<1>8. CASE \E ip \in Ips : DelNeighbor(ip)
  BY <1>8, <1>3 DEF DelNeighbor, OnlyNeighbors, CachesFinite
<1>9. CASE \E nexthops \in NextHopSets : AddGroup(nexthops) \/ DelGroup(nexthops)
  BY <1>9 DEF AddGroup, DelGroup, OnlyRoutes, RouteVars, CachesFinite
<1>10. CASE \E prefix \in Prefixes :
              \/ \E nexthops \in NextHopSets : AddRoute(prefix, nexthops)
              \/ DelRoute(prefix)
  BY <1>10, <1>5, <1>6 DEF AddRoute, DelRoute, OnlyRoutes, CachesFinite
<1>11. CASE EraseNextHops
  BY <1>11, <1>2 DEF EraseNextHops, NextHopMgr_EraseAll, NhVars, OnlyNeighbors, CachesFinite
<1>12. CASE EraseNeighbors
  BY <1>12, <1>3 DEF EraseNeighbors, NeighborMgr_EraseAll, NbrVars, OnlyNeighbors, CachesFinite
<1>13. CASE EraseRoutes
  BY <1>13, <1>6 DEF EraseRoutes, RouteMgr_EraseAll, RouteVars, OnlyRoutes, CachesFinite
<1> QED
  BY <1>1, <1>7, <1>8, <1>9, <1>10, <1>11, <1>12, <1>13, [Next]_vars
  DEF Next, BeginEraseAll, Crashed, vars

(* A turn that stays in its loop takes one entry out of the map of the loop. *)
LEMMA TurnShrinks ==
  ASSUME Next, Erasing, phase' = phase
  PROVE  \E entry \in LoopEntries : LoopEntries' = LoopEntries \ {entry}
<1>1. ASSUME NEW loop, NEW ok \in BOOLEAN, loop # "idle", loop \in AfterDel(loop, ok)
      PROVE  ok = TRUE
  BY <1>1 DEF AfterDel
<1>2. CASE EraseNextHops
  <2>1. phase = "NextHopMgr::EraseAll"
    BY <1>2 DEF EraseNextHops, NextHopMgr_EraseAll
  <2>2. PICK ip \in DOMAIN m_ip2NextHopMap : NextHopMgr_Del(ip, TRUE)
    BY <1>1, <1>2, <2>1 DEF EraseNextHops, NextHopMgr_EraseAll
  <2>3. DOMAIN m_ip2NextHopMap' = DOMAIN m_ip2NextHopMap \ {ip}
    BY <2>2 DEF NextHopMgr_Del, Erase
  <2> QED
    BY <2>1, <2>3 DEF LoopEntries
<1>3. CASE EraseNeighbors
  <2>1. phase = "NeighborMgr::EraseAll"
    BY <1>3 DEF EraseNeighbors, NeighborMgr_EraseAll
  <2>2. PICK ip \in DOMAIN m_ip2NbrMap : NeighborMgr_Del(ip, TRUE)
    BY <1>1, <1>3, <2>1 DEF EraseNeighbors, NeighborMgr_EraseAll
  <2>3. DOMAIN m_ip2NbrMap' = DOMAIN m_ip2NbrMap \ {ip}
    BY <2>2 DEF NeighborMgr_Del, Erase
  <2> QED
    BY <2>1, <2>3 DEF LoopEntries
<1>4. CASE EraseRoutes
  <2>1. phase = "RouteMgr::EraseAll"
    BY <1>4 DEF EraseRoutes, RouteMgr_EraseAll
  <2>2. PICK prefix \in DOMAIN m_Routes : RouteMgr_Del(prefix, TRUE)
    BY <1>1, <1>4, <2>1 DEF EraseRoutes, RouteMgr_EraseAll
  <2>3. DOMAIN m_Routes' = DOMAIN m_Routes \ {prefix}
    BY <2>2 DEF RouteMgr_Del, DeleteGroupOf, ForgetRoute, Erase
  <2> QED
    BY <2>1, <2>3 DEF LoopEntries
<1> QED
  BY <1>2, <1>3, <1>4
  DEF Next, Erasing, AddNeighbor, DelNeighbor, AddGroup, DelGroup, AddRoute, DelRoute,
      BeginEraseAll, Crashed

(* Whatever fails, each turn of an EraseAll leaves the loop or takes one entry out
   of its map, which is finite: the loop is left after as many turns as the map had
   entries, and one. *)
THEOREM EraseAllTerminates == Spec => []CachesFinite /\ EraseAllShrinks
<1>1. Init => CachesFinite
  BY FS_EmptySet DEF Init, EmptyMap, CachesFinite
<1>2. CachesFinite /\ [Next]_vars => CachesFinite'
  BY CachesFiniteStep
<1>3. [Next]_vars =>
        [Erasing /\ phase' = phase =>
           \E entry \in LoopEntries : LoopEntries' = LoopEntries \ {entry}]_vars
  BY TurnShrinks
<1> QED
  BY <1>1, <1>2, <1>3, PTL DEF Spec, EraseAllShrinks
=============================================================================
