----------------------------- MODULE FibProofs ------------------------------
(***************************************************************************)
(* The L3 managers implement the forwarding table Fib for every set of     *)
(* addresses, interfaces, prefixes and object ids, when they are called as *)
(* basic_router.cpp calls them and three of the ten SAI calls do not fail; *)
(* a failure of any other call leaves the table as it was.                 *)
(***************************************************************************)
EXTENDS DeliveryProofs, FiniteSetTheorems

\* The rules of the test program, with no liberty taken.
NoLiberties == Liberties = {}

\* NoLeftovers, and a group whose route is gone can be removed: a Del that stops
\* there has taken the route away and kept it in its table.
CleanFaults == NoLeftovers /\ "remove_next_hop_group" \notin Faulty

-----------------------------------------------------------------------------
(* The inductive invariant, beside DeliveryInv *)

RouteFor(nexthops) ==
  IF nexthops = BlackHole THEN [action |-> "DROP", next_hop |-> NullOid]
  ELSE [action |-> "FORWARD", next_hop |-> m_EcmpGroups[nexthops]]

\* Every route of the table is in the ASIC, as its set and the cache say.
RoutesWritten ==
  \A p \in DOMAIN m_Routes :
    /\ p \in DOMAIN routes /\ m_Routes[p] \in DOMAIN m_EcmpGroups
    /\ routes[p] = RouteFor(m_Routes[p])

\* A set that is cached has an object, and a route of the table.
SetsHeld ==
  \A nexthops \in DOMAIN m_EcmpGroups \ {BlackHole} :
    /\ m_EcmpGroups[nexthops] # NullOid
    /\ \E p \in DOMAIN m_Routes : m_Routes[p] = nexthops

NoSharing ==
  \A p1, p2 \in DOMAIN m_Routes :
    m_Routes[p1] = m_Routes[p2] /\ m_Routes[p1] # BlackHole => p1 = p2

\* What routes and groups go through are the next hops of known neighbors.
UsedAreCurrent == \A n \in DOMAIN next_hops : NextHopInUse(n) => Current(n)

FibInv ==
  want = m_Routes /\ RoutesWritten /\ SetsHeld /\ NoSharing /\ UsedAreCurrent

Inv == Known /\ DeliveryInv /\ FibInv

\* The variables of Fib.
KnownIps == DOMAIN m_ip2NbrMap
AsicPath == [prefix \in DOMAIN routes \ SetupPrefixes |-> Destinations(prefix)]

(* Where a route goes, by its next hop id. *)
LEMMA DestinationsAreIps ==
  ASSUME NEW p
  PROVE  Destinations(p) = IF routes[p].action = "FORWARD" THEN IpsOf(routes[p].next_hop) ELSE {}
BY DEF Destinations, IpsOf

(* Steps that leave the routes alone and keep the addresses they go to. *)
LEMMA PathKept ==
  ASSUME DeliveryInv, UNCHANGED routes,
         \A p \in DOMAIN routes : IpsOf(routes[p].next_hop)' = IpsOf(routes[p].next_hop)
  PROVE  AsicPath' = AsicPath
<1>1. \A p \in DOMAIN routes : Destinations(p)' = Destinations(p)
  BY DEF Destinations, IpsOf
<1> QED
  BY <1>1 DEF AsicPath

-----------------------------------------------------------------------------
(* The neighbors *)

UsedStayCurrent ==
  \A n \in DOMAIN next_hops :
    NextHopInUse(n) =>
      /\ next_hops[n].ip \in DOMAIN m_ip2NextHopMap'
      /\ m_ip2NextHopMap'[next_hops[n].ip].nhid = n

LEMMA NeighborsMove ==
  ASSUME Inv, Known', UsedNextHopsKept, UsedStayCurrent, OnlyNeighbors
  PROVE  FibInv' /\ UNCHANGED want /\ AsicPath' = AsicPath
<1>1. UNCHANGED <<groups, routes, m_ips2NextHGMap, m_Routes, m_EcmpGroups, want>>
  BY DEF OnlyNeighbors
<1>2. AsicPath' = AsicPath
  <2>1. \A p \in DOMAIN routes : IpsOf(routes[p].next_hop)' = IpsOf(routes[p].next_hop)
    <3> SUFFICES ASSUME NEW p \in DOMAIN routes
                 PROVE  IpsOf(routes[p].next_hop)' = IpsOf(routes[p].next_hop)
      OBVIOUS
    <3>1. \A oid : oid = routes[p].next_hop => IpsOf(oid)' = IpsOf(oid)
      BY UsedKeepsIps DEF Inv
    <3> QED
      BY <1>1, <3>1
  <2> QED
    BY <1>1, <2>1, PathKept DEF Inv
<1>3. UsedAreCurrent'
  <2> SUFFICES ASSUME NEW n \in DOMAIN next_hops', NextHopInUse(n)'
               PROVE  Current(n)'
    BY DEF UsedAreCurrent
  <2>1. NextHopInUse(n)
    BY <1>1 DEF NextHopInUse
  <2>2. n \in DOMAIN next_hops
    BY <2>1, Kinds, SaiAssumption
       DEF Inv, NextHopInUse, DeliveryInv, NamedAlive, LiveOids, Known, NbrInv, NbrTypes, IsMap,
           UsedNextHopsKept
  <2>3. next_hops'[n] = next_hops[n]
    BY <2>1, <2>2 DEF UsedNextHopsKept
  <2> QED
    BY <2>1, <2>2, <2>3 DEF UsedStayCurrent, Current
<1> QED
  BY <1>1, <1>2, <1>3 DEF Inv, FibInv, RoutesWritten, RouteFor, SetsHeld, NoSharing

\* What an AddNeighbor does to the forwarding table: a neighbor, or nothing.
LEMMA AddNeighborMaps ==
  ASSUME NoLiberties, Inv, Known',
         NEW ip \in Ips, NEW mac \in Macs, NEW intf \in Intfs, AddNeighbor(ip, mac, intf)
  PROVE  /\ FibInv' /\ UNCHANGED want /\ AsicPath' = AsicPath
         /\ \/ UNCHANGED KnownIps
            \/ ip \notin KnownIps /\ KnownIps' = KnownIps \cup {ip}
<1>1. OnlyNeighbors /\ ip \notin DOMAIN m_ip2NbrMap
  BY DEF AddNeighbor, Allowed, NoLiberties
<1>2. ip \notin DOMAIN m_ip2NextHopMap
  BY <1>1 DEF Inv, DeliveryInv, NbrsHaveNextHops
<1>3. PICK ok \in BOOLEAN : NeighborMgr_Add(ip, mac, intf, ok)
  BY DEF AddNeighbor
<1>4. UsedNextHopsKept
  BY <1>3, NeighborAddKeeps DEF Inv
<1>5. UsedStayCurrent
  <2>1. \A x \in DOMAIN m_ip2NextHopMap :
          x \in DOMAIN m_ip2NextHopMap' /\ m_ip2NextHopMap'[x] = m_ip2NextHopMap[x]
    BY <1>2, <1>3 DEF NeighborMgr_Add, NextHopMgr_Add, NhVars, SameNextHop, Put
  <2> QED
    BY <2>1 DEF Inv, FibInv, UsedAreCurrent, Current, UsedStayCurrent
<1>6. DOMAIN m_ip2NbrMap' \in {DOMAIN m_ip2NbrMap, DOMAIN m_ip2NbrMap \cup {ip}}
  BY <1>3 DEF NeighborMgr_Add, StoreNeighbor, Put
<1> QED
  BY <1>1, <1>4, <1>5, <1>6, NeighborsMove DEF KnownIps

\* What a removal by the neighbor manager does: a neighbor that no route of the
\* ASIC goes through leaves, or nothing changes.
LEMMA NeighborDelMaps ==
  ASSUME CleanFaults, Inv, Known', OnlyNeighbors,
         NEW ip \in Ips, NEW ok \in BOOLEAN, NeighborMgr_Del(ip, ok)
  PROVE  /\ FibInv' /\ UNCHANGED want /\ AsicPath' = AsicPath
         /\ \/ UNCHANGED KnownIps
            \/ /\ ip \in KnownIps /\ KnownIps' = KnownIps \ {ip}
               /\ \A p \in DOMAIN AsicPath : ip \notin AsicPath[p]
<1>1. UsedNextHopsKept /\ NbrsHaveNextHops'
  BY NeighborDelKeeps DEF Inv, CleanFaults
<1>2. CASE UNCHANGED <<m_ip2NextHopMap, m_ip2NbrMap>>
  <2>1. UsedStayCurrent
    BY <1>2 DEF Inv, FibInv, UsedAreCurrent, Current, UsedStayCurrent
  <2> QED
    BY <1>1, <1>2, <2>1, NeighborsMove DEF KnownIps
<1>3. CASE /\ ip \in DOMAIN m_ip2NbrMap /\ NextHopMgr_Del(ip, TRUE)
           /\ DOMAIN m_ip2NbrMap' \in {DOMAIN m_ip2NbrMap, DOMAIN m_ip2NbrMap \ {ip}}
  <2> DEFINE nhid == m_ip2NextHopMap[ip].nhid
  <2>1. ip \in DOMAIN m_ip2NextHopMap
    BY <1>3 DEF Inv, DeliveryInv, NbrsHaveNextHops
  <2>2. ~ NextHopInUse(nhid) /\ m_ip2NextHopMap' = Erase(m_ip2NextHopMap, ip)
    BY <1>3, <2>1 DEF NextHopMgr_Del, remove_next_hop, Status
  <2>3. \A n \in DOMAIN next_hops : NextHopInUse(n) => next_hops[n].ip # ip
    BY <2>2 DEF Inv, FibInv, UsedAreCurrent, Current
  <2>4. UsedStayCurrent
    BY <2>2, <2>3 DEF Inv, FibInv, UsedAreCurrent, Current, UsedStayCurrent, Erase
  <2>5. \A p \in DOMAIN AsicPath : ip \notin AsicPath[p]
    <3> SUFFICES ASSUME NEW p \in DOMAIN routes, NEW n \in MembersOf(routes[p].next_hop)
                 PROVE  next_hops[n].ip # ip
      BY DEF AsicPath, Destinations
    <3>1. n \in DOMAIN next_hops /\ NextHopInUse(n)
      BY DEF MembersOf, NextHopInUse, Inv, DeliveryInv, NamedAlive
    <3> QED
      BY <2>3, <3>1
  <2> QED
    BY <1>1, <1>3, <2>4, <2>5, NeighborsMove DEF KnownIps
<1>4. CASE NextHopMgr_Del(ip, FALSE) /\ UNCHANGED m_ip2NbrMap
  BY <1>2, <1>4 DEF NextHopMgr_Del
<1>5. CASE UNCHANGED NbrVars
  BY <1>2, <1>5 DEF NbrVars
<1>6. CASE /\ ip \in DOMAIN m_ip2NbrMap /\ NextHopMgr_Del(ip, TRUE)
           /\ m_ip2NbrMap' = IF ok THEN Erase(m_ip2NbrMap, ip) ELSE m_ip2NbrMap
  BY <1>3, <1>6 DEF Erase
<1> QED
  BY <1>4, <1>5, <1>6, Zenon DEF NeighborMgr_Del

-----------------------------------------------------------------------------
(* The routes.  The ids of the known neighbors of a set are their next hops. *)
LEMMA NhidsExact ==
  ASSUME Inv, NEW nexthops
  PROVE  /\ Nhids(nexthops) \subseteq DOMAIN next_hops
         /\ {next_hops[n].ip : n \in Nhids(nexthops)} = KnownNeighbors(nexthops)
         /\ \A n \in Nhids(nexthops) : Current(n)
<1>1. \A ip \in DOMAIN m_ip2NbrMap :
        LET n == m_ip2NbrMap[ip].nhid
        IN  n \in DOMAIN next_hops /\ next_hops[n].ip = ip /\ Current(n)
  <2> SUFFICES ASSUME NEW ip \in DOMAIN m_ip2NbrMap
               PROVE  LET n == m_ip2NbrMap[ip].nhid
                      IN  n \in DOMAIN next_hops /\ next_hops[n].ip = ip /\ Current(n)
    OBVIOUS
  <2>1. ip \in DOMAIN m_ip2NextHopMap /\ m_ip2NextHopMap[ip].nhid = m_ip2NbrMap[ip].nhid
    BY DEF Inv, DeliveryInv, NbrsHaveNextHops, Known, NbrInv, NeighborHasItsNextHop
  <2>2. /\ m_ip2NbrMap[ip].nhid \in DOMAIN next_hops
        /\ next_hops[m_ip2NbrMap[ip].nhid] = [ip |-> ip, rif |-> m_ip2NextHopMap[ip].rif_id]
    BY <2>1 DEF Inv, Known, NbrInv, NextHopsLive
  <2> QED
    BY <2>1, <2>2 DEF Current
<1> QED
  BY <1>1 DEF Nhids, KnownNeighbors

(* The id of a set that is not cached goes to the known neighbors of the set. *)
LEMMA ResolvedExact ==
  ASSUME Inv, OnlyRoutes, NEW nexthops \in NextHopSets, nexthops \notin DOMAIN m_EcmpGroups,
         NEW oid, Resolved(nexthops, oid)
  PROVE  /\ oid # NullOid
         /\ IpsOf(oid)' = KnownNeighbors(nexthops) /\ KnownNeighbors(nexthops) # {}
         /\ oid \in Nhids(nexthops) \/ oid \in DOMAIN groups'
         /\ \A g \in DOMAIN groups' \ DOMAIN groups : groups'[g] = Nhids(nexthops)
         /\ m_EcmpGroups' = Put(m_EcmpGroups, nexthops, oid)
<1>1. UNCHANGED next_hops
  BY DEF OnlyRoutes
<1>2. KnownNeighbors(nexthops) = {} => Nhids(nexthops) = {} /\ KnownCount(nexthops) = 0
  BY FS_EmptySet DEF Nhids, KnownCount
<1>3. CASE KnownCount(nexthops) = 1 /\ Nhids(nexthops) = {oid} /\ UNCHANGED GrpVars
           /\ m_EcmpGroups' = Put(m_EcmpGroups, nexthops, oid)
  <2>1. oid \in DOMAIN next_hops /\ oid \notin DOMAIN groups /\ oid # NullOid
    BY <1>3, NhidsExact, Kinds DEF Inv
  <2>2. IpsOf(oid)' = {next_hops[n].ip : n \in Nhids(nexthops)}
    BY <1>1, <1>3, <2>1 DEF IpsOf, MembersOf, GrpVars
  <2> QED
    BY <1>2, <1>3, <2>1, <2>2, NhidsExact DEF GrpVars
<1>4. ASSUME NEW nhg_id \in GrpOids, create_next_hop_group(Nhids(nexthops), nhg_id, TRUE),
             oid = nhg_id, KnownCount(nexthops) > 1,
             m_EcmpGroups' = Put(m_EcmpGroups, nexthops, oid)
      PROVE  /\ oid # NullOid
             /\ IpsOf(oid)' = KnownNeighbors(nexthops) /\ KnownNeighbors(nexthops) # {}
             /\ oid \in DOMAIN groups'
             /\ \A g \in DOMAIN groups' \ DOMAIN groups : groups'[g] = Nhids(nexthops)
  <2>1. /\ DOMAIN groups' = DOMAIN groups \cup {oid} /\ groups'[oid] = Nhids(nexthops)
    BY <1>4, NewGroup DEF Inv
  <2>2. IpsOf(oid)' = {next_hops[n].ip : n \in Nhids(nexthops)}
    BY <1>1, <2>1 DEF IpsOf, MembersOf
  <2>3. KnownNeighbors(nexthops) # {}
    BY <1>2, <1>4
  <2> QED
    BY <1>4, <2>1, <2>2, <2>3, NhidsExact, SaiAssumption
<1>5. CASE /\ KnownCount(nexthops) > 1 /\ NextHopGrpMgr_Add(nexthops, TRUE)
           /\ oid = m_ips2NextHGMap'[nexthops]
           /\ m_EcmpGroups' = Put(m_EcmpGroups, nexthops, oid)
  <2>1. KnownCount(nexthops) # 1
    BY <1>5
  <2>2. PICK nhg_id \in GrpOids :
          /\ create_next_hop_group(Nhids(nexthops), nhg_id, TRUE)
          /\ m_ips2NextHGMap' = Put(m_ips2NextHGMap, nexthops, nhg_id)
    BY <1>5, <2>1, Zenon DEF NextHopGrpMgr_Add
  <2>3. oid = nhg_id
    BY <1>5, <2>2 DEF Put
  <2> QED
    BY <1>4, <1>5, <2>2, <2>3
<1> QED
  BY <1>3, <1>5, Zenon DEF Resolved

(* An Add that cannot resolve its next hops changes nothing that the table shows. *)
LEMMA UnresolvedMaps ==
  ASSUME Inv, OnlyRoutes, NEW nexthops \in NextHopSets,
         Unresolved(nexthops), UNCHANGED RouteVars, UNCHANGED want
  PROVE  FibInv' /\ AsicPath' = AsicPath
<1>1. UNCHANGED <<next_hops, m_ip2NextHopMap, routes, m_Routes, m_EcmpGroups>>
  BY DEF OnlyRoutes, RouteVars
<1>2. /\ \A g \in DOMAIN groups : g \in DOMAIN groups' /\ groups'[g] = groups[g]
      /\ \A g \in DOMAIN groups' \ DOMAIN groups : groups'[g] = Nhids(nexthops)
      /\ DOMAIN groups' \subseteq GrpOids
  <2>1. CASE UNCHANGED groups
    BY <2>1, Kinds DEF Inv
  <2>2. ASSUME NEW g \in GrpOids, create_next_hop_group(Nhids(nexthops), g, TRUE)
        PROVE  /\ \A x \in DOMAIN groups : x \in DOMAIN groups' /\ groups'[x] = groups[x]
               /\ \A x \in DOMAIN groups' \ DOMAIN groups : groups'[x] = Nhids(nexthops)
               /\ DOMAIN groups' \subseteq GrpOids
    BY <2>2, NewGroup, Kinds DEF Inv
  <2>3. CASE KnownCount(nexthops) > 1 /\ NextHopGrpMgr_Add(nexthops, FALSE)
    <3>1. CASE UNCHANGED GrpVars
      BY <2>1, <3>1 DEF GrpVars
    <3>2. CASE create_next_hop_group(Nhids(nexthops), NullOid, FALSE)
      BY <2>1, <3>2 DEF create_next_hop_group
    <3> QED
      BY <2>2, <2>3, <3>1, <3>2, Zenon DEF NextHopGrpMgr_Add
  <2> QED
    BY <2>1, <2>3 DEF Unresolved, GrpVars
<1>3. AsicPath' = AsicPath
  <2>1. \A x \in LiveOids : IpsOf(x)' = IpsOf(x)
    BY <1>1, <1>2, GroupsGrow DEF Inv
  <2>2. \A p \in DOMAIN routes : IpsOf(routes[p].next_hop)' = IpsOf(routes[p].next_hop)
    BY <1>1, <2>1 DEF Inv, DeliveryInv, NamedAlive
  <2> QED
    BY <1>1, <2>2, PathKept DEF Inv
<1>4. UsedAreCurrent'
  <2> SUFFICES ASSUME NEW n \in DOMAIN next_hops, NextHopInUse(n)'
               PROVE  Current(n)
    BY <1>1 DEF UsedAreCurrent, Current
  <2>1. NextHopInUse(n) \/ n \in Nhids(nexthops)
    BY <1>1, <1>2 DEF NextHopInUse
  <2> QED
    BY <2>1, NhidsExact DEF Inv, FibInv, UsedAreCurrent
<1> QED
  BY <1>1, <1>3, <1>4 DEF Inv, FibInv, RoutesWritten, RouteFor, SetsHeld, NoSharing

(* A route is created for a set that no other route has, or for the black hole: the *)
(* table has one more row, which goes to the neighbors of the set that are known.   *)
LEMMA RouteWriteMaps ==
  ASSUME Inv, OnlyRoutes, NEW prefix \in Prefixes \ (DOMAIN m_Routes \cup SetupPrefixes),
         NEW nexthops \in NextHopSets, NEW oid, Prepared(nexthops, oid),
         nexthops # BlackHole => oid # NullOid /\ nexthops \notin DOMAIN m_EcmpGroups,
         IpsOf(oid)' = KnownNeighbors(nexthops),
         oid \in Nhids(nexthops) \cup DOMAIN groups' \cup {NullOid},
         \A g \in DOMAIN groups' \ DOMAIN groups : groups'[g] = Nhids(nexthops),
         prefix \notin DOMAIN routes,
         routes' = Put(routes, prefix, SetAttr(DefaultRoute, RouteAttr(nexthops, oid))),
         m_Routes' = Put(m_Routes, prefix, nexthops),
         want' = Put(want, prefix, nexthops)
  PROVE  /\ FibInv'
         /\ AsicPath' = Put(AsicPath, prefix, KnownNeighbors(nexthops))
<1> DEFINE route == SetAttr(DefaultRoute, RouteAttr(nexthops, oid))
<1>1. UNCHANGED <<next_hops, m_ip2NextHopMap, m_ip2NbrMap>>
  BY DEF OnlyRoutes
<1>2. route = IF nexthops = BlackHole THEN [action |-> "DROP", next_hop |-> NullOid]
              ELSE [action |-> "FORWARD", next_hop |-> oid]
  BY DEF SetAttr, DefaultRoute, RouteAttr, DropAttr, NextHopAttr
<1>3. /\ DOMAIN routes' = DOMAIN routes \cup {prefix} /\ routes'[prefix] = route
      /\ \A p \in DOMAIN routes : p # prefix /\ routes'[p] = routes[p]
      /\ DOMAIN m_Routes' = DOMAIN m_Routes \cup {prefix} /\ m_Routes'[prefix] = nexthops
      /\ \A p \in DOMAIN m_Routes : p # prefix /\ m_Routes'[p] = m_Routes[p]
  BY DEF Put
<1>4. /\ DOMAIN m_EcmpGroups' = DOMAIN m_EcmpGroups \cup {nexthops}
      /\ m_EcmpGroups'[nexthops] = oid
      /\ \A S \in DOMAIN m_EcmpGroups \ {nexthops} : m_EcmpGroups'[S] = m_EcmpGroups[S]
      /\ \A g \in DOMAIN groups : g \in DOMAIN groups' /\ groups'[g] = groups[g]
      /\ DOMAIN groups' \subseteq GrpOids
  BY DEF Prepared, IsMap
<1>5. ASSUME NEW x \in LiveOids
      PROVE  IpsOf(x)' = IpsOf(x)
  BY <1>1, <1>4, <1>5, GroupsGrow DEF Inv
<1>6. ASSUME NEW p \in DOMAIN m_Routes, m_Routes[p] = nexthops
      PROVE  nexthops = BlackHole
  BY <1>6 DEF Inv, FibInv, RoutesWritten
<1>7. want' = m_Routes'
  BY DEF Inv, FibInv
<1>8. RoutesWritten'
  <2> SUFFICES ASSUME NEW p \in DOMAIN m_Routes'
               PROVE  /\ p \in DOMAIN routes' /\ m_Routes'[p] \in DOMAIN m_EcmpGroups'
                      /\ routes'[p] = RouteFor(m_Routes[p])'
    BY DEF RoutesWritten
  <2>1. CASE p = prefix
    BY <1>2, <1>3, <1>4, <2>1 DEF RouteFor
  <2>2. CASE p # prefix
    <3>1. /\ p \in DOMAIN m_Routes /\ p \in DOMAIN routes
          /\ m_Routes[p] \in DOMAIN m_EcmpGroups /\ routes[p] = RouteFor(m_Routes[p])
      BY <1>3, <2>2 DEF Inv, FibInv, RoutesWritten
    <3>2. m_Routes[p] # BlackHole => m_EcmpGroups'[m_Routes[p]] = m_EcmpGroups[m_Routes[p]]
      BY <1>4, <1>6, <3>1
    <3> QED
      BY <1>3, <1>4, <3>1, <3>2 DEF RouteFor
  <2> QED
    BY <2>1, <2>2
<1>9. SetsHeld'
  BY <1>3, <1>4 DEF Inv, FibInv, SetsHeld
<1>10. NoSharing'
  BY <1>3, <1>6 DEF Inv, FibInv, NoSharing
<1>11. UsedAreCurrent'
  <2> SUFFICES ASSUME NEW n \in DOMAIN next_hops, NextHopInUse(n)'
               PROVE  Current(n)
    BY <1>1 DEF UsedAreCurrent, Current
  <2>1. n \notin DOMAIN groups' /\ n # NullOid
    BY <1>4, Kinds DEF Inv
  <2>2. NextHopInUse(n) \/ n \in Nhids(nexthops)
    <3>1. CASE \E g \in DOMAIN groups' : n \in groups'[g]
      BY <1>4, <3>1 DEF NextHopInUse
    <3>2. CASE \E p \in DOMAIN routes' : routes'[p].next_hop = n
      BY <1>2, <1>3, <2>1, <3>2 DEF NextHopInUse
    <3> QED
      BY <3>1, <3>2 DEF NextHopInUse
  <2> QED
    BY <2>2, NhidsExact DEF Inv, FibInv, UsedAreCurrent
<1>12. AsicPath' = Put(AsicPath, prefix, KnownNeighbors(nexthops))
  <2>1. Destinations(prefix)' = KnownNeighbors(nexthops)
    <3>1. nexthops = BlackHole => KnownNeighbors(nexthops) = {}
      BY ZeroAssumption DEF KnownNeighbors, BlackHole, Inv, Known, NbrInv, NbrTypes, IsMap
    <3>2. IpsOf(oid)' = {next_hops'[n].ip : n \in MembersOf(oid)'}
      BY DEF IpsOf
    <3> QED
      BY <1>2, <1>3, <3>1, <3>2 DEF Destinations, MembersOf
  <2>2. \A p \in DOMAIN routes : Destinations(p)' = Destinations(p)
    <3> SUFFICES ASSUME NEW p \in DOMAIN routes
                 PROVE  Destinations(p)' = Destinations(p)
      OBVIOUS
    <3>1. routes[p].next_hop \in LiveOids
      BY DEF Inv, DeliveryInv, NamedAlive
    <3>2. routes'[p] = routes[p]
      BY <1>3
    <3>3. \A x \in LiveOids : IpsOf(x)' = IpsOf(x)
      BY <1>5
    <3> QED
      BY <3>1, <3>2, <3>3 DEF Destinations, IpsOf, MembersOf
  <2>3. DOMAIN routes' \ SetupPrefixes = (DOMAIN routes \ SetupPrefixes) \cup {prefix}
    BY <1>3
  <2> QED
    BY <1>3, <2>1, <2>2, <2>3 DEF AsicPath, Put
<1> QED
  BY <1>7, <1>8, <1>9, <1>10, <1>11, <1>12 DEF FibInv

(* RouteMgr::Add, by the rules of the test program: a row more, or nothing. *)
LEMMA RouteAddMaps ==
  ASSUME NoLiberties, CleanFaults, Inv, OnlyRoutes,
         NEW prefix \in Prefixes \ (DOMAIN m_Routes \cup SetupPrefixes),
         NEW nexthops \in NextHopSets, NEW ok \in BOOLEAN,
         nexthops # BlackHole => \A p \in DOMAIN m_Routes : m_Routes[p] # nexthops,
         RouteMgr_Add(prefix, nexthops, ok),
         want' = IF ok THEN Put(want, prefix, nexthops) ELSE want
  PROVE  /\ FibInv'
         /\ \/ UNCHANGED want /\ AsicPath' = AsicPath
            \/ /\ nexthops = BlackHole \/ KnownNeighbors(nexthops) # {}
               /\ want' = Put(want, prefix, nexthops)
               /\ AsicPath' = Put(AsicPath, prefix, KnownNeighbors(nexthops))
<1>1. CASE Unresolved(nexthops) /\ ok = FALSE /\ UNCHANGED RouteVars
  BY <1>1, UnresolvedMaps
<1>2. ASSUME NEW oid, Resolved(nexthops, oid),
             WriteRoute(prefix, nexthops, RouteAttr(nexthops, oid), ok)
      PROVE  /\ FibInv'
             /\ nexthops = BlackHole \/ KnownNeighbors(nexthops) # {}
             /\ want' = Put(want, prefix, nexthops)
             /\ AsicPath' = Put(AsicPath, prefix, KnownNeighbors(nexthops))
  <2>1. Prepared(nexthops, oid)
    BY <1>2, ResolvedPrepares DEF Inv
  <2>2. /\ ok /\ prefix \notin DOMAIN routes
        /\ routes' = Put(routes, prefix, SetAttr(DefaultRoute, RouteAttr(nexthops, oid)))
        /\ m_Routes' = Put(m_Routes, prefix, nexthops)
    <3>1. TestRules /\ NoLeftovers
      BY DEF TestRules, NoLiberties, CleanFaults
    <3> QED
      BY <1>2, <2>1, <3>1, RouteAddWrites DEF Inv
  <2>3. nexthops # BlackHole => nexthops \notin DOMAIN m_EcmpGroups
    BY DEF Inv, FibInv, SetsHeld
  <2>4. CASE nexthops = BlackHole
    <3>1. nexthops \in DOMAIN m_EcmpGroups /\ m_EcmpGroups[nexthops] = NullOid
      BY <2>4 DEF Inv, DeliveryInv, BlackHoleIsNull
    <3>2. oid = NullOid /\ UNCHANGED groups
      BY <1>2, <3>1 DEF Resolved
    <3>3. NullOid \notin DOMAIN groups' /\ NullOid \notin DOMAIN next_hops'
      BY <3>2, Kinds DEF OnlyRoutes, Inv
    <3>4. KnownNeighbors(nexthops) = {}
      BY <2>4, ZeroAssumption DEF KnownNeighbors, BlackHole, Inv, Known, NbrInv, NbrTypes, IsMap
    <3>5. IpsOf(oid)' = KnownNeighbors(nexthops)
      BY <3>2, <3>3, <3>4 DEF IpsOf, MembersOf
    <3> QED
      BY <2>1, <2>2, <2>4, <3>2, <3>5, RouteWriteMaps
  <2>5. CASE nexthops # BlackHole
    <3>1. /\ oid # NullOid
          /\ IpsOf(oid)' = KnownNeighbors(nexthops) /\ KnownNeighbors(nexthops) # {}
          /\ oid \in Nhids(nexthops) \/ oid \in DOMAIN groups'
          /\ \A g \in DOMAIN groups' \ DOMAIN groups : groups'[g] = Nhids(nexthops)
      BY <1>2, <2>3, <2>5, ResolvedExact
    <3> QED
      BY <2>1, <2>2, <2>3, <2>5, <3>1, RouteWriteMaps
  <2> QED
    BY <2>4, <2>5
<1> QED
  BY <1>1, <1>2, Zenon DEF RouteMgr_Add

(* A route is removed with all that its set has, but for the black hole. *)
LEMMA RouteRemoved ==
  ASSUME Inv, OnlyRoutes, NEW prefix \in DOMAIN m_Routes, NEW gone,
         routes' = Erase(routes, prefix),
         m_Routes' = Erase(m_Routes, prefix),
         \A S \in DOMAIN m_EcmpGroups' :
           S \in DOMAIN m_EcmpGroups /\ m_EcmpGroups'[S] = m_EcmpGroups[S],
         DOMAIN m_EcmpGroups \ DOMAIN m_EcmpGroups' = {m_Routes[prefix]} \ {BlackHole},
         groups' = [g \in DOMAIN groups \ gone |-> groups[g]],
         \A p \in DOMAIN routes' : routes'[p].next_hop \notin gone,
         want' = Erase(want, prefix)
  PROVE  /\ FibInv'
         /\ AsicPath' = Erase(AsicPath, prefix)
<1>1. UNCHANGED <<next_hops, m_ip2NextHopMap, m_ip2NbrMap>>
  BY DEF OnlyRoutes
<1>2. /\ DOMAIN routes' = DOMAIN routes \ {prefix}
      /\ \A p \in DOMAIN routes' : routes'[p] = routes[p]
      /\ DOMAIN m_Routes' = DOMAIN m_Routes \ {prefix}
      /\ \A p \in DOMAIN m_Routes' : m_Routes'[p] = m_Routes[p]
      /\ DOMAIN groups' = DOMAIN groups \ gone
      /\ \A g \in DOMAIN groups' : groups'[g] = groups[g]
  BY DEF Erase
<1>3. want' = m_Routes'
  BY DEF Inv, FibInv
<1>4. NoSharing'
  BY <1>2 DEF Inv, FibInv, NoSharing
<1>5. RoutesWritten'
  <2> SUFFICES ASSUME NEW p \in DOMAIN m_Routes'
               PROVE  /\ p \in DOMAIN routes' /\ m_Routes'[p] \in DOMAIN m_EcmpGroups'
                      /\ routes'[p] = RouteFor(m_Routes[p])'
    BY DEF RoutesWritten
  <2>1. /\ p \in DOMAIN m_Routes /\ p # prefix /\ p \in DOMAIN routes
        /\ m_Routes[p] \in DOMAIN m_EcmpGroups /\ routes[p] = RouteFor(m_Routes[p])
    BY <1>2 DEF Inv, FibInv, RoutesWritten
  <2>2. m_Routes[p] # m_Routes[prefix] \/ m_Routes[p] = BlackHole
    BY <2>1 DEF Inv, FibInv, NoSharing
  <2>3. m_Routes[p] \in DOMAIN m_EcmpGroups'
    BY <2>1, <2>2
  <2> QED
    BY <1>2, <2>1, <2>3 DEF RouteFor
<1>6. SetsHeld'
  <2> SUFFICES ASSUME NEW S \in DOMAIN m_EcmpGroups' \ {BlackHole}
               PROVE  m_EcmpGroups'[S] # NullOid /\ \E p \in DOMAIN m_Routes' : m_Routes'[p] = S
    BY DEF SetsHeld
  <2>1. S \in DOMAIN m_EcmpGroups /\ S # m_Routes[prefix]
    OBVIOUS
  <2>2. PICK p \in DOMAIN m_Routes : m_Routes[p] = S
    BY <2>1 DEF Inv, FibInv, SetsHeld
  <2> QED
    BY <1>2, <2>1, <2>2 DEF Inv, FibInv, SetsHeld
<1>7. UsedAreCurrent'
  BY <1>1, <1>2 DEF UsedAreCurrent, Current, NextHopInUse, Inv, FibInv
<1>8. AsicPath' = Erase(AsicPath, prefix)
  <2>1. ASSUME NEW p \in DOMAIN routes'
        PROVE  Destinations(p)' = Destinations(p)
    <3>1. routes'[p] = routes[p] /\ routes[p].next_hop \notin gone
      BY <1>2
    <3> DEFINE oid == routes[p].next_hop
    <3>2. oid \in DOMAIN groups' <=> oid \in DOMAIN groups
      BY <1>2, <3>1
    <3>3. oid \in DOMAIN groups' => groups'[oid] = groups[oid]
      BY <1>2
    <3> QED
      BY <1>1, <3>1, <3>2, <3>3 DEF Destinations, MembersOf
  <2>2. DOMAIN routes' \ SetupPrefixes = (DOMAIN routes \ SetupPrefixes) \ {prefix}
    BY <1>2
  <2> QED
    BY <2>1, <2>2 DEF AsicPath, Erase
<1> QED
  BY <1>3, <1>4, <1>5, <1>6, <1>7, <1>8 DEF FibInv

(* No other route has the group of a route: its removal is not refused. *)
LEMMA GroupIsFree ==
  ASSUME Inv, NEW prefix \in DOMAIN m_Routes, routes' = Erase(routes, prefix),
         m_Routes[prefix] \in DOMAIN m_EcmpGroups,
         m_EcmpGroups[m_Routes[prefix]] \in GrpOids
  PROVE  ~ GroupInUse(m_EcmpGroups[m_Routes[prefix]])
<1> DEFINE nhg_id == m_EcmpGroups[m_Routes[prefix]]
<1> SUFFICES ASSUME NEW p \in DOMAIN routes', routes'[p].next_hop = nhg_id
             PROVE  FALSE
  BY DEF GroupInUse
<1>1. p \in DOMAIN routes /\ p # prefix /\ routes[p].next_hop = nhg_id
  BY DEF Erase
<1>2. nhg_id # NullOid
  BY SaiAssumption
<1>3. p \in DOMAIN m_Routes
  <2>1. RoutesTracked
    BY DEF Inv, Known, RouteInv
  <2>2. p \in SetupPrefixes => routes[p].next_hop = NullOid
    <3>1. p \in SetupPrefixes => routes[p] = SetupRoute(p)
      BY <2>1 DEF RoutesTracked
    <3>2. SetupRoute(p).next_hop = NullOid
      BY DEF SetupRoute
    <3> QED
      BY <3>1, <3>2
  <2> QED
    BY <1>1, <1>2, <2>1, <2>2 DEF RoutesTracked
<1>4. m_Routes[p] \in DOMAIN m_EcmpGroups /\ m_EcmpGroups[m_Routes[p]] = nhg_id
      /\ m_Routes[p] # BlackHole
  <2>1. m_Routes[p] \in DOMAIN m_EcmpGroups /\ routes[p] = RouteFor(m_Routes[p])
    BY <1>3 DEF Inv, FibInv, RoutesWritten
  <2>2. routes[p].next_hop =
          IF m_Routes[p] = BlackHole THEN NullOid ELSE m_EcmpGroups[m_Routes[p]]
    BY <2>1 DEF RouteFor
  <2> QED
    BY <1>1, <1>2, <2>1, <2>2
<1>5. \A S \in DOMAIN m_EcmpGroups : m_EcmpGroups[S] = nhg_id =>
        S \in DOMAIN m_ips2NextHGMap /\ m_ips2NextHGMap[S] = nhg_id
  BY DEF Inv, DeliveryInv, CachePinned, Pinned
<1>6. m_Routes[p] = m_Routes[prefix]
  BY <1>4, <1>5 DEF Inv, Known, GroupsLive
<1> QED
  BY <1>1, <1>3, <1>4, <1>6 DEF Inv, FibInv, NoSharing

(* RouteMgr::Del: a row less, or nothing. *)
LEMMA RouteDelMaps ==
  ASSUME CleanFaults, Inv, OnlyRoutes,
         NEW prefix \in Prefixes, NEW ok \in BOOLEAN, RouteMgr_Del(prefix, ok)
  PROVE  \/ /\ UNCHANGED <<groups, routes, m_Routes, m_EcmpGroups>>
            /\ ok => prefix \notin DOMAIN m_Routes
         \/ /\ ok /\ prefix \in DOMAIN m_Routes /\ m_Routes' = Erase(m_Routes, prefix)
            /\ want' = Erase(want, prefix) =>
                 FibInv' /\ AsicPath' = Erase(AsicPath, prefix)
<1> DEFINE nexthops == m_Routes[prefix]
           nhg_id == Get(m_EcmpGroups, nexthops)
           Goal == /\ ok /\ prefix \in DOMAIN m_Routes /\ m_Routes' = Erase(m_Routes, prefix)
                   /\ want' = Erase(want, prefix) =>
                        FibInv' /\ AsicPath' = Erase(AsicPath, prefix)
<1>1. ASSUME prefix \in DOMAIN m_Routes, remove_route(prefix, TRUE),
             \/ /\ nhg_id = NullOid
                /\ ok = TRUE
                /\ m_EcmpGroups' = GetOrInsert(m_EcmpGroups, nexthops)
                /\ m_Routes' = Erase(m_Routes, prefix)
                /\ UNCHANGED GrpVars
             \/ /\ nhg_id \in NhOids
                /\ ok = TRUE
                /\ ForgetRoute(prefix, nexthops)
                /\ UNCHANGED GrpVars
             \/ /\ nhg_id \in GrpOids
                /\ DeleteGroupOf(prefix, nexthops, ok)
      PROVE  Goal
  <2>1. routes' = Erase(routes, prefix)
    BY <1>1 DEF remove_route
  <2>2. nexthops \in DOMAIN m_EcmpGroups /\ nhg_id = m_EcmpGroups[nexthops]
    BY <1>1 DEF Inv, FibInv, RoutesWritten, Get
  <2>3. BlackHole \in DOMAIN m_EcmpGroups /\ m_EcmpGroups[BlackHole] = NullOid
    BY DEF Inv, DeliveryInv, BlackHoleIsNull
  <2>4. groups = [g \in DOMAIN groups \ {} |-> groups[g]]
    BY DEF Inv, Known, RouteInv, GroupTypes, IsMap
  <2>5. CASE /\ nhg_id = NullOid /\ ok = TRUE
             /\ m_EcmpGroups' = GetOrInsert(m_EcmpGroups, nexthops)
             /\ m_Routes' = Erase(m_Routes, prefix)
             /\ UNCHANGED GrpVars
    <3> DEFINE gone == {}
    <3>1. nexthops = BlackHole
      BY <2>2, <2>5 DEF Inv, FibInv, SetsHeld
    <3>2. /\ DOMAIN m_EcmpGroups' = DOMAIN m_EcmpGroups
          /\ \A S \in DOMAIN m_EcmpGroups : m_EcmpGroups'[S] = m_EcmpGroups[S]
      BY <2>2, <2>5 DEF GetOrInsert, Put, Get
    <3>3. /\ groups' = [g \in DOMAIN groups \ gone |-> groups[g]]
          /\ \A p \in DOMAIN routes' : routes'[p].next_hop \notin gone
      BY <2>4, <2>5 DEF GrpVars
    <3> HIDE DEF gone
    <3>4. want' = Erase(want, prefix) => FibInv' /\ AsicPath' = Erase(AsicPath, prefix)
      BY <1>1, <2>1, <2>5, <3>1, <3>2, <3>3, RouteRemoved
    <3> QED
      BY <1>1, <2>5, <3>4
  <2>6. ASSUME ok = TRUE, nhg_id # NullOid, ForgetRoute(prefix, nexthops),
               NEW gone, groups' = [g \in DOMAIN groups \ gone |-> groups[g]],
               \A p \in DOMAIN routes' : routes'[p].next_hop \notin gone
        PROVE  Goal
    <3>1. nexthops # BlackHole
      BY <2>2, <2>3, <2>6
    <3>2. /\ DOMAIN m_EcmpGroups' = DOMAIN m_EcmpGroups \ {nexthops}
          /\ \A S \in DOMAIN m_EcmpGroups' : m_EcmpGroups'[S] = m_EcmpGroups[S]
          /\ m_Routes' = Erase(m_Routes, prefix)
      BY <2>6 DEF ForgetRoute, Erase
    <3>3. DOMAIN m_EcmpGroups \ DOMAIN m_EcmpGroups' = {nexthops} \ {BlackHole}
      BY <2>2, <3>1, <3>2
    <3>4. want' = Erase(want, prefix) => FibInv' /\ AsicPath' = Erase(AsicPath, prefix)
      BY <1>1, <2>1, <2>6, <3>2, <3>3, RouteRemoved
    <3> QED
      BY <1>1, <2>6, <3>2, <3>4
  <2>7. CASE nhg_id \in NhOids /\ ok = TRUE /\ ForgetRoute(prefix, nexthops) /\ UNCHANGED GrpVars
    <3> DEFINE gone == {}
    <3>1. /\ groups' = [g \in DOMAIN groups \ gone |-> groups[g]]
          /\ \A p \in DOMAIN routes' : routes'[p].next_hop \notin gone
      BY <2>4, <2>7 DEF GrpVars
    <3>2. nhg_id # NullOid
      BY <2>7, SaiAssumption
    <3> HIDE DEF gone
    <3> QED
      BY <2>6, <2>7, <3>1, <3>2
  <2>8. CASE nhg_id \in GrpOids /\ DeleteGroupOf(prefix, nexthops, ok)
    <3> DEFINE gone == {nhg_id}
    <3>1. /\ nexthops \in DOMAIN m_ips2NextHGMap /\ m_ips2NextHGMap[nexthops] = nhg_id
          /\ nhg_id \in DOMAIN groups
      BY <2>2, <2>8 DEF Inv, DeliveryInv, CachePinned, Pinned
    <3>2. ~ GroupInUse(nhg_id)
      BY <1>1, <2>1, <2>2, <2>8, GroupIsFree
    <3>3. remove_next_hop_group(nhg_id, ok)
      BY <2>8, <3>1 DEF DeleteGroupOf, NextHopGrpMgr_Del
    <3>4. ok = TRUE /\ groups' = Erase(groups, nhg_id)
      BY <3>1, <3>2, <3>3 DEF remove_next_hop_group, Status, CleanFaults
    <3>5. ForgetRoute(prefix, nexthops)
      BY <2>8, <3>4 DEF DeleteGroupOf
    <3>6. /\ groups' = [g \in DOMAIN groups \ gone |-> groups[g]]
          /\ \A p \in DOMAIN routes' : routes'[p].next_hop \notin gone
      BY <3>2, <3>4 DEF Erase, GroupInUse
    <3>7. nhg_id # NullOid
      BY <2>8, SaiAssumption
    <3> HIDE DEF gone
    <3> QED
      BY <2>6, <3>4, <3>5, <3>6, <3>7
  <2> QED
    BY <1>1, <2>5, <2>7, <2>8
<1>2. CASE remove_route(prefix, FALSE) /\ ok = FALSE /\ UNCHANGED <<GrpVars, m_Routes, m_EcmpGroups>>
  BY <1>2 DEF remove_route, GrpVars
<1>3. CASE prefix \notin DOMAIN m_Routes /\ UNCHANGED <<GrpVars, RouteVars>>
  BY <1>3 DEF GrpVars, RouteVars
<1> QED
  BY <1>1, <1>2, <1>3, Zenon DEF RouteMgr_Del

-----------------------------------------------------------------------------
(* The steps, in terms of the forwarding table *)
LEMMA TableStutters ==
  ASSUME UNCHANGED <<KnownIps, want>>, AsicPath' = AsicPath
  PROVE  [Promise!Next]_(Promise!vars)
BY DEF Promise!vars, KnownIps, AsicPath

LEMMA TableAddsNeighbor ==
  ASSUME NEW ip \in Ips, ip \notin KnownIps, KnownIps' = KnownIps \cup {ip},
         UNCHANGED want, AsicPath' = AsicPath
  PROVE  Promise!Next
<1>1. Promise!AddNeighbor(ip)
  BY DEF Promise!AddNeighbor, KnownIps, AsicPath
<1> QED
  BY <1>1 DEF Promise!Next

LEMMA TableDelsNeighbor ==
  ASSUME NEW ip \in Ips, ip \in KnownIps, KnownIps' = KnownIps \ {ip},
         \A p \in DOMAIN AsicPath : ip \notin AsicPath[p],
         UNCHANGED want, AsicPath' = AsicPath
  PROVE  Promise!Next
<1>1. Promise!DelNeighbor(ip)
  BY DEF Promise!DelNeighbor, KnownIps, AsicPath
<1> QED
  BY <1>1 DEF Promise!Next

LEMMA TableAddsRoute ==
  ASSUME NEW prefix \in Prefixes, NEW nexthops \in NextHopSets,
         nexthops = BlackHole \/ KnownNeighbors(nexthops) # {},
         want' = Put(want, prefix, nexthops),
         AsicPath' = Put(AsicPath, prefix, KnownNeighbors(nexthops)),
         UNCHANGED KnownIps
  PROVE  Promise!Next
<1>1. Promise!AddRoute(prefix, nexthops)
  BY DEF Promise!AddRoute, Promise!With, KnownIps, AsicPath, KnownNeighbors, Put
<1>2. nexthops \in Promise!NextHopSets
  BY DEF Promise!NextHopSets, NextHopSets
<1> QED
  BY <1>1, <1>2 DEF Promise!Next

LEMMA TableDelsRoute ==
  ASSUME NEW prefix \in Prefixes, prefix \in DOMAIN want,
         want' = Erase(want, prefix), AsicPath' = Erase(AsicPath, prefix),
         UNCHANGED KnownIps
  PROVE  Promise!Next
<1>1. Promise!DelRoute(prefix)
  BY DEF Promise!DelRoute, Promise!Without, KnownIps, AsicPath, Erase
<1> QED
  BY <1>1 DEF Promise!Next

(* A Del of a route by the caller and one turn of the loop of EraseAll. *)
LEMMA RouteDelStep ==
  ASSUME CleanFaults, Inv, OnlyRoutes,
         NEW prefix \in Prefixes, NEW ok \in BOOLEAN, RouteMgr_Del(prefix, ok),
         \/ want' = IF ok THEN Erase(want, prefix) ELSE want
         \/ want' = [p \in DOMAIN want \ (DOMAIN m_Routes \ DOMAIN m_Routes') |-> want[p]]
  PROVE  FibInv' /\ [Promise!Next]_(Promise!vars)
<1>1. want = m_Routes /\ IsMap(want, Prefixes, NextHopSets)
  BY DEF Inv, FibInv, Known, RouteInv
<1>2. UNCHANGED KnownIps
  BY DEF OnlyRoutes, KnownIps
<1>3. CASE /\ UNCHANGED <<groups, routes, m_Routes, m_EcmpGroups>>
           /\ ok => prefix \notin DOMAIN m_Routes
  <2>1. UNCHANGED want
    BY <1>1, <1>3 DEF Erase, IsMap
  <2>2. UNCHANGED <<next_hops, m_ip2NextHopMap>>
    BY DEF OnlyRoutes
  <2>3. FibInv'
    BY <1>3, <2>1, <2>2
       DEF Inv, FibInv, RoutesWritten, RouteFor, SetsHeld, NoSharing, UsedAreCurrent, Current,
           NextHopInUse
  <2>4. AsicPath' = AsicPath
    BY <1>3, <2>2 DEF AsicPath, Destinations, MembersOf
  <2> QED
    BY <1>2, <2>1, <2>3, <2>4, TableStutters
<1>4. CASE /\ ok /\ prefix \in DOMAIN m_Routes /\ m_Routes' = Erase(m_Routes, prefix)
           /\ want' = Erase(want, prefix) =>
                FibInv' /\ AsicPath' = Erase(AsicPath, prefix)
  <2>1. DOMAIN m_Routes \ DOMAIN m_Routes' = {prefix}
    BY <1>4 DEF Erase
  <2>2. want' = Erase(want, prefix)
    BY <1>4, <2>1 DEF Erase
  <2> QED
    BY <1>1, <1>2, <1>4, <2>2, TableDelsRoute
<1> QED
  BY <1>3, <1>4, RouteDelMaps

LEMMA NeighborDelStep ==
  ASSUME CleanFaults, Inv, Known', OnlyNeighbors,
         NEW ip \in Ips, NEW ok \in BOOLEAN, NeighborMgr_Del(ip, ok)
  PROVE  FibInv' /\ [Promise!Next]_(Promise!vars)
<1>1. /\ FibInv' /\ UNCHANGED want /\ AsicPath' = AsicPath
      /\ \/ UNCHANGED KnownIps
         \/ /\ ip \in KnownIps /\ KnownIps' = KnownIps \ {ip}
            /\ \A p \in DOMAIN AsicPath : ip \notin AsicPath[p]
  BY NeighborDelMaps
<1> QED
  BY <1>1, TableStutters, TableDelsNeighbor

(* Every step keeps the invariant, and is a step of the table or none. *)
LEMMA FibStep ==
  ASSUME NoLiberties, CleanFaults, Inv, Known', [Next]_vars
  PROVE  FibInv' /\ [Promise!Next]_(Promise!vars)
<1>0. phase # "NextHopMgr::EraseAll"
  BY DEF Inv, DeliveryInv
<1>1. ASSUME NEW ip \in Ips, NEW mac \in Macs, NEW intf \in Intfs,
             AddNeighbor(ip, mac, intf)
      PROVE  FibInv' /\ [Promise!Next]_(Promise!vars)
  <2>1. /\ FibInv' /\ UNCHANGED want /\ AsicPath' = AsicPath
        /\ \/ UNCHANGED KnownIps
           \/ ip \notin KnownIps /\ KnownIps' = KnownIps \cup {ip}
    BY <1>1, AddNeighborMaps
  <2> QED
    BY <2>1, TableStutters, TableAddsNeighbor
<1>2. ASSUME NEW ip \in Ips, DelNeighbor(ip)
      PROVE  FibInv' /\ [Promise!Next]_(Promise!vars)
  BY <1>2, NeighborDelStep DEF DelNeighbor
<1>3. ASSUME NEW nexthops \in NextHopSets, AddGroup(nexthops) \/ DelGroup(nexthops)
      PROVE  FALSE
  BY <1>3 DEF AddGroup, DelGroup, Allowed, NoLiberties
<1>4. ASSUME NEW prefix \in Prefixes, NEW nexthops \in NextHopSets,
             AddRoute(prefix, nexthops)
      PROVE  FibInv' /\ [Promise!Next]_(Promise!vars)
  <2>1. /\ OnlyRoutes /\ prefix \in Prefixes \ (DOMAIN m_Routes \cup SetupPrefixes)
        /\ nexthops # BlackHole => \A p \in DOMAIN m_Routes : m_Routes[p] # nexthops
    BY <1>4 DEF AddRoute, Allowed, NoLiberties
  <2>2. PICK ok \in BOOLEAN :
          /\ RouteMgr_Add(prefix, nexthops, ok)
          /\ want' = IF ok THEN Put(want, prefix, nexthops) ELSE want
    BY <1>4, Zenon DEF AddRoute
  <2>3. /\ FibInv'
        /\ \/ UNCHANGED want /\ AsicPath' = AsicPath
           \/ /\ nexthops = BlackHole \/ KnownNeighbors(nexthops) # {}
              /\ want' = Put(want, prefix, nexthops)
              /\ AsicPath' = Put(AsicPath, prefix, KnownNeighbors(nexthops))
    BY <2>1, <2>2, RouteAddMaps
  <2>4. UNCHANGED KnownIps
    BY <2>1 DEF OnlyRoutes, KnownIps
  <2> QED
    BY <2>3, <2>4, TableStutters, TableAddsRoute
<1>5. ASSUME NEW prefix \in Prefixes, DelRoute(prefix)
      PROVE  FibInv' /\ [Promise!Next]_(Promise!vars)
  <2>1. PICK ok \in BOOLEAN :
          /\ RouteMgr_Del(prefix, ok)
          /\ want' = IF ok THEN Erase(want, prefix) ELSE want
    BY <1>5, Zenon DEF DelRoute
  <2>2. OnlyRoutes
    BY <1>5 DEF DelRoute
  <2> QED
    BY <2>1, <2>2, RouteDelStep
<1>6. CASE UNCHANGED <<sai, caches, want>>
  <2>1. FibInv'
    BY <1>6
       DEF sai, caches, Inv, FibInv, RoutesWritten, RouteFor, SetsHeld, NoSharing,
           UsedAreCurrent, Current, NextHopInUse
  <2>2. UNCHANGED KnownIps /\ AsicPath' = AsicPath
    BY <1>6 DEF sai, caches, KnownIps, AsicPath, Destinations, MembersOf
  <2> QED
    BY <1>6, <2>1, <2>2, TableStutters
<1>7. CASE BeginEraseAll
  BY <1>6, <1>7 DEF BeginEraseAll
<1>8. CASE EraseNextHops
  BY <1>0, <1>8 DEF EraseNextHops, NextHopMgr_EraseAll
<1>9. CASE EraseNeighbors
  <2>1. OnlyNeighbors
    BY <1>9 DEF EraseNeighbors
  <2>2. CASE UNCHANGED NbrVars
    BY <1>6, <2>1, <2>2 DEF NbrVars, OnlyNeighbors, sai, caches
  <2>3. ASSUME NEW ip \in DOMAIN m_ip2NbrMap, NEW ok \in BOOLEAN, NeighborMgr_Del(ip, ok)
        PROVE  FibInv' /\ [Promise!Next]_(Promise!vars)
    <3>1. ip \in Ips
      BY DEF Inv, Known, NbrInv, NbrTypes, IsMap
    <3> QED
      BY <2>1, <2>3, <3>1, NeighborDelStep
  <2> QED
    BY <1>9, <2>2, <2>3 DEF EraseNeighbors, NeighborMgr_EraseAll
<1>10. CASE EraseRoutes
  <2>1. /\ OnlyRoutes
        /\ want' = [p \in DOMAIN want \ (DOMAIN m_Routes \ DOMAIN m_Routes') |-> want[p]]
    BY <1>10 DEF EraseRoutes
  <2>2. CASE UNCHANGED <<GrpVars, RouteVars>>
    <3>1. UNCHANGED want
      BY <2>1, <2>2 DEF RouteVars, Inv, Known, RouteInv, FibInv, IsMap
    <3> QED
      BY <1>6, <2>1, <2>2, <3>1 DEF OnlyRoutes, GrpVars, RouteVars, sai, caches
  <2>3. ASSUME NEW prefix \in DOMAIN m_Routes, NEW ok \in BOOLEAN, RouteMgr_Del(prefix, ok)
        PROVE  FibInv' /\ [Promise!Next]_(Promise!vars)
    <3>1. prefix \in Prefixes
      BY DEF Inv, Known, RouteInv, IsMap
    <3> QED
      BY <2>1, <2>3, <3>1, RouteDelStep
  <2> QED
    BY <1>10, <2>2, <2>3 DEF EraseRoutes, RouteMgr_EraseAll
<1>11. CASE UNCHANGED vars
  BY <1>6, <1>11 DEF vars
<1> QED
  BY <1>1, <1>2, <1>3, <1>4, <1>5, <1>7, <1>8, <1>9, <1>10, <1>11 DEF Next, Crashed

LEMMA FibStart ==
  ASSUME Init
  PROVE  FibInv /\ Promise!Init
<1>1. /\ next_hops = EmptyMap /\ groups = EmptyMap /\ m_Routes = EmptyMap /\ want = EmptyMap
      /\ m_ip2NbrMap = EmptyMap
      /\ m_EcmpGroups = [nexthops \in {BlackHole} |-> NullOid]
      /\ routes = [prefix \in SetupPrefixes |-> SetupRoute(prefix)]
  BY DEF Init
<1>2. FibInv
  BY <1>1
     DEF FibInv, RoutesWritten, SetsHeld, NoSharing, UsedAreCurrent, EmptyMap
<1>3. AsicPath = EmptyMap
  BY <1>1 DEF AsicPath, EmptyMap
<1>4. Promise!Init
  BY <1>1, <1>3 DEF Promise!Init, AsicPath, EmptyMap
<1> QED
  BY <1>2, <1>4

(* The invariant holds, beside what was proved before. *)
LEMMA FibInvariant ==
  ASSUME NoLiberties, CleanFaults
  PROVE  Spec => []Inv
<1>1. /\ "group_of_one" \notin Liberties
      /\ TestRules /\ NoLeftovers
  BY DEF NoLiberties, CleanFaults, TestRules
<1>2. Spec => []Known
  BY <1>1, NbrInvariant, RouteInvariant, GroupsAlwaysLive, PTL DEF Known
<1>3. Init => DeliveryInv /\ FibInv
  BY DeliveryStart, FibStart
<1>4. Known /\ Known' /\ DeliveryInv /\ FibInv /\ [Next]_vars => DeliveryInv' /\ FibInv'
  BY <1>1, DeliveryStep, FibStep DEF Inv
<1> QED
  BY <1>2, <1>3, <1>4, PTL DEF Spec, Inv

(* By the rules of the test program, whatever call fails besides the three of       *)
(* CleanFaults, the managers over SAI are the forwarding table Fib: each Add and    *)
(* Del, and each turn of EraseAll, is one step of the table or changes nothing.     *)
THEOREM ImplementsForwardingTable ==
  ASSUME NoLiberties, CleanFaults
  PROVE  Spec => ImplementsFib
<1>1. Spec => []Inv
  BY FibInvariant
<1>2. Init => Promise!Init
  BY FibStart
<1>3. Inv /\ Inv' /\ [Next]_vars => [Promise!Next]_(Promise!vars)
  BY FibStep DEF Inv
<1>4. Spec => Promise!Spec
  BY <1>1, <1>2, <1>3, PTL DEF Spec, Promise!Spec
<1> QED
  BY <1>4 DEF ImplementsFib

(* Under the same assumptions only the black hole stands for object 0, which       *)
(* RouteMgr::Del takes for it.                                                     *)
THEOREM OnlyBlackHoleAlwaysNull ==
  ASSUME NoLiberties, CleanFaults
  PROVE  Spec => []OnlyBlackHoleIsNull
<1>1. Inv => OnlyBlackHoleIsNull
  BY DEF Inv, FibInv, SetsHeld, OnlyBlackHoleIsNull
<1> QED
  BY <1>1, FibInvariant, PTL

(* A route leaves the ASIC and the table together: what the table lists is in the *)
(* ASIC, after a step as before it.                                                *)
THEOREM RoutesLeaveBoth ==
  ASSUME NoLiberties, CleanFaults
  PROVE  Spec => RouteLeavesBoth
<1> DEFINE Leaves == \A prefix \in DOMAIN routes \ DOMAIN routes' : prefix \notin DOMAIN m_Routes'
<1>1. Inv' => Leaves
  BY DEF Inv, FibInv, RoutesWritten
<1>2. Spec => [][Leaves]_vars
  BY <1>1, FibInvariant, PTL DEF Spec
<1> QED
  BY <1>2 DEF RouteLeavesBoth

-----------------------------------------------------------------------------
(* The ASIC holds what the caches list and nothing else.  An Add that fails after   *)
(* it has made something leaves that behind, so two more calls must not fail, and   *)
(* there must be an id for the next hop of every address.                           *)
NoLeaks == Faulty \cap {"create_next_hop", "object_type_query"} = {}

EnoughIds ==
  /\ IsFiniteSet(Ips)
  /\ IsFiniteSet(NhOids) => Cardinality(Ips) <= Cardinality(NhOids)

NeighborsExact ==
  /\ neighbors = {<<m_ip2NbrMap[ip].rif_id, ip>> : ip \in DOMAIN m_ip2NbrMap}
  /\ DOMAIN next_hops = {m_ip2NbrMap[ip].nhid : ip \in DOMAIN m_ip2NbrMap}

\* With GroupsLive: the groups are those of the cached sets.
GroupsExact ==
  /\ DOMAIN groups = {m_ips2NextHGMap[ips] : ips \in DOMAIN m_ips2NextHGMap}
  /\ \A ips \in DOMAIN m_ips2NextHGMap :
       ips \in DOMAIN m_EcmpGroups /\ m_EcmpGroups[ips] = m_ips2NextHGMap[ips]

ExactInv == NeighborsExact /\ GroupsExact

LEMMA InvIsCaches ==
  ASSUME Inv, ExactInv
  PROVE  AsicIsCaches
<1>1. DOMAIN routes = DOMAIN m_Routes \cup SetupPrefixes
  BY DEF Inv, Known, RouteInv, RoutesTracked, FibInv, RoutesWritten
<1>2. DOMAIN m_EcmpGroups = {BlackHole} \cup {m_Routes[prefix] : prefix \in DOMAIN m_Routes}
  BY DEF Inv, FibInv, RoutesWritten, SetsHeld, DeliveryInv, BlackHoleIsNull
<1> QED
  BY <1>1, <1>2 DEF ExactInv, NeighborsExact, GroupsExact, AsicIsCaches

(* While an address is no neighbor, some id is free. *)
LEMMA IdIsFree ==
  ASSUME EnoughIds, Inv, NeighborsExact, NEW ip \in Ips \ DOMAIN m_ip2NbrMap
  PROVE  ~ (NhOids \subseteq DOMAIN next_hops)
<1> SUFFICES ASSUME NhOids \subseteq DOMAIN next_hops
             PROVE  FALSE
  OBVIOUS
<1> DEFINE known == DOMAIN m_ip2NbrMap
           f == [x \in known |-> m_ip2NbrMap[x].nhid]
<1>1. NhOids = DOMAIN next_hops
  BY Kinds DEF Inv
<1>2. known \in SUBSET (Ips \ {ip})
  BY DEF Inv, Known, NbrInv, NbrTypes, IsMap
<1>3. IsFiniteSet(Ips \ {ip}) /\ Cardinality(Ips \ {ip}) = Cardinality(Ips) - 1
  BY FS_RemoveElement DEF EnoughIds
<1>4. IsFiniteSet(known) /\ Cardinality(known) <= Cardinality(Ips) - 1
  <2> HIDE DEF known
  <2> QED
    BY <1>2, <1>3, FS_Subset
<1>5. f \in Surjection(known, NhOids)
  <2>1. f \in [known -> NhOids]
    BY <1>1 DEF NeighborsExact
  <2>2. \A n \in NhOids : \E x \in known : f[x] = n
    BY <1>1 DEF NeighborsExact
  <2> QED
    BY <2>1, <2>2 DEF Surjection
<1>6. IsFiniteSet(NhOids) /\ Cardinality(NhOids) <= Cardinality(known)
  <2> HIDE DEF known, f
  <2> QED
    BY <1>4, <1>5, FS_Surjection
<1>7. /\ Cardinality(Ips) \in Nat /\ Cardinality(known) \in Nat
      /\ Cardinality(NhOids) \in Nat
  BY <1>4, <1>6, FS_CardinalityType DEF EnoughIds
<1> QED
  BY <1>4, <1>6, <1>7 DEF EnoughIds

LEMMA AddNeighborExact ==
  ASSUME NoLiberties, NoLeaks, EnoughIds, Inv, ExactInv,
         NEW ip \in Ips, NEW mac \in Macs, NEW intf \in Intfs, AddNeighbor(ip, mac, intf)
  PROVE  ExactInv'
<1>1. OnlyNeighbors /\ ip \notin DOMAIN m_ip2NbrMap
  BY DEF AddNeighbor, Allowed, NoLiberties
<1>2. GroupsExact'
  BY <1>1 DEF OnlyNeighbors, ExactInv, GroupsExact
<1>3. PICK ok \in BOOLEAN : NeighborMgr_Add(ip, mac, intf, ok)
  BY DEF AddNeighbor
<1>4. CASE UNCHANGED NbrVars
  BY <1>2, <1>4 DEF NbrVars, ExactInv, NeighborsExact
<1>5. ASSUME create_neighbor_entry(intf, ip, TRUE), NextHopMgr_Add(ip, mac, intf, ok),
             IF ok THEN StoreNeighbor(ip, mac, intf) ELSE UNCHANGED m_ip2NbrMap
      PROVE  NeighborsExact'
  <2>1. intf \in Rifs /\ neighbors' = neighbors \cup {<<intf, ip>>}
    BY <1>5 DEF create_neighbor_entry, Status
  <2>2. ~ SameNextHop(ip, mac, intf)
    BY <1>1 DEF SameNextHop, Inv, DeliveryInv, NbrsHaveNextHops
  <2>3. ~ create_next_hop(ip, intf, NullOid, FALSE)
    BY <1>1, <2>1, IdIsFree DEF create_next_hop, Status, NoLeaks, ExactInv
  <2>4. PICK nhid \in NhOids :
          /\ create_next_hop(ip, intf, nhid, TRUE)
          /\ m_ip2NextHopMap' = Put(m_ip2NextHopMap, ip,
                                    [macAddr |-> mac, intfAlias |-> intf,
                                     nhid |-> nhid, rif_id |-> intf])
          /\ ok = TRUE
    <3>1. "object_type_query" \notin Faulty
      BY DEF NoLeaks
    <3> QED
      BY <1>5, <2>1, <2>2, <2>3, <3>1, Zenon DEF NextHopMgr_Add
  <2>5. DOMAIN next_hops' = DOMAIN next_hops \cup {nhid}
    BY <2>4 DEF create_next_hop, Put
  <2>6. m_ip2NbrMap' = Put(m_ip2NbrMap, ip, [macAddr |-> mac, intfAlias |-> intf,
                                             nhid |-> nhid, rif_id |-> intf])
    BY <1>5, <2>4 DEF StoreNeighbor, Put
  <2>7. /\ DOMAIN m_ip2NbrMap' = DOMAIN m_ip2NbrMap \cup {ip}
        /\ m_ip2NbrMap'[ip].nhid = nhid /\ m_ip2NbrMap'[ip].rif_id = intf
        /\ \A x \in DOMAIN m_ip2NbrMap : m_ip2NbrMap'[x] = m_ip2NbrMap[x]
    BY <1>1, <2>6 DEF Put
  <2>8. neighbors' = {<<m_ip2NbrMap'[x].rif_id, x>> : x \in DOMAIN m_ip2NbrMap'}
    BY <2>1, <2>7 DEF ExactInv, NeighborsExact
  <2>9. DOMAIN next_hops' = {m_ip2NbrMap'[x].nhid : x \in DOMAIN m_ip2NbrMap'}
    BY <2>5, <2>7 DEF ExactInv, NeighborsExact
  <2> QED
    BY <2>8, <2>9 DEF NeighborsExact
<1>6. CASE create_neighbor_entry(intf, ip, FALSE) /\ UNCHANGED <<next_hops, m_ip2NextHopMap, m_ip2NbrMap>>
  BY <1>4, <1>6 DEF create_neighbor_entry, NbrVars
<1> QED
  BY <1>2, <1>3, <1>5, <1>6 DEF NeighborMgr_Add, ExactInv

LEMMA NeighborDelExact ==
  ASSUME CleanFaults, Inv, ExactInv, OnlyNeighbors,
         NEW ip \in Ips, NEW ok \in BOOLEAN, NeighborMgr_Del(ip, ok)
  PROVE  ExactInv'
<1>1. GroupsExact'
  BY DEF OnlyNeighbors, ExactInv, GroupsExact
<1>2. CASE UNCHANGED <<neighbors, next_hops, m_ip2NbrMap>>
  BY <1>1, <1>2 DEF ExactInv, NeighborsExact
<1>3. CASE NextHopMgr_Del(ip, FALSE) /\ UNCHANGED <<neighbors, m_ip2NbrMap>>
  BY <1>2, <1>3 DEF NextHopMgr_Del, remove_next_hop
<1>4. CASE /\ ip \in DOMAIN m_ip2NbrMap /\ NextHopMgr_Del(ip, TRUE)
           /\ remove_neighbor_entry(m_ip2NbrMap[ip].rif_id, ip, ok)
           /\ m_ip2NbrMap' = IF ok THEN Erase(m_ip2NbrMap, ip) ELSE m_ip2NbrMap
  <2> DEFINE nhid == m_ip2NbrMap[ip].nhid
             rif == m_ip2NbrMap[ip].rif_id
  <2>1. \A x \in DOMAIN m_ip2NbrMap :
          /\ x \in DOMAIN m_ip2NextHopMap /\ m_ip2NextHopMap[x].nhid = m_ip2NbrMap[x].nhid
          /\ m_ip2NbrMap[x].nhid \in DOMAIN next_hops
          /\ next_hops[m_ip2NbrMap[x].nhid].ip = x
    <3> SUFFICES ASSUME NEW x \in DOMAIN m_ip2NbrMap
                 PROVE  /\ x \in DOMAIN m_ip2NextHopMap
                        /\ m_ip2NextHopMap[x].nhid = m_ip2NbrMap[x].nhid
                        /\ m_ip2NbrMap[x].nhid \in DOMAIN next_hops
                        /\ next_hops[m_ip2NbrMap[x].nhid].ip = x
      OBVIOUS
    <3>1. x \in DOMAIN m_ip2NextHopMap /\ m_ip2NextHopMap[x].nhid = m_ip2NbrMap[x].nhid
      BY DEF Inv, DeliveryInv, NbrsHaveNextHops, Known, NbrInv, NeighborHasItsNextHop
    <3>2. /\ m_ip2NextHopMap[x].nhid \in DOMAIN next_hops
          /\ next_hops[m_ip2NextHopMap[x].nhid] = [ip |-> x, rif |-> m_ip2NextHopMap[x].rif_id]
      BY <3>1 DEF Inv, Known, NbrInv, NextHopsLive
    <3> QED
      BY <3>1, <3>2
  <2>2. next_hops' = Erase(next_hops, nhid)
    BY <1>4, <2>1 DEF NextHopMgr_Del, remove_next_hop
  <2>3. ok /\ neighbors' = neighbors \ {<<rif, ip>>}
    <3>1. <<rif, ip>> \in neighbors
      BY <1>4 DEF Inv, Known, NbrInv, NeighborsLive
    <3> QED
      BY <1>4, <3>1 DEF remove_neighbor_entry, Status, CleanFaults, NoLeftovers
  <2>4. /\ DOMAIN m_ip2NbrMap' = DOMAIN m_ip2NbrMap \ {ip}
        /\ \A x \in DOMAIN m_ip2NbrMap' : m_ip2NbrMap'[x] = m_ip2NbrMap[x]
    BY <1>4, <2>3 DEF Erase
  <2>5. neighbors' = {<<m_ip2NbrMap'[x].rif_id, x>> : x \in DOMAIN m_ip2NbrMap'}
    BY <1>4, <2>3, <2>4 DEF ExactInv, NeighborsExact
  <2>6. DOMAIN next_hops' = {m_ip2NbrMap'[x].nhid : x \in DOMAIN m_ip2NbrMap'}
    <3>1. DOMAIN next_hops' = DOMAIN next_hops \ {nhid}
      BY <2>2 DEF Erase
    <3>2. \A x \in DOMAIN m_ip2NbrMap : m_ip2NbrMap[x].nhid = nhid => x = ip
      BY <1>4, <2>1
    <3>3. DOMAIN next_hops = {m_ip2NbrMap[x].nhid : x \in DOMAIN m_ip2NbrMap}
      BY DEF ExactInv, NeighborsExact
    <3> QED
      BY <1>4, <2>4, <3>1, <3>2, <3>3
  <2> QED
    BY <1>1, <2>5, <2>6 DEF ExactInv, NeighborsExact
<1> QED
  BY <1>2, <1>3, <1>4, Zenon DEF NeighborMgr_Del, NbrVars

LEMMA AddRouteExact ==
  ASSUME NoLeaks, Inv, ExactInv, OnlyRoutes,
         NEW prefix, NEW nexthops \in NextHopSets, NEW ok \in BOOLEAN,
         RouteMgr_Add(prefix, nexthops, ok)
  PROVE  ExactInv'
<1>1. NeighborsExact'
  BY DEF OnlyRoutes, ExactInv, NeighborsExact
<1>2. CASE UNCHANGED <<groups, m_ips2NextHGMap, m_EcmpGroups>>
  BY <1>1, <1>2 DEF ExactInv, GroupsExact
<1>3. CASE Unresolved(nexthops) /\ UNCHANGED RouteVars
  <2>1. CASE NextHopGrpMgr_Add(nexthops, FALSE)
    <3>1. "object_type_query" \notin Faulty
      BY DEF NoLeaks
    <3>2. \/ UNCHANGED GrpVars
          \/ create_next_hop_group(Nhids(nexthops), NullOid, FALSE) /\ UNCHANGED m_ips2NextHGMap
      BY <2>1, <3>1, Zenon DEF NextHopGrpMgr_Add
    <3> QED
      BY <1>2, <1>3, <3>2 DEF create_next_hop_group, GrpVars, RouteVars
  <2> QED
    BY <1>2, <1>3, <2>1 DEF Unresolved, GrpVars, RouteVars
<1>4. ASSUME NEW oid, nexthops \notin DOMAIN m_EcmpGroups,
             m_EcmpGroups' = Put(m_EcmpGroups, nexthops, oid),
             \/ UNCHANGED GrpVars
             \/ /\ oid \in GrpOids /\ create_next_hop_group(Nhids(nexthops), oid, TRUE)
                /\ m_ips2NextHGMap' = Put(m_ips2NextHGMap, nexthops, oid)
      PROVE  GroupsExact'
  <2>1. nexthops \notin DOMAIN m_ips2NextHGMap
    BY <1>4 DEF ExactInv, GroupsExact
  <2>2. CASE UNCHANGED GrpVars
    BY <1>4, <2>2 DEF GrpVars, ExactInv, GroupsExact, Put
  <2>3. CASE /\ oid \in GrpOids /\ create_next_hop_group(Nhids(nexthops), oid, TRUE)
             /\ m_ips2NextHGMap' = Put(m_ips2NextHGMap, nexthops, oid)
    <3>1. DOMAIN groups' = DOMAIN groups \cup {oid}
      BY <2>3 DEF create_next_hop_group, Put
    <3>2. /\ DOMAIN m_ips2NextHGMap' = DOMAIN m_ips2NextHGMap \cup {nexthops}
          /\ m_ips2NextHGMap'[nexthops] = oid /\ m_EcmpGroups'[nexthops] = oid
          /\ \A S \in DOMAIN m_ips2NextHGMap : m_ips2NextHGMap'[S] = m_ips2NextHGMap[S]
          /\ DOMAIN m_EcmpGroups' = DOMAIN m_EcmpGroups \cup {nexthops}
          /\ \A S \in DOMAIN m_EcmpGroups : m_EcmpGroups'[S] = m_EcmpGroups[S]
      BY <1>4, <2>1, <2>3 DEF Put
    <3>3. DOMAIN groups' = {m_ips2NextHGMap'[S] : S \in DOMAIN m_ips2NextHGMap'}
      BY <3>1, <3>2 DEF ExactInv, GroupsExact
    <3> QED
      BY <3>2, <3>3 DEF ExactInv, GroupsExact
  <2> QED
    BY <1>4, <2>2, <2>3
<1>5. ASSUME NEW oid, Resolved(nexthops, oid)
      PROVE  ExactInv'
  <2>1. CASE KnownCount(nexthops) > 1 /\ NextHopGrpMgr_Add(nexthops, TRUE)
             /\ nexthops \notin DOMAIN m_EcmpGroups
             /\ oid = m_ips2NextHGMap'[nexthops]
             /\ m_EcmpGroups' = Put(m_EcmpGroups, nexthops, oid)
    <3>1. KnownCount(nexthops) # 1
      BY <2>1
    <3>2. PICK nhg_id \in GrpOids :
            /\ create_next_hop_group(Nhids(nexthops), nhg_id, TRUE)
            /\ m_ips2NextHGMap' = Put(m_ips2NextHGMap, nexthops, nhg_id)
      BY <2>1, <3>1, Zenon DEF NextHopGrpMgr_Add
    <3>3. oid = nhg_id
      BY <2>1, <3>2 DEF Put
    <3> QED
      BY <1>1, <1>4, <2>1, <3>2, <3>3 DEF ExactInv
  <2>2. CASE UNCHANGED <<groups, m_ips2NextHGMap, m_EcmpGroups>>
    BY <1>2, <2>2
  <2>3. CASE nexthops \notin DOMAIN m_EcmpGroups /\ UNCHANGED GrpVars
             /\ m_EcmpGroups' = Put(m_EcmpGroups, nexthops, oid)
    BY <1>1, <1>4, <2>3 DEF ExactInv
  <2> QED
    BY <1>5, <2>1, <2>2, <2>3, Zenon DEF Resolved
<1> QED
  BY <1>3, <1>5, Zenon DEF RouteMgr_Add

LEMMA DelRouteExact ==
  ASSUME Inv, ExactInv, OnlyRoutes,
         NEW prefix, NEW ok \in BOOLEAN, RouteMgr_Del(prefix, ok)
  PROVE  ExactInv'
<1> DEFINE nexthops == m_Routes[prefix]
           nhg_id == Get(m_EcmpGroups, nexthops)
<1>1. NeighborsExact'
  BY DEF OnlyRoutes, ExactInv, NeighborsExact
<1>2. CASE UNCHANGED GrpVars /\ UNCHANGED m_EcmpGroups
  BY <1>1, <1>2 DEF GrpVars, ExactInv, GroupsExact
<1>3. CASE UNCHANGED GrpVars /\ m_EcmpGroups' = GetOrInsert(m_EcmpGroups, nexthops)
  BY <1>1, <1>3 DEF GrpVars, ExactInv, GroupsExact, GetOrInsert, Get, Put
<1>4. CASE nhg_id \in NhOids /\ ForgetRoute(prefix, nexthops) /\ UNCHANGED GrpVars
  <2>1. nexthops \notin DOMAIN m_ips2NextHGMap
    <3>1. nexthops \in DOMAIN m_ips2NextHGMap => nhg_id \in DOMAIN groups
      BY DEF ExactInv, GroupsExact, Get
    <3> QED
      BY <1>4, <3>1, Kinds DEF Inv
  <2>2. GroupsExact'
    BY <1>4, <2>1 DEF GrpVars, ExactInv, GroupsExact, ForgetRoute, Erase
  <2> QED
    BY <1>1, <2>2 DEF ExactInv
<1>5. CASE nhg_id \in GrpOids /\ DeleteGroupOf(prefix, nexthops, ok)
  <2>1. nexthops \in DOMAIN m_EcmpGroups /\ m_EcmpGroups[nexthops] = nhg_id
    BY <1>5, SaiAssumption DEF Get
  <2>2. nexthops \in DOMAIN m_ips2NextHGMap /\ m_ips2NextHGMap[nexthops] = nhg_id
    BY <1>5, <2>1 DEF Inv, DeliveryInv, CachePinned, Pinned
  <2>3. /\ remove_next_hop_group(nhg_id, ok)
        /\ m_ips2NextHGMap' = IF ok THEN Erase(m_ips2NextHGMap, nexthops) ELSE m_ips2NextHGMap
        /\ IF ok THEN ForgetRoute(prefix, nexthops) ELSE UNCHANGED <<m_EcmpGroups, m_Routes>>
    BY <1>5, <2>2 DEF DeleteGroupOf, NextHopGrpMgr_Del, GrpVars
  <2>4. CASE ok
    <3>1. /\ DOMAIN groups' = DOMAIN groups \ {nhg_id}
          /\ m_ips2NextHGMap' = Erase(m_ips2NextHGMap, nexthops)
          /\ m_EcmpGroups' = Erase(m_EcmpGroups, nexthops)
      BY <2>3, <2>4 DEF remove_next_hop_group, ForgetRoute, Erase
    <3>2. \A S \in DOMAIN m_ips2NextHGMap : m_ips2NextHGMap[S] = nhg_id => S = nexthops
      BY <2>2 DEF Inv, Known, GroupsLive
    <3>3. /\ DOMAIN m_ips2NextHGMap' = DOMAIN m_ips2NextHGMap \ {nexthops}
          /\ \A S \in DOMAIN m_ips2NextHGMap' : m_ips2NextHGMap'[S] = m_ips2NextHGMap[S]
          /\ DOMAIN m_EcmpGroups' = DOMAIN m_EcmpGroups \ {nexthops}
          /\ \A S \in DOMAIN m_EcmpGroups' : m_EcmpGroups'[S] = m_EcmpGroups[S]
      BY <3>1 DEF Erase
    <3>4. DOMAIN groups = {m_ips2NextHGMap[S] : S \in DOMAIN m_ips2NextHGMap}
      BY DEF ExactInv, GroupsExact
    <3>5. DOMAIN groups' = {m_ips2NextHGMap'[S] : S \in DOMAIN m_ips2NextHGMap'}
      BY <2>2, <3>1, <3>2, <3>3, <3>4
    <3> QED
      BY <1>1, <3>3, <3>5 DEF ExactInv, GroupsExact
  <2>5. CASE ~ok
    BY <1>2, <2>3, <2>5 DEF remove_next_hop_group, GrpVars
  <2> QED
    BY <2>4, <2>5
<1> QED
  BY <1>2, <1>3, <1>4, <1>5, Zenon DEF RouteMgr_Del, RouteVars

LEMMA ExactStep ==
  ASSUME NoLiberties, CleanFaults, NoLeaks, EnoughIds, Inv, ExactInv, [Next]_vars
  PROVE  ExactInv'
<1>1. ASSUME NEW ip \in Ips, NEW mac \in Macs, NEW intf \in Intfs,
             AddNeighbor(ip, mac, intf)
      PROVE  ExactInv'
  BY <1>1, AddNeighborExact
<1>2. ASSUME NEW ip \in Ips, DelNeighbor(ip)
      PROVE  ExactInv'
  BY <1>2, NeighborDelExact DEF DelNeighbor
<1>3. ASSUME NEW nexthops \in NextHopSets, AddGroup(nexthops) \/ DelGroup(nexthops)
      PROVE  FALSE
  BY <1>3 DEF AddGroup, DelGroup, Allowed, NoLiberties
<1>4. ASSUME NEW prefix \in Prefixes, NEW nexthops \in NextHopSets,
             AddRoute(prefix, nexthops)
      PROVE  ExactInv'
  BY <1>4, AddRouteExact DEF AddRoute
<1>5. ASSUME NEW prefix \in Prefixes, DelRoute(prefix)
      PROVE  ExactInv'
  BY <1>5, DelRouteExact DEF DelRoute
<1>6. CASE UNCHANGED <<sai, caches>>
  BY <1>6 DEF sai, caches, ExactInv, NeighborsExact, GroupsExact
<1>7. CASE BeginEraseAll
  BY <1>6, <1>7 DEF BeginEraseAll
<1>8. CASE EraseNextHops
  BY <1>8 DEF EraseNextHops, NextHopMgr_EraseAll, Inv, DeliveryInv
<1>9. CASE EraseNeighbors
  <2>1. OnlyNeighbors
    BY <1>9 DEF EraseNeighbors
  <2>2. CASE UNCHANGED NbrVars
    BY <1>6, <2>1, <2>2 DEF NbrVars, OnlyNeighbors, sai, caches
  <2>3. ASSUME NEW ip \in DOMAIN m_ip2NbrMap, NEW ok \in BOOLEAN, NeighborMgr_Del(ip, ok)
        PROVE  ExactInv'
    <3>1. ip \in Ips
      BY DEF Inv, Known, NbrInv, NbrTypes, IsMap
    <3> QED
      BY <2>1, <2>3, <3>1, NeighborDelExact
  <2> QED
    BY <1>9, <2>2, <2>3 DEF EraseNeighbors, NeighborMgr_EraseAll
<1>10. CASE EraseRoutes
  <2>1. OnlyRoutes
    BY <1>10 DEF EraseRoutes
  <2>2. CASE UNCHANGED <<GrpVars, RouteVars>>
    BY <1>6, <2>1, <2>2 DEF GrpVars, RouteVars, OnlyRoutes, sai, caches
  <2>3. ASSUME NEW prefix, NEW ok \in BOOLEAN, RouteMgr_Del(prefix, ok)
        PROVE  ExactInv'
    BY <2>1, <2>3, DelRouteExact
  <2> QED
    BY <1>10, <2>2, <2>3 DEF EraseRoutes, RouteMgr_EraseAll
<1>11. CASE UNCHANGED vars
  BY <1>6, <1>11 DEF vars
<1> QED
  BY <1>1, <1>2, <1>3, <1>4, <1>5, <1>7, <1>8, <1>9, <1>10, <1>11 DEF Next, Crashed

(* By the rules of the test program, when no call fails that leaves something behind *)
(* and ids do not run out, the ASIC holds what the caches list and nothing else, also *)
(* between the turns of an EraseAll.                                                  *)
THEOREM AsicAlwaysCaches ==
  ASSUME NoLiberties, CleanFaults, NoLeaks, EnoughIds
  PROVE  Spec => []AsicIsCaches
<1>1. Init => ExactInv
  BY DEF Init, ExactInv, NeighborsExact, GroupsExact, EmptyMap
<1>2. Inv /\ ExactInv /\ [Next]_vars => ExactInv'
  BY ExactStep
<1>3. Inv /\ ExactInv => AsicIsCaches
  BY InvIsCaches
<1> QED
  BY <1>1, <1>2, <1>3, FibInvariant, PTL DEF Spec
=============================================================================
