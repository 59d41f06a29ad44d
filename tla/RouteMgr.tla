------------------------------ MODULE RouteMgr ------------------------------
(***************************************************************************)
(* test/basic_router/route_mgr.cpp: the routes, and the cache m_EcmpGroups *)
(* of the object id that stands for a set of next hops: the id of a next   *)
(* hop, the id of a group, or 0 for the black hole.                        *)
(***************************************************************************)
EXTENDS NextHopGrpMgr

CONSTANT ZeroIp             \* IpAddress("0.0.0.0")

ASSUME ZeroAssumption == ZeroIp \notin Ips

VARIABLES
  m_Routes,                 \* prefix -> set of ips
  m_EcmpGroups              \* set of ips -> oid

RouteVars == <<routes, m_Routes, m_EcmpGroups>>

BlackHole == {ZeroIp}
NextHopSets == (SUBSET Ips \ {{}}) \cup {BlackHole}

\* m[k] of a std::map inserts 0 when k is missing.
Get(m, k) == IF k \in DOMAIN m THEN m[k] ELSE NullOid
GetOrInsert(m, k) == Put(m, k, Get(m, k))

\* The first half of Add: the object id of nexthops, which is cached before the
\* route is written.
Unresolved(nexthops) ==
  /\ nexthops \notin DOMAIN m_EcmpGroups
  /\ \/ KnownCount(nexthops) = 0 /\ UNCHANGED GrpVars
     \/ KnownCount(nexthops) > 1 /\ NextHopGrpMgr_Add(nexthops, FALSE)

Resolved(nexthops, oid) ==
  \/ /\ nexthops \in DOMAIN m_EcmpGroups
     /\ oid = m_EcmpGroups[nexthops]
     /\ UNCHANGED <<groups, m_ips2NextHGMap, m_EcmpGroups>>
  \/ /\ nexthops \notin DOMAIN m_EcmpGroups
     /\ KnownCount(nexthops) = 1
     /\ Nhids(nexthops) = {oid}
     /\ m_EcmpGroups' = Put(m_EcmpGroups, nexthops, oid)
     /\ UNCHANGED GrpVars
  \/ /\ nexthops \notin DOMAIN m_EcmpGroups
     /\ KnownCount(nexthops) > 1
     /\ NextHopGrpMgr_Add(nexthops, TRUE)
     /\ oid = m_ips2NextHGMap'[nexthops]
     /\ m_EcmpGroups' = Put(m_EcmpGroups, nexthops, oid)

RouteAttr(nexthops, oid) ==
  IF nexthops = BlackHole THEN DropAttr ELSE NextHopAttr(oid)

\* Mutant of RecordRoute: the next hops that are neighbors are stored.
RecordRoute_Known(prefix, nexthops, ok) ==
  m_Routes' = IF ok THEN Put(m_Routes, prefix, KnownNeighbors(nexthops)) ELSE m_Routes

RecordRoute(prefix, nexthops, ok) ==
  m_Routes' = IF ok THEN Put(m_Routes, prefix, nexthops) ELSE m_Routes

\* Mutant of WriteRoute: any route of the ASIC is updated, not only those of the
\* table.
WriteRoute_Upserts(prefix, nexthops, attr, ok) ==
  /\ IF prefix \in DOMAIN routes THEN set_route_attribute(prefix, attr, ok)
                                 ELSE create_route(prefix, attr, ok)
  /\ RecordRoute(prefix, nexthops, ok)

\* The second half: a route of the table is updated, and the table keeps the
\* old next hops; any other one is created.
WriteRoute(prefix, nexthops, attr, ok) ==
  \/ /\ prefix \notin DOMAIN m_Routes
     /\ create_route(prefix, attr, ok)
     /\ RecordRoute(prefix, nexthops, ok)
  \/ /\ prefix \in DOMAIN m_Routes
     /\ set_route_attribute(prefix, attr, ok)
     /\ UNCHANGED m_Routes

RouteMgr_Add(prefix, nexthops, ok) ==
  \/ /\ Unresolved(nexthops)
     /\ ok = FALSE
     /\ UNCHANGED RouteVars
  \/ \E oid \in NhOids \cup GrpOids \cup {NullOid} :
       /\ Resolved(nexthops, oid)
       /\ WriteRoute(prefix, nexthops, RouteAttr(nexthops, oid), ok)

\* Mutants of ForgetRoute: the entry of the next hops stays, or is reset to 0.
ForgetRoute_KeepsGroup(prefix, nexthops) ==
  UNCHANGED m_EcmpGroups /\ m_Routes' = Erase(m_Routes, prefix)

ForgetRoute_ZeroesGroup(prefix, nexthops) ==
  /\ m_EcmpGroups' = Put(m_EcmpGroups, nexthops, NullOid)
  /\ m_Routes' = Erase(m_Routes, prefix)

\* The end of Del: both entries go, the one of the next hops even if another
\* route has the same (the loop that looks for one has no effect).
ForgetRoute(prefix, nexthops) ==
  /\ m_EcmpGroups' = Erase(m_EcmpGroups, nexthops)
  /\ m_Routes' = Erase(m_Routes, prefix)

\* The same when the next hops have a group.  The route is out of the ASIC
\* already; if the group cannot be removed the entries stay.
DeleteGroupOf(prefix, nexthops, ok) ==
  /\ NextHopGrpMgr_Del(nexthops, ok)
  /\ IF ok THEN ForgetRoute(prefix, nexthops) ELSE UNCHANGED <<m_EcmpGroups, m_Routes>>

RouteMgr_Del(prefix, ok) ==
  \/ /\ prefix \notin DOMAIN m_Routes
     /\ ok = TRUE
     /\ UNCHANGED <<GrpVars, RouteVars>>
  \/ /\ prefix \in DOMAIN m_Routes
     /\ remove_route(prefix, FALSE)
     /\ ok = FALSE
     /\ UNCHANGED <<GrpVars, m_Routes, m_EcmpGroups>>
  \/ /\ prefix \in DOMAIN m_Routes
     /\ remove_route(prefix, TRUE)
     /\ LET nexthops == m_Routes[prefix]
            nhg_id == Get(m_EcmpGroups, nexthops)
        IN \/ /\ nhg_id = NullOid            \* "skip the entry for blackhole"
              /\ ok = TRUE
              /\ m_EcmpGroups' = GetOrInsert(m_EcmpGroups, nexthops)
              /\ m_Routes' = Erase(m_Routes, prefix)
              /\ UNCHANGED GrpVars
           \/ /\ nhg_id \in NhOids
              /\ ok = TRUE
              /\ ForgetRoute(prefix, nexthops)
              /\ UNCHANGED GrpVars
           \/ /\ nhg_id \in GrpOids
              /\ DeleteGroupOf(prefix, nexthops, ok)

RouteMgr_EraseAll ==
  /\ phase = "RouteMgr::EraseAll"
  /\ \/ /\ DOMAIN m_Routes = {}
        /\ phase' = "idle"
        /\ UNCHANGED <<GrpVars, RouteVars>>
     \/ \E prefix \in DOMAIN m_Routes, ok \in BOOLEAN :
          /\ RouteMgr_Del(prefix, ok)
          /\ phase' \in AfterDel("RouteMgr::EraseAll", ok)
=============================================================================
